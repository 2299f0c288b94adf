--------------------------- MODULE RationalProofs ----------------------------
(***************************************************************************)
(* Lemmas about the fractions of module Rationals: Gcd and what it makes   *)
(* reduced, the laws of the four operations, sums of any finite set of     *)
(* values in any order, and rounding.  Then lemmas about the Decimals of   *)
(* services/series.py: how far a result, a product, a sum and a quotient   *)
(* of theirs may be from the exact one, for any number of digits.          *)
(* Induction is over sets of naturals, from the least number that is not   *)
(* in the set.                                                             *)
(***************************************************************************)
EXTENDS Decimals, WellFoundedInduction, FiniteSetTheorems, TLAPS

LessNat == {p \in Nat \X Nat : p[1] < p[2]}

\* The naturals are well founded.
LEMMA LessNatWellFounded == IsWellFoundedOn(LessNat, Nat)
  BY NatLessThanWellFounded DEF LessNat, OpToRel

\* A set of naturals that is not empty has a least element.
LEMMA LeastNat ==
  ASSUME NEW T, T \subseteq Nat, T # {}
  PROVE  \E x \in T : \A y \in T : x <= y
<1>1. PICK x \in T : \A y \in T : ~(<<y, x>> \in LessNat)
  BY LessNatWellFounded, WFMin
<1>2. ASSUME NEW y \in T PROVE x <= y
  <2>1. x \in Nat /\ y \in Nat /\ ~(<<y, x>> \in LessNat)
    BY <1>1
  <2>2. <<y, x>> \in Nat \X Nat /\ <<y, x>>[1] = y /\ <<y, x>>[2] = x
    BY <2>1
  <2>3. ~(y < x)
    BY <2>1, <2>2 DEF LessNat
  <2> QED BY <2>1, <2>3
<1> QED BY <1>2

\* Induction, with a set in place of a predicate.
LEMMA NatBySets ==
  ASSUME NEW S, 0 \in S, \A n \in Nat : n \in S => n + 1 \in S
  PROVE  Nat \subseteq S
<1> DEFINE T == Nat \ S
<1>1. SUFFICES ASSUME T # {} PROVE FALSE
  OBVIOUS
<1>2. PICK x \in T : \A y \in T : x <= y
  BY <1>1, LeastNat
<1>3. x # 0 /\ x - 1 \in Nat /\ (x - 1) + 1 = x
  OBVIOUS
<1>4. x - 1 \in S
  BY <1>2, <1>3
<1> QED BY <1>3, <1>4

\* The same from all smaller numbers.
LEMMA NatByLess ==
  ASSUME NEW S, \A n \in Nat : (\A k \in 0 .. n - 1 : k \in S) => n \in S
  PROVE  Nat \subseteq S
<1> DEFINE T == Nat \ S
<1>1. SUFFICES ASSUME T # {} PROVE FALSE
  OBVIOUS
<1>2. PICK x \in T : \A y \in T : x <= y
  BY <1>1, LeastNat
<1>3. \A k \in 0 .. x - 1 : k \in S
  BY <1>2
<1> QED BY <1>3

\* Quotient and remainder.
LEMMA DivMod ==
  ASSUME NEW a \in Nat, NEW b \in Nat \ {0}
  PROVE  /\ a \div b \in Nat /\ a % b \in 0 .. b - 1
         /\ a = b * (a \div b) + (a % b)
  OBVIOUS

Combinations(a, b) == {n \in Nat \ {0} : \E x, y \in Int : n = a * x + b * y}

\* A step of Euclid's algorithm keeps the combinations of two numbers.
LEMMA CombinationsStep ==
  ASSUME NEW a \in Nat, NEW b \in Nat \ {0}
  PROVE  Combinations(a, b) = Combinations(b, a % b)
<1> DEFINE q == a \div b
           r == a % b
<1>1. q \in Int /\ r \in Int /\ a = b * q + r
  BY DivMod
<1> HIDE DEF q, r
<1>2. ASSUME NEW n \in Combinations(a, b) PROVE n \in Combinations(b, r)
  <2>1. PICK x \in Int, y \in Int : n = a * x + b * y
    BY <1>2 DEF Combinations
  <2>2. q * x + y \in Int /\ n = b * (q * x + y) + r * x
    BY <1>1, <2>1
  <2> QED BY <2>2, <1>2 DEF Combinations
<1>3. ASSUME NEW n \in Combinations(b, r) PROVE n \in Combinations(a, b)
  <2>1. PICK x \in Int, y \in Int : n = b * x + r * y
    BY <1>3 DEF Combinations
  <2>2. x - q * y \in Int /\ n = a * y + b * (x - q * y)
    BY <1>1, <2>1
  <2> QED BY <2>2, <1>3 DEF Combinations
<1> QED BY <1>2, <1>3 DEF r

\* A positive multiple of a number is not less than it.
LEMMA MultipleIsNotLess ==
  ASSUME NEW b \in Nat, NEW x \in Int, b * x > 0
  PROVE  b <= b * x
<1>1. CASE x <= 0
  <2>1. b * x <= 0
    BY <1>1
  <2> QED BY <2>1
<1>2. CASE x >= 1
  <2>1. b * (x - 1) >= 0
    BY <1>2
  <2> QED BY <2>1
<1> QED BY <1>1, <1>2

LeastOf(S) == CHOOSE x \in S : \A y \in S : x <= y

\* There is one least element.
LEMMA LeastOfUnique ==
  ASSUME NEW S, S \subseteq Nat, NEW x \in S, \A y \in S : x <= y
  PROVE  LeastOf(S) = x
<1>1. LeastOf(S) \in S /\ \A y \in S : LeastOf(S) <= y
  BY DEF LeastOf
<1>2. LeastOf(S) <= x /\ x <= LeastOf(S) /\ x \in Nat /\ LeastOf(S) \in Nat
  BY <1>1
<1> QED BY <1>2

\* The least positive multiple of a number is the number.
LEMMA CombinationsOfMultiples ==
  ASSUME NEW b \in Nat \ {0}
  PROVE  LeastOf(Combinations(b, 0)) = b
<1>1. b \in Combinations(b, 0)
  <2>1. b = b * 1 + 0 * 0
    OBVIOUS
  <2> QED BY <2>1 DEF Combinations
<1>2. ASSUME NEW n \in Combinations(b, 0) PROVE b <= n
  <2>1. PICK x \in Int, y \in Int : n = b * x + 0 * y
    BY <1>2 DEF Combinations
  <2>2. n = b * x /\ n > 0
    BY <1>2, <2>1 DEF Combinations
  <2> QED BY <2>2, MultipleIsNotLess
<1>3. Combinations(b, 0) \subseteq Nat
  BY DEF Combinations
<1> QED BY <1>1, <1>2, <1>3, LeastOfUnique

\* Gcd is what its recursion says: the least positive combination satisfies it.
LEMMA GcdDefined ==
  Gcd = [p \in Nat \X Nat |->
           IF p[2] = 0 THEN p[1] ELSE Gcd[<<p[2], p[1] % p[2]>>]]
<1> DEFINE g == [p \in Nat \X Nat |->
                   IF p[2] = 0 THEN p[1] ELSE LeastOf(Combinations(p[1], p[2]))]
           step == [p \in Nat \X Nat |->
                      IF p[2] = 0 THEN p[1] ELSE g[<<p[2], p[1] % p[2]>>]]
<1>1. ASSUME NEW a \in Nat, NEW b \in Nat \ {0}
      PROVE  g[<<a, b>>] = g[<<b, a % b>>]
  <2>1. a % b \in Nat
    BY DivMod
  <2>2. g[<<a, b>>] = LeastOf(Combinations(b, a % b))
    BY CombinationsStep
  <2>3. CASE a % b = 0
    <3>1. g[<<b, a % b>>] = b
      BY <2>3
    <3> QED BY <2>2, <2>3, <3>1, CombinationsOfMultiples
  <2>4. CASE a % b # 0
    <3>1. g[<<b, a % b>>] = LeastOf(Combinations(b, a % b))
      BY <2>1, <2>4
    <3> QED BY <2>2, <3>1
  <2> QED BY <2>3, <2>4
<1>2. ASSUME NEW p \in Nat \X Nat
      PROVE  g[p] = step[p]
  <2>1. p[1] \in Nat /\ p[2] \in Nat /\ p = <<p[1], p[2]>>
    OBVIOUS
  <2>2. CASE p[2] = 0
    BY <2>2
  <2>3. CASE p[2] # 0
    <3>1. g[<<p[1], p[2]>>] = g[<<p[2], p[1] % p[2]>>]
      BY <1>1, <2>1, <2>3
    <3> HIDE DEF g
    <3>2. step[p] = g[<<p[2], p[1] % p[2]>>]
      BY <2>3
    <3> QED BY <3>1, <3>2, <2>1
  <2> QED BY <2>2, <2>3
<1>3. g = step
  BY <1>2
<1> HIDE DEF g
<1>4. \E f : f = [p \in Nat \X Nat |->
                    IF p[2] = 0 THEN p[1] ELSE f[<<p[2], p[1] % p[2]>>]]
  BY <1>3
<1> QED BY <1>4 DEF Gcd

IsGcd(a, b, g) ==
  /\ g \in Nat \ {0}
  /\ \E k \in Nat : a = g * k
  /\ \E l \in Nat : b = g * l
  /\ \E x, y \in Int : a * x + b * y = g

\* Gcd divides both numbers and is a combination of them.
LEMMA GcdWorks ==
  ASSUME NEW a \in Nat, NEW b \in Nat, a # 0 \/ b # 0
  PROVE  IsGcd(a, b, Gcd[<<a, b>>])
<1> DEFINE S == {n \in Nat : \A m \in Nat : m # 0 \/ n # 0 => IsGcd(m, n, Gcd[<<m, n>>])}
<1>1. ASSUME NEW n \in Nat, \A k \in 0 .. n - 1 : k \in S
      PROVE  n \in S
  <2>1. SUFFICES ASSUME NEW m \in Nat, m # 0 \/ n # 0
                 PROVE  IsGcd(m, n, Gcd[<<m, n>>])
    OBVIOUS
  <2>2. <<m, n>> \in Nat \X Nat /\ <<m, n>>[1] = m /\ <<m, n>>[2] = n
    OBVIOUS
  <2>3. CASE n = 0
    <3>1. Gcd[<<m, n>>] = m
      BY <2>2, <2>3, GcdDefined
    <3>2. m = m * 1 /\ n = m * 0 /\ m * 1 + n * 0 = m /\ m \in Nat \ {0}
      BY <2>1, <2>3
    <3> QED BY <3>1, <3>2 DEF IsGcd
  <2>4. CASE n # 0
    <3> DEFINE q == m \div n
               r == m % n
               g == Gcd[<<n, r>>]
    <3>1. q \in Nat /\ r \in 0 .. n - 1 /\ m = n * q + r
      BY <2>4, DivMod
    <3>2. Gcd[<<m, n>>] = g
      BY <2>2, <2>4, GcdDefined
    <3> HIDE DEF q, r
    <3>3. r \in S
      BY <1>1, <3>1
    <3>4. IsGcd(n, r, g)
      BY <2>4, <3>3
    <3> HIDE DEF g
    <3>5. PICK k \in Nat, l \in Nat, x \in Int, y \in Int :
            n = g * k /\ r = g * l /\ n * x + r * y = g
      BY <3>4 DEF IsGcd
    <3>6. g \in Nat \ {0}
      BY <3>4 DEF IsGcd
    <3>7. k * q + l \in Nat /\ m = g * (k * q + l)
      BY <3>1, <3>5, <3>6
    <3>8. x - q * y \in Int /\ m * y + n * (x - q * y) = n * x + r * y
      BY <3>1, <3>5
    <3> QED BY <3>2, <3>5, <3>6, <3>7, <3>8 DEF IsGcd
  <2> QED BY <2>3, <2>4
<1> HIDE DEF S
<1>2. Nat \subseteq S
  BY <1>1, NatByLess
<1> QED BY <1>2 DEF S

\* Exact division by a positive number.
LEMMA ExactDivision ==
  ASSUME NEW g \in Nat \ {0}, NEW k \in Int
  PROVE  (g * k) \div g = k
  OBVIOUS

\* A factor that is not zero cancels.
LEMMA Cancel ==
  ASSUME NEW a \in Int, NEW b \in Int, NEW c \in Int, c # 0, a * c = b * c
  PROVE  a = b
  OBVIOUS

\* A reduced fraction is one whose parts have 1 among their combinations.
IsReduced(n, d) == \E x, y \in Int : n * x + d * y = 1

\* The two parts of a fraction.
LEMMA FractionParts ==
  ASSUME NEW p \in Fractions
  PROVE  /\ p[1] \in Int /\ p[2] \in Nat \ {0} /\ p = <<p[1], p[2]>>
         /\ IsReduced(p[1], p[2])
<1>1. p \in Int \X (Nat \ {0}) /\ Gcd[<<Abs(p[1]), p[2]>>] = 1
  BY DEF Fractions
<1>2. p[1] \in Int /\ p[2] \in Nat \ {0} /\ p = <<p[1], p[2]>>
  BY <1>1
<1> DEFINE n == p[1]
           d == p[2]
<1> HIDE DEF n, d
<1>3. Abs(n) \in Nat /\ d \in Nat /\ n \in Int
  BY <1>2 DEF Abs, n, d
<1>4. IsGcd(Abs(n), d, 1)
  BY <1>1, <1>2, <1>3, GcdWorks DEF n, d
<1>5. PICK x \in Int, y \in Int : Abs(n) * x + d * y = 1
  BY <1>4 DEF IsGcd
<1>6. CASE n < 0
  <2>1. n * (-x) + d * y = 1 /\ -x \in Int
    BY <1>3, <1>5, <1>6 DEF Abs
  <2> QED BY <1>2, <2>1 DEF IsReduced, n, d
<1>7. CASE ~(n < 0)
  <2>1. n * x + d * y = 1
    BY <1>3, <1>5, <1>7 DEF Abs
  <2> QED BY <1>2, <2>1 DEF IsReduced, n, d
<1> QED BY <1>6, <1>7

\* Numbers that combine to 1 have 1 as their greatest common divisor ...
LEMMA ReducedHasGcdOne ==
  ASSUME NEW n \in Nat, NEW d \in Nat \ {0}, IsReduced(n, d)
  PROVE  Gcd[<<n, d>>] = 1
<1> DEFINE g == Gcd[<<n, d>>]
<1>1. IsGcd(n, d, g)
  BY GcdWorks
<1> HIDE DEF g
<1>2. PICK k \in Nat, l \in Nat : n = g * k /\ d = g * l
  BY <1>1 DEF IsGcd
<1>3. PICK x \in Int, y \in Int : n * x + d * y = 1
  BY DEF IsReduced
<1> DEFINE z == k * x + l * y
<1>4. g \in Nat \ {0} /\ z \in Int /\ g * z = 1
  BY <1>1, <1>2, <1>3 DEF IsGcd
<1> HIDE DEF z
<1>5. g * z > 0
  BY <1>4
<1>6. g <= g * z
  BY <1>4, <1>5, MultipleIsNotLess
<1> QED BY <1>4, <1>6 DEF g

\* ... and are a fraction.
LEMMA ReducedIsFraction ==
  ASSUME NEW n \in Int, NEW d \in Nat \ {0}, IsReduced(n, d)
  PROVE  <<n, d>> \in Fractions
<1>1. Abs(n) \in Nat
  BY DEF Abs
<1>2. IsReduced(Abs(n), d)
  <2>1. PICK x \in Int, y \in Int : n * x + d * y = 1
    BY DEF IsReduced
  <2>2. CASE n < 0
    <3>1. (-n) * (-x) + d * y = 1 /\ -x \in Int
      BY <2>1
    <3> QED BY <2>2, <3>1 DEF IsReduced, Abs
  <2>3. CASE ~(n < 0)
    BY <2>1, <2>3 DEF IsReduced, Abs
  <2> QED BY <2>2, <2>3
<1>3. Gcd[<<Abs(n), d>>] = 1
  BY <1>1, <1>2, ReducedHasGcdOne
<1> QED BY <1>3 DEF Fractions

\* Frac(n, d) is the reduced fraction whose value is n / d.
LEMMA FracIsFraction ==
  ASSUME NEW n \in Int, NEW d \in Int, d # 0
  PROVE  /\ Frac(n, d) \in Fractions
         /\ Frac(n, d)[1] * d = n * Frac(n, d)[2]
<1> DEFINE a == Abs(n)
           b == Abs(d)
           g == Gcd[<<a, b>>]
           s == IF d < 0 THEN -1 ELSE 1
<1>1. a \in Nat /\ b \in Nat \ {0} /\ s \in Int /\ s * d = b
  BY DEF Abs
<1>2. PICK t \in {-1, 1} : s * n = t * a
  BY DEF Abs
<1>3. IsGcd(a, b, g)
  BY <1>1, GcdWorks
<1>4. Frac(n, d) = <<(s * n) \div g, (s * d) \div g>>
  BY DEF Frac
<1> HIDE DEF a, b, g
<1>5. PICK k \in Nat, l \in Nat, x \in Int, y \in Int :
        a = g * k /\ b = g * l /\ a * x + b * y = g
  BY <1>3 DEF IsGcd
<1>6. g \in Nat \ {0}
  BY <1>3 DEF IsGcd
<1>7. s * n = g * (t * k) /\ t * k \in Int /\ s * d = g * l
  BY <1>1, <1>2, <1>5, <1>6
<1>8. (s * n) \div g = t * k /\ (s * d) \div g = l
  BY <1>6, <1>7, ExactDivision
<1>9. Frac(n, d) = <<t * k, l>>
  BY <1>4, <1>8
<1>10. l \in Nat \ {0}
  BY <1>1, <1>5, <1>6
<1>11. IsReduced(t * k, l)
  <2>1. g * (k * x + l * y) = g * 1
    BY <1>5, <1>6
  <2>2. k * x + l * y = 1
    BY <2>1, <1>5, <1>6
  <2>3. t * t = 1 /\ t \in Int
    OBVIOUS
  <2>4. (t * k) * (t * x) = (t * t) * (k * x) /\ t * x \in Int
    BY <2>3
  <2>5. (t * k) * (t * x) + l * y = 1
    BY <2>2, <2>3, <2>4
  <2> QED BY <2>4, <2>5 DEF IsReduced
<1>12. (t * k) * d = n * l
  <2> DEFINE h == t * k
  <2>1. s \in {-1, 1} /\ h \in Int /\ s * n = g * h /\ s * d = g * l
    BY <1>7
  <2> HIDE DEF h, s
  <2>2. s * (h * d) = s * (n * l)
    <3>1. s * (h * d) = h * (s * d) /\ s * (n * l) = (s * n) * l
      BY <2>1
    <3> QED BY <1>6, <2>1, <3>1
  <2>3. h * d = n * l
    BY <2>1, <2>2
  <2> QED BY <2>3 DEF h
<1> QED BY <1>5, <1>7, <1>9, <1>10, <1>11, <1>12, ReducedIsFraction

\* There is one reduced fraction of every value.
LEMMA FractionsEqual ==
  ASSUME NEW p \in Fractions, NEW q \in Fractions, p[1] * q[2] = q[1] * p[2]
  PROVE  p = q
<1> DEFINE a == p[1]
           b == p[2]
           c == q[1]
           d == q[2]
<1>1. /\ a \in Int /\ b \in Nat \ {0} /\ p = <<a, b>>
      /\ c \in Int /\ d \in Nat \ {0} /\ q = <<c, d>>
      /\ IsReduced(a, b) /\ IsReduced(c, d) /\ a * d = c * b
  BY FractionParts
<1> HIDE DEF a, b, c, d
<1>2. PICK x \in Int, y \in Int : a * x + b * y = 1
  BY <1>1 DEF IsReduced
<1>3. PICK u \in Int, v \in Int : c * u + d * v = 1
  BY <1>1 DEF IsReduced
<1>4. d = b * (c * x + d * y) /\ c * x + d * y \in Int
  <2>1. d * (a * x + b * y) = (a * d) * x + b * (d * y)
    BY <1>1
  <2>2. d * (a * x + b * y) = d
    BY <1>1, <1>2
  <2>3. (c * b) * x + b * (d * y) = b * (c * x + d * y)
    BY <1>1
  <2> QED BY <1>1, <2>1, <2>2, <2>3
<1>5. b = d * (a * u + b * v) /\ a * u + b * v \in Int
  <2>1. b * (c * u + d * v) = (c * b) * u + d * (b * v)
    BY <1>1
  <2>2. b * (c * u + d * v) = b
    BY <1>1, <1>3
  <2>3. (a * d) * u + d * (b * v) = d * (a * u + b * v)
    BY <1>1
  <2> QED BY <1>1, <2>1, <2>2, <2>3
<1>6. b <= d
  <2> DEFINE z == c * x + d * y
  <2>1. z \in Int /\ b * z = d /\ b * z > 0
    BY <1>1, <1>4
  <2> HIDE DEF z
  <2>2. b <= b * z
    BY <1>1, <2>1, MultipleIsNotLess
  <2> QED BY <2>1, <2>2
<1>7. d <= b
  <2> DEFINE z == a * u + b * v
  <2>1. z \in Int /\ d * z = b /\ d * z > 0
    BY <1>1, <1>5
  <2> HIDE DEF z
  <2>2. d <= d * z
    BY <1>1, <2>1, MultipleIsNotLess
  <2> QED BY <2>1, <2>2
<1>8. b = d
  BY <1>1, <1>6, <1>7
<1>9. a = c
  BY <1>1, <1>8, Cancel
<1> QED BY <1>1, <1>8, <1>9

\* Frac finds the fraction of a value.
LEMMA IsFrac ==
  ASSUME NEW p \in Fractions, NEW n \in Int, NEW d \in Int, d # 0,
         p[1] * d = n * p[2]
  PROVE  p = Frac(n, d)
<1> DEFINE f == Frac(n, d)
           a == p[1]
           b == p[2]
           u == f[1]
           v == f[2]
<1>1. f \in Fractions /\ u * d = n * v
  BY FracIsFraction
<1>2. a \in Int /\ b \in Int /\ u \in Int /\ v \in Int /\ a * d = n * b
  BY <1>1, FractionParts
<1> HIDE DEF f
<1>3. a * v = u * b
  <2> HIDE DEF a, b, u, v
  <2>1. (a * v) * d = (a * d) * v /\ (u * b) * d = (u * d) * b
    BY <1>2
  <2>2. (a * v) * d = (u * b) * d
    BY <1>1, <1>2, <2>1
  <2> QED BY <1>2, <2>2, Cancel
<1> QED BY <1>1, <1>3, FractionsEqual DEF f

\* Equal values have one fraction.
LEMMA FracsEqual ==
  ASSUME NEW n \in Int, NEW d \in Int, d # 0,
         NEW m \in Int, NEW e \in Int, e # 0, n * e = m * d
  PROVE  Frac(n, d) = Frac(m, e)
<1> DEFINE f == Frac(n, d)
           u == f[1]
           v == f[2]
<1>1. f \in Fractions /\ u * d = n * v
  BY FracIsFraction
<1>2. u \in Int /\ v \in Int
  BY <1>1, FractionParts
<1> HIDE DEF f
<1>3. u * e = m * v
  <2> HIDE DEF u, v
  <2>1. (u * e) * d = (u * d) * e /\ (m * v) * d = (m * d) * v
    BY <1>2
  <2>2. (n * v) * e = (n * e) * v
    BY <1>2
  <2>3. (u * e) * d = (m * v) * d
    BY <1>1, <1>2, <2>1, <2>2
  <2> QED BY <1>2, <2>3, Cancel
<1> QED BY <1>1, <1>3, IsFrac DEF f

\* Products of denominators are denominators ...
LEMMA PositiveProduct ==
  ASSUME NEW a \in Nat \ {0}, NEW b \in Nat \ {0}
  PROVE  a * b \in Nat \ {0}
  OBVIOUS

\* ... and of divisors divisors.
LEMMA NonzeroProduct ==
  ASSUME NEW a \in Int, NEW b \in Int, a # 0, b # 0
  PROVE  a * b \in Int /\ a * b # 0
  OBVIOUS

\* The four operations lead from fractions to fractions, of the value they
\* should have.
LEMMA PlusIsFraction ==
  ASSUME NEW p \in Fractions, NEW q \in Fractions
  PROVE  /\ Plus(p, q) \in Fractions
         /\ Plus(p, q)[1] * (p[2] * q[2]) = (p[1] * q[2] + q[1] * p[2]) * Plus(p, q)[2]
<1>1. p[1] * q[2] + q[1] * p[2] \in Int /\ p[2] * q[2] \in Nat \ {0}
  BY FractionParts, PositiveProduct
<1> QED BY <1>1, FracIsFraction DEF Plus

\* The difference.
LEMMA MinusIsFraction ==
  ASSUME NEW p \in Fractions, NEW q \in Fractions
  PROVE  /\ Minus(p, q) \in Fractions
         /\ Minus(p, q)[1] * (p[2] * q[2]) = (p[1] * q[2] - q[1] * p[2]) * Minus(p, q)[2]
<1>1. p[1] * q[2] - q[1] * p[2] \in Int /\ p[2] * q[2] \in Nat \ {0}
  BY FractionParts, PositiveProduct
<1> QED BY <1>1, FracIsFraction DEF Minus

\* The product.
LEMMA TimesIsFraction ==
  ASSUME NEW p \in Fractions, NEW q \in Fractions
  PROVE  /\ Times(p, q) \in Fractions
         /\ Times(p, q)[1] * (p[2] * q[2]) = (p[1] * q[1]) * Times(p, q)[2]
<1>1. p[1] * q[1] \in Int /\ p[2] * q[2] \in Nat \ {0}
  BY FractionParts, PositiveProduct
<1> QED BY <1>1, FracIsFraction DEF Times

\* The quotient, of a divisor that is not zero.
LEMMA OverIsFraction ==
  ASSUME NEW p \in Fractions, NEW q \in Fractions, q[1] # 0
  PROVE  /\ Over(p, q) \in Fractions
         /\ Over(p, q)[1] * (p[2] * q[1]) = (p[1] * q[2]) * Over(p, q)[2]
<1>1. p[1] * q[2] \in Int /\ p[2] * q[1] \in Int /\ p[2] * q[1] # 0
  BY FractionParts, NonzeroProduct
<1> QED BY <1>1, FracIsFraction DEF Over

\* A whole number is a fraction.
LEMMA WholeIsFraction ==
  ASSUME NEW n \in Int
  PROVE  Whole(n) \in Fractions /\ Whole(n)[1] = n /\ Whole(n)[2] = 1
<1>1. n * 0 + 1 * 1 = 1
  OBVIOUS
<1>2. IsReduced(n, 1)
  BY <1>1 DEF IsReduced
<1> QED BY <1>2, ReducedIsFraction DEF Whole

\* Zero is a fraction.
LEMMA ZeroIsFraction == Zero \in Fractions /\ Zero[1] = 0 /\ Zero[2] = 1
  BY WholeIsFraction DEF Zero

\* A sum in either order is the same ...
LEMMA PlusCommutes ==
  ASSUME NEW p \in Fractions, NEW q \in Fractions
  PROVE  Plus(p, q) = Plus(q, p)
<1>1. /\ p[1] * q[2] + q[1] * p[2] = q[1] * p[2] + p[1] * q[2]
      /\ p[2] * q[2] = q[2] * p[2]
  BY FractionParts
<1> QED BY <1>1 DEF Plus

\* ... zero adds nothing ...
LEMMA PlusZero ==
  ASSUME NEW p \in Fractions
  PROVE  Plus(p, Zero) = p /\ Plus(Zero, p) = p
<1>1. p[1] \in Int /\ p[2] \in Nat \ {0}
  BY FractionParts
<1>2. p[1] * 1 + 0 * p[2] = p[1] /\ p[2] * 1 = p[2]
  BY <1>1
<1>3. Plus(p, Zero) = Frac(p[1], p[2])
  BY <1>2, ZeroIsFraction DEF Plus
<1>4. p = Frac(p[1], p[2])
  BY <1>1, IsFrac
<1> QED BY <1>3, <1>4, PlusCommutes, ZeroIsFraction

\* The sum of three, over the product of the denominators.
LEMMA PlusOfThree ==
  ASSUME NEW p \in Fractions, NEW q \in Fractions, NEW r \in Fractions
  PROVE  Plus(Plus(p, q), r) =
           Frac(p[1] * q[2] * r[2] + q[1] * p[2] * r[2] + r[1] * p[2] * q[2],
                p[2] * q[2] * r[2])
<1> DEFINE s == Plus(p, q)
           t == Plus(s, r)
           a == p[1]
           b == p[2]
           c == q[1]
           d == q[2]
           e == r[1]
           f == r[2]
           m == s[1]
           n == s[2]
           x == t[1]
           y == t[2]
<1>1. s \in Fractions /\ m * (b * d) = (a * d + c * b) * n
  BY PlusIsFraction
<1>2. t \in Fractions /\ x * (n * f) = (m * f + e * n) * y
  BY <1>1, PlusIsFraction
<1>3. /\ a \in Int /\ c \in Int /\ e \in Int /\ m \in Int /\ x \in Int
      /\ b \in Nat \ {0} /\ d \in Nat \ {0} /\ f \in Nat \ {0} /\ n \in Nat \ {0} /\ y \in Nat \ {0}
  BY <1>1, <1>2, FractionParts
<1>4. x * (b * d * f) = (a * d * f + c * b * f + e * b * d) * y
  <2> HIDE DEF a, b, c, d, e, f, m, n, x, y
  <2>1. (x * (b * d * f)) * n = (x * (n * f)) * (b * d)
    BY <1>3
  <2>2. ((m * f + e * n) * y) * (b * d) = (m * (b * d)) * f * y + e * n * y * (b * d)
    BY <1>3
  <2>3. ((a * d + c * b) * n) * f * y + e * n * y * (b * d)
          = ((a * d * f + c * b * f + e * b * d) * y) * n
    BY <1>3
  <2>4. (x * (b * d * f)) * n = ((a * d * f + c * b * f + e * b * d) * y) * n
    BY <1>1, <1>2, <2>1, <2>2, <2>3
  <2>5. x * (b * d * f) \in Int /\ (a * d * f + c * b * f + e * b * d) * y \in Int
    BY <1>3
  <2> QED BY <1>3, <2>4, <2>5, Cancel
<1>5. a * d * f + c * b * f + e * b * d \in Int /\ b * d * f \in Nat \ {0}
  BY <1>3, PositiveProduct
<1> HIDE DEF s
<1> QED BY <1>2, <1>4, <1>5, IsFrac DEF s

\* ... and the grouping does not matter.
LEMMA PlusAssociates ==
  ASSUME NEW p \in Fractions, NEW q \in Fractions, NEW r \in Fractions
  PROVE  Plus(p, Plus(q, r)) = Plus(Plus(p, q), r)
<1>1. Plus(q, r) \in Fractions
  BY PlusIsFraction
<1>2. Plus(p, Plus(q, r)) = Plus(Plus(q, r), p)
  BY <1>1, PlusCommutes
<1> DEFINE a == p[1]
           b == p[2]
           c == q[1]
           d == q[2]
           e == r[1]
           f == r[2]
<1>3. /\ a \in Int /\ c \in Int /\ e \in Int
      /\ b \in Nat \ {0} /\ d \in Nat \ {0} /\ f \in Nat \ {0}
  BY FractionParts
<1>4. /\ a * d * f + c * b * f + e * b * d = c * f * b + e * d * b + a * d * f
      /\ b * d * f = d * f * b
  <2> HIDE DEF a, b, c, d, e, f
  <2> QED BY <1>3
<1>5. Plus(Plus(p, q), r) = Frac(a * d * f + c * b * f + e * b * d, b * d * f)
  BY PlusOfThree
<1>6. Plus(Plus(q, r), p) = Frac(c * f * b + e * d * b + a * d * f, d * f * b)
  BY PlusOfThree
<1> HIDE DEF a, b, c, d, e, f
<1> QED BY <1>2, <1>4, <1>5, <1>6

Picked(s) == CHOOSE x \in s : TRUE

SumStep(f, sum, s) ==
  IF s = {} THEN Zero ELSE Plus(f[Picked(s)], sum[s \ {Picked(s)}])

\* The function MapThenFoldSet defines by recursion over the subsets of S.
TheSum(f, S) ==
  CHOOSE iter : iter = [s \in SUBSET S |->
                          IF s = {} THEN Zero
                          ELSE Plus(f[CHOOSE x \in s : TRUE],
                                    iter[s \ {CHOOSE x \in s : TRUE}])]

IsSum(sum, f, S) == \A s \in SUBSET S : sum[s] = SumStep(f, sum, s)

\* The recursion that defines the sum of a finite set's values has a solution.
LEMMA SumExists ==
  ASSUME NEW S, IsFiniteSet(S), NEW f
  PROVE  IsSum(TheSum(f, S), f, S)
<1> DEFINE Good(g, n) == \A s \in SUBSET S : Cardinality(s) <= n => g[s] = SumStep(f, g, s)
           N == {n \in Nat : \E g : Good(g, n)}
<1>1. \A s \in SUBSET S : IsFiniteSet(s) /\ Cardinality(s) \in Nat
  BY FS_Subset, FS_CardinalityType
<1>2. 0 \in N
  <2>1. Good([s \in SUBSET S |-> Zero], 0)
    BY <1>1, FS_EmptySet DEF SumStep
  <2> HIDE DEF Good
  <2> QED BY <2>1
<1>3. ASSUME NEW n \in Nat, n \in N PROVE n + 1 \in N
  <2>1. PICK g : Good(g, n)
    BY <1>3
  <2> DEFINE h == [s \in SUBSET S |-> SumStep(f, g, s)]
  <2>2. ASSUME NEW s \in SUBSET S, Cardinality(s) <= n + 1
        PROVE  h[s] = SumStep(f, h, s)
    <3>1. CASE s = {}
      BY <3>1 DEF SumStep
    <3>2. CASE s # {}
      <4> DEFINE x == Picked(s)
                 t == s \ {x}
      <4>1. x \in s
        BY <3>2 DEF Picked
      <4>2. Cardinality(t) = Cardinality(s) - 1 /\ t \in SUBSET S
        BY <4>1, <1>1, FS_RemoveElement
      <4>3. Cardinality(t) <= n
        BY <4>2, <1>1, <2>2
      <4>4. h[t] = SumStep(f, g, t) /\ g[t] = SumStep(f, g, t)
        BY <2>1, <4>2, <4>3
      <4>5. SumStep(f, g, s) = Plus(f[x], g[t]) /\ SumStep(f, h, s) = Plus(f[x], h[t])
        BY <3>2 DEF SumStep
      <4> QED BY <4>4, <4>5
    <3> QED BY <3>1, <3>2
  <2>3. Good(h, n + 1)
    BY <2>2
  <2> HIDE DEF Good, h
  <2> QED BY <2>3
<1> HIDE DEF N
<1>4. Cardinality(S) \in N
  BY <1>2, <1>3, NatBySets, FS_CardinalityType
<1>5. PICK g : Good(g, Cardinality(S))
  BY <1>4 DEF N
<1>6. ASSUME NEW s \in SUBSET S PROVE g[s] = SumStep(f, g, s)
  <2>1. Cardinality(s) <= Cardinality(S)
    BY FS_Subset
  <2> QED BY <1>5, <2>1
<1> DEFINE h == [s \in SUBSET S |-> g[s]]
<1>7. ASSUME NEW s \in SUBSET S PROVE SumStep(f, h, s) = SumStep(f, g, s)
  BY DEF SumStep
<1>8. h = [s \in SUBSET S |-> SumStep(f, h, s)]
  BY <1>6, <1>7
<1> HIDE DEF h
<1>9. \E iter : iter = [s \in SUBSET S |->
                          IF s = {} THEN Zero
                          ELSE Plus(f[CHOOSE x \in s : TRUE],
                                    iter[s \ {CHOOSE x \in s : TRUE}])]
  BY <1>8 DEF SumStep, Picked
<1> DEFINE sum == TheSum(f, S)
<1>10. sum = [s \in SUBSET S |->
                IF s = {} THEN Zero
                ELSE Plus(f[CHOOSE x \in s : TRUE],
                          sum[s \ {CHOOSE x \in s : TRUE}])]
  BY <1>9 DEF TheSum
<1> HIDE DEF sum
<1>11. IsSum(sum, f, S)
  BY <1>10 DEF IsSum, SumStep, Picked
<1> QED BY <1>11 DEF sum

\* Total is that sum over the whole domain.
LEMMA TotalIsSum ==
  ASSUME NEW S, IsFiniteSet(S), NEW f, DOMAIN f = S
  PROVE  IsSum(TheSum(f, S), f, S) /\ Total(f) = TheSum(f, S)[S]
<1>1. Total(f) = TheSum(f, DOMAIN f)[DOMAIN f]
  BY DEF Total, FoldFunction, FoldFunctionOnSet, MapThenFoldSet, TheSum
<1> QED BY <1>1, SumExists

\* A set without one of its elements has one element less.
LEMMA OneLess ==
  ASSUME NEW s, IsFiniteSet(s), NEW n \in Nat, Cardinality(s) = n + 1, NEW x \in s
  PROVE  IsFiniteSet(s \ {x}) /\ Cardinality(s \ {x}) = n
<1>1. IsFiniteSet(s \ {x}) /\ Cardinality(s \ {x}) = Cardinality(s) - 1
  BY FS_RemoveElement
<1> QED BY <1>1

\* Sums of equal values are equal.
LEMMA SumsAgree ==
  ASSUME NEW S, IsFiniteSet(S), NEW f, NEW g, NEW sum, NEW other,
         \A x \in S : f[x] = g[x], IsSum(sum, f, S), IsSum(other, g, S)
  PROVE  sum[S] = other[S]
<1> DEFINE N == {n \in Nat : \A s \in SUBSET S : Cardinality(s) = n => sum[s] = other[s]}
<1>1. \A s \in SUBSET S : IsFiniteSet(s) /\ Cardinality(s) \in Nat
  BY FS_Subset, FS_CardinalityType
<1>2. 0 \in N
  <2>1. sum[{}] = Zero /\ other[{}] = Zero
    BY DEF IsSum, SumStep
  <2> QED BY <1>1, <2>1, FS_EmptySet
<1>3. ASSUME NEW n \in Nat, n \in N PROVE n + 1 \in N
  <2>1. SUFFICES ASSUME NEW s \in SUBSET S, Cardinality(s) = n + 1
                 PROVE  sum[s] = other[s]
    OBVIOUS
  <2>2. s # {}
    BY <2>1, FS_EmptySet
  <2> DEFINE x == Picked(s)
             t == s \ {x}
  <2>3. x \in s
    BY <2>2 DEF Picked
  <2>4. Cardinality(t) = n /\ t \in SUBSET S
    BY <2>1, <2>3, <1>1, OneLess
  <2>5. sum[t] = other[t]
    BY <1>3, <2>4
  <2>6. sum[s] = Plus(f[x], sum[t]) /\ other[s] = Plus(g[x], other[t])
    BY <2>2 DEF IsSum, SumStep
  <2> QED BY <2>3, <2>5, <2>6
<1> HIDE DEF N
<1>4. Cardinality(S) \in N
  BY <1>2, <1>3, NatBySets, FS_CardinalityType
<1> QED BY <1>4 DEF N

\* A sum of fractions is a fraction.
LEMMA SumIsFraction ==
  ASSUME NEW S, IsFiniteSet(S), NEW f, \A x \in S : f[x] \in Fractions,
         NEW sum, IsSum(sum, f, S), NEW r \in SUBSET S
  PROVE  sum[r] \in Fractions
<1> DEFINE N == {n \in Nat : \A s \in SUBSET S : Cardinality(s) = n => sum[s] \in Fractions}
<1>1. \A s \in SUBSET S : IsFiniteSet(s) /\ Cardinality(s) \in Nat
  BY FS_Subset, FS_CardinalityType
<1>2. 0 \in N
  <2>1. sum[{}] = Zero
    BY DEF IsSum, SumStep
  <2> QED BY <1>1, <2>1, FS_EmptySet, ZeroIsFraction
<1>3. ASSUME NEW n \in Nat, n \in N PROVE n + 1 \in N
  <2>1. SUFFICES ASSUME NEW s \in SUBSET S, Cardinality(s) = n + 1
                 PROVE  sum[s] \in Fractions
    OBVIOUS
  <2>2. s # {}
    BY <2>1, FS_EmptySet
  <2> DEFINE x == Picked(s)
             t == s \ {x}
  <2>3. x \in s
    BY <2>2 DEF Picked
  <2>4. Cardinality(t) = n /\ t \in SUBSET S
    BY <2>1, <2>3, <1>1, OneLess
  <2>5. sum[t] \in Fractions /\ f[x] \in Fractions
    BY <1>3, <2>3, <2>4
  <2>6. sum[s] = Plus(f[x], sum[t])
    BY <2>2 DEF IsSum, SumStep
  <2> QED BY <2>5, <2>6, PlusIsFraction
<1> HIDE DEF N
<1>4. Cardinality(r) \in N
  BY <1>1, <1>2, <1>3, NatBySets
<1> QED BY <1>4 DEF N

\* The order of a sum does not matter: any element may come first.
LEMMA SumTakesAny ==
  ASSUME NEW S, IsFiniteSet(S), NEW f, \A x \in S : f[x] \in Fractions,
         NEW sum, IsSum(sum, f, S), NEW x \in S
  PROVE  sum[S] = Plus(f[x], sum[S \ {x}])
<1> DEFINE N == {n \in Nat : \A s \in SUBSET S : Cardinality(s) = n =>
                               \A y \in s : sum[s] = Plus(f[y], sum[s \ {y}])}
<1>1. \A s \in SUBSET S : IsFiniteSet(s) /\ Cardinality(s) \in Nat
  BY FS_Subset, FS_CardinalityType
<1>2. 0 \in N
  BY <1>1, FS_EmptySet
<1>3. ASSUME NEW n \in Nat, n \in N PROVE n + 1 \in N
  <2>1. SUFFICES ASSUME NEW s \in SUBSET S, Cardinality(s) = n + 1, NEW y \in s
                 PROVE  sum[s] = Plus(f[y], sum[s \ {y}])
    OBVIOUS
  <2> DEFINE p == Picked(s)
             t == s \ {p}
             u == s \ {y}
             v == (s \ {p}) \ {y}
  <2>2. p \in s /\ sum[s] = Plus(f[p], sum[t])
    BY <2>1 DEF IsSum, SumStep, Picked
  <2>3. CASE y = p
    BY <2>2, <2>3
  <2>4. CASE y # p
    <3> HIDE DEF p
    <3>1. /\ t \in SUBSET S /\ Cardinality(t) = n /\ y \in t
          /\ u \in SUBSET S /\ Cardinality(u) = n /\ p \in u
      <4>1. Cardinality(t) = n
        BY <2>1, <2>2, <1>1, OneLess
      <4>2. Cardinality(u) = n
        BY <2>1, <1>1, OneLess
      <4> QED BY <2>1, <2>2, <2>4, <4>1, <4>2
    <3>2. v = t \ {y} /\ v = u \ {p} /\ v \in SUBSET S
      OBVIOUS
    <3>3. sum[t] = Plus(f[y], sum[v])
      BY <1>3, <3>1, <3>2
    <3>4. sum[u] = Plus(f[p], sum[v])
      BY <1>3, <3>1, <3>2
    <3>5. f[y] \in Fractions /\ f[p] \in Fractions /\ sum[v] \in Fractions
      BY <2>1, <2>2, <3>2, SumIsFraction
    <3> DEFINE a == f[p]
               b == f[y]
               c == sum[v]
    <3>6. Plus(a, Plus(b, c)) = Plus(b, Plus(a, c))
      <4> HIDE DEF a, b, c
      <4>1. a \in Fractions /\ b \in Fractions /\ c \in Fractions
        BY <3>5 DEF a, b, c
      <4>2. Plus(a, Plus(b, c)) = Plus(Plus(a, b), c)
        BY <4>1, PlusAssociates
      <4>3. Plus(b, Plus(a, c)) = Plus(Plus(b, a), c)
        BY <4>1, PlusAssociates
      <4>4. Plus(a, b) = Plus(b, a)
        BY <4>1, PlusCommutes
      <4> QED BY <4>2, <4>3, <4>4
    <3> QED BY <2>2, <3>3, <3>4, <3>6
  <2> QED BY <2>3, <2>4
<1> HIDE DEF N
<1>4. Cardinality(S) \in N
  BY <1>2, <1>3, NatBySets, FS_CardinalityType
<1> QED BY <1>4 DEF N

\* A total of fractions is a fraction.
LEMMA TotalIsFraction ==
  ASSUME NEW S, IsFiniteSet(S), NEW f, DOMAIN f = S, \A x \in S : f[x] \in Fractions
  PROVE  Total(f) \in Fractions
BY TotalIsSum, SumIsFraction

\* The total of nothing is zero.
LEMMA TotalOfNone ==
  ASSUME NEW f, DOMAIN f = {}
  PROVE  Total(f) = Zero
<1>1. IsSum(TheSum(f, {}), f, {}) /\ Total(f) = TheSum(f, {})[{}]
  BY TotalIsSum, FS_EmptySet
<1> QED BY <1>1 DEF IsSum, SumStep

Without(f, S, x) == [y \in S \ {x} |-> f[y]]

\* Any value may be taken out of a total first.
LEMMA TotalTakesAny ==
  ASSUME NEW S, IsFiniteSet(S), NEW f, DOMAIN f = S, \A x \in S : f[x] \in Fractions,
         NEW x \in S
  PROVE  Total(f) = Plus(f[x], Total(Without(f, S, x)))
<1> DEFINE T == S \ {x}
           g == Without(f, S, x)
           sum == TheSum(f, S)
           other == TheSum(g, T)
<1>1. IsSum(sum, f, S) /\ Total(f) = sum[S]
  BY TotalIsSum
<1>2. IsFiniteSet(T) /\ DOMAIN g = T /\ \A y \in T : f[y] = g[y]
  BY FS_RemoveElement DEF Without
<1> HIDE DEF g
<1>3. IsSum(other, g, T) /\ Total(g) = other[T]
  BY <1>2, TotalIsSum
<1> HIDE DEF sum, other
<1>4. IsSum(sum, f, T)
  BY <1>1 DEF IsSum
<1>5. sum[T] = other[T]
  BY <1>2, <1>3, <1>4, SumsAgree
<1>6. sum[S] = Plus(f[x], sum[T])
  BY <1>1, SumTakesAny
<1> QED BY <1>1, <1>3, <1>5, <1>6 DEF g

\* Zeros add up to zero.
LEMMA TotalOfZeros ==
  ASSUME NEW S, IsFiniteSet(S), NEW f, DOMAIN f = S, \A x \in S : f[x] = Zero
  PROVE  Total(f) = Zero
<1> DEFINE N == {n \in Nat : \A T, g : /\ IsFiniteSet(T) /\ Cardinality(T) = n
                                       /\ DOMAIN g = T /\ \A x \in T : g[x] = Zero
                                       => Total(g) = Zero}
<1>1. 0 \in N
  <2>1. SUFFICES ASSUME NEW T, NEW g, IsFiniteSet(T), Cardinality(T) = 0, DOMAIN g = T
                 PROVE  Total(g) = Zero
    OBVIOUS
  <2>2. T = {}
    BY <2>1, FS_EmptySet
  <2> QED BY <2>1, <2>2, TotalOfNone
<1>2. ASSUME NEW n \in Nat, n \in N PROVE n + 1 \in N
  <2>1. SUFFICES ASSUME NEW T, NEW g, IsFiniteSet(T), Cardinality(T) = n + 1,
                        DOMAIN g = T, \A x \in T : g[x] = Zero
                 PROVE  Total(g) = Zero
    OBVIOUS
  <2>2. PICK x \in T : TRUE
    BY <2>1, FS_EmptySet
  <2> DEFINE U == T \ {x}
             h == Without(g, T, x)
  <2>3. IsFiniteSet(U) /\ Cardinality(U) = n /\ DOMAIN h = U /\ \A y \in U : h[y] = Zero
    BY <2>1, <2>2, OneLess DEF Without
  <2>4. Total(g) = Plus(g[x], Total(h))
    BY <2>1, ZeroIsFraction, TotalTakesAny
  <2> HIDE DEF h
  <2>5. Total(h) = Zero
    BY <1>2, <2>3
  <2> QED BY <2>1, <2>4, <2>5, PlusZero, ZeroIsFraction
<1> HIDE DEF N
<1>3. Cardinality(S) \in N
  BY <1>1, <1>2, NatBySets, FS_CardinalityType
<1> QED BY <1>3 DEF N

\* h finds every value of f that is not zero in g, once.
Matches(S, f, T, g, h) ==
  /\ IsFiniteSet(S) /\ DOMAIN f = S /\ \A x \in S : f[x] \in Fractions
  /\ IsFiniteSet(T) /\ DOMAIN g = T /\ h \in [T -> S]
  /\ \A t \in T : g[t] = f[h[t]]
  /\ \A t, u \in T : h[t] = h[u] => t = u
  /\ \A x \in S : (\A t \in T : h[t] # x) => f[x] = Zero

\* Two functions with the same values, up to zeros, have the same total: a list
\* and the set of its elements for two.
LEMMA TotalsMatch ==
  ASSUME NEW S, NEW f, NEW T, NEW g, NEW h, Matches(S, f, T, g, h)
  PROVE  Total(f) = Total(g)
<1> DEFINE N == {n \in Nat : \A A, a, B, b, k :
                               Matches(A, a, B, b, k) /\ Cardinality(B) = n =>
                                 Total(a) = Total(b)}
<1>1. 0 \in N
  <2>1. SUFFICES ASSUME NEW A, NEW a, NEW B, NEW b, NEW k,
                        Matches(A, a, B, b, k), Cardinality(B) = 0
                 PROVE  Total(a) = Total(b)
    OBVIOUS
  <2>2. B = {}
    BY <2>1, FS_EmptySet DEF Matches
  <2>3. \A x \in A : a[x] = Zero
    BY <2>1, <2>2 DEF Matches
  <2>4. Total(a) = Zero
    BY <2>1, <2>3, TotalOfZeros DEF Matches
  <2> QED BY <2>1, <2>2, <2>4, TotalOfNone DEF Matches
<1>2. ASSUME NEW n \in Nat, n \in N PROVE n + 1 \in N
  <2>1. SUFFICES ASSUME NEW A, NEW a, NEW B, NEW b, NEW k,
                        Matches(A, a, B, b, k), Cardinality(B) = n + 1
                 PROVE  Total(a) = Total(b)
    OBVIOUS
  <2>2. PICK t \in B : TRUE
    BY <2>1, FS_EmptySet
  <2> DEFINE x == k[t]
             A1 == A \ {x}
             a1 == Without(a, A, x)
             B1 == B \ {t}
             b1 == Without(b, B, t)
             k1 == [y \in B1 |-> k[y]]
  <2>3. x \in A /\ b[t] = a[x]
    BY <2>1, <2>2 DEF Matches
  <2>4. Cardinality(B1) = n /\ IsFiniteSet(B1) /\ IsFiniteSet(A1)
    BY <2>1, <2>2, OneLess, FS_RemoveElement DEF Matches
  <2>5. Matches(A1, a1, B1, b1, k1)
    <3>1. \A y \in B1 : k[y] \in A1 /\ b[y] = a[k[y]]
      BY <2>1, <2>2 DEF Matches
    <3>2. k1 \in [B1 -> A1]
      BY <3>1
    <3>3. \A y, z \in B1 : k1[y] = k1[z] => y = z
      BY <2>1 DEF Matches
    <3>4. \A y \in A1 : (\A z \in B1 : k1[z] # y) => a1[y] = Zero
      BY <2>1, <2>3 DEF Matches, Without
    <3>5. \A y \in A1 : a1[y] \in Fractions
      BY <2>1 DEF Matches, Without
    <3>6. \A y \in B1 : b1[y] = a1[k1[y]]
      BY <3>1 DEF Without
    <3> QED BY <2>4, <3>2, <3>3, <3>4, <3>5, <3>6 DEF Matches, Without
  <2>6. Total(a1) = Total(b1)
    <3> HIDE DEF a1, b1, k1, A1, B1
    <3> QED BY <1>2, <2>4, <2>5
  <2>7. Total(a) = Plus(a[x], Total(a1))
    BY <2>1, <2>3, TotalTakesAny DEF Matches
  <2>8. \A y \in B : b[y] \in Fractions
    BY <2>1 DEF Matches
  <2>9. Total(b) = Plus(b[t], Total(b1))
    BY <2>1, <2>8, TotalTakesAny DEF Matches
  <2> QED BY <2>3, <2>6, <2>7, <2>9
<1> HIDE DEF N
<1>3. Cardinality(T) \in N
  BY <1>1, <1>2, NatBySets, FS_CardinalityType DEF Matches
<1> QED BY <1>3 DEF N

\* The total of one value is the value.
LEMMA TotalOfOne ==
  ASSUME NEW x, NEW f, DOMAIN f = {x}, f[x] \in Fractions
  PROVE  Total(f) = f[x]
<1>1. IsFiniteSet({x})
  BY FS_Singleton
<1>2. Total(f) = Plus(f[x], Total(Without(f, {x}, x)))
  BY <1>1, TotalTakesAny
<1>3. Total(Without(f, {x}, x)) = Zero
  <2>1. DOMAIN Without(f, {x}, x) = {}
    BY DEF Without
  <2> QED BY <2>1, TotalOfNone
<1> QED BY <1>2, <1>3, PlusZero, ZeroIsFraction

Above(p) == p \in Fractions /\ p[1] > 0

\* Above zero: a sum ...
LEMMA PlusIsAbove ==
  ASSUME NEW p, Above(p), NEW q \in Fractions, q[1] >= 0
  PROVE  Above(Plus(p, q))
<1> DEFINE s == Plus(p, q)
           a == p[1]
           b == p[2]
           c == q[1]
           d == q[2]
<1>1. /\ a \in Int /\ a > 0 /\ b \in Nat \ {0}
      /\ c \in Int /\ c >= 0 /\ d \in Nat \ {0}
  BY FractionParts DEF Above
<1>2. s \in Fractions /\ s[1] * (b * d) = (a * d + c * b) * s[2]
  BY PlusIsFraction DEF Above
<1>3. s[1] \in Int /\ s[2] \in Nat \ {0}
  BY <1>2, FractionParts
<1> HIDE DEF s, a, b, c, d
<1>4. a * d > 0 /\ c * b >= 0 /\ b * d > 0
  BY <1>1
<1>5. (a * d + c * b) * s[2] > 0
  <2> DEFINE e == a * d + c * b
  <2>1. e \in Int /\ e > 0
    BY <1>1, <1>4
  <2> HIDE DEF e
  <2>2. e * s[2] > 0
    BY <1>3, <2>1
  <2> QED BY <2>2 DEF e
<1>6. s[1] > 0
  <2> DEFINE e == b * d
  <2>1. e \in Int /\ e > 0 /\ s[1] * e > 0
    BY <1>1, <1>2, <1>4, <1>5
  <2> HIDE DEF e
  <2> QED BY <1>3, <2>1
<1> QED BY <1>2, <1>6 DEF Above, s

\* ... a product ...
LEMMA TimesIsAbove ==
  ASSUME NEW p, Above(p), NEW q, Above(q)
  PROVE  Above(Times(p, q))
<1> DEFINE s == Times(p, q)
<1>1. s \in Fractions /\ s[1] * (p[2] * q[2]) = (p[1] * q[1]) * s[2]
  BY TimesIsFraction DEF Above
<1>2. /\ p[1] \in Nat \ {0} /\ q[1] \in Nat \ {0}
      /\ p[2] \in Nat \ {0} /\ q[2] \in Nat \ {0}
  BY FractionParts DEF Above
<1>3. s[1] \in Int /\ s[2] \in Nat \ {0}
  BY <1>1, FractionParts
<1>4. p[2] * q[2] \in Nat \ {0} /\ p[1] * q[1] \in Nat \ {0}
  BY <1>2, PositiveProduct
<1>5. s[1] > 0
  <2> DEFINE d == p[2] * q[2]
             n == p[1] * q[1]
  <2> HIDE DEF d, n, s
  <2>1. s[1] * d = n * s[2] /\ d \in Nat \ {0} /\ n \in Nat \ {0}
    BY <1>1, <1>4 DEF d, n
  <2>2. n * s[2] > 0
    BY <1>3, <2>1
  <2> QED BY <1>3, <2>1, <2>2
<1> QED BY <1>1, <1>5 DEF Above

\* ... a fraction ...
LEMMA FracIsAbove ==
  ASSUME NEW n \in Nat \ {0}, NEW d \in Nat \ {0}
  PROVE  Above(Frac(n, d))
<1> DEFINE s == Frac(n, d)
<1>1. s \in Fractions /\ s[1] * d = n * s[2]
  BY FracIsFraction
<1>2. s[1] \in Int /\ s[2] \in Nat \ {0}
  BY <1>1, FractionParts
<1> HIDE DEF s
<1>3. n * s[2] > 0
  BY <1>2
<1>4. s[1] > 0
  BY <1>1, <1>2, <1>3
<1> QED BY <1>1, <1>4 DEF Above, s

\* ... and a total of what is above zero.
LEMMA TotalIsAbove ==
  ASSUME NEW S, IsFiniteSet(S), NEW f, DOMAIN f = S, \A x \in S : Above(f[x])
  PROVE  S # {} => Above(Total(f))
<1> DEFINE N == {n \in Nat : \A T, g : /\ IsFiniteSet(T) /\ Cardinality(T) = n
                                       /\ DOMAIN g = T /\ \A x \in T : Above(g[x])
                                       => T = {} \/ Above(Total(g))}
<1>1. 0 \in N
  BY FS_EmptySet
<1>2. ASSUME NEW n \in Nat, n \in N PROVE n + 1 \in N
  <2>1. SUFFICES ASSUME NEW T, NEW g, IsFiniteSet(T), Cardinality(T) = n + 1,
                        DOMAIN g = T, \A x \in T : Above(g[x])
                 PROVE  Above(Total(g))
    OBVIOUS
  <2>2. PICK x \in T : TRUE
    BY <2>1, FS_EmptySet
  <2> DEFINE U == T \ {x}
             h == Without(g, T, x)
  <2>3. IsFiniteSet(U) /\ Cardinality(U) = n /\ DOMAIN h = U /\ \A y \in U : Above(h[y])
    BY <2>1, <2>2, OneLess DEF Without
  <2>4. Total(g) = Plus(g[x], Total(h))
    BY <2>1, TotalTakesAny DEF Above
  <2> HIDE DEF h
  <2>5. U = {} \/ Above(Total(h))
    BY <1>2, <2>3
  <2>6. Total(h) \in Fractions /\ Total(h)[1] >= 0
    <3>1. CASE U = {}
      <4>1. Total(h) = Zero
        BY <2>3, <3>1, TotalOfNone
      <4> QED BY <4>1, ZeroIsFraction
    <3>2. CASE Above(Total(h))
      <4>1. Total(h)[1] \in Int
        BY <3>2, FractionParts DEF Above
      <4> QED BY <3>2, <4>1 DEF Above
    <3> QED BY <2>5, <3>1, <3>2
  <2>7. Above(g[x])
    BY <2>1, <2>2
  <2> QED BY <2>4, <2>6, <2>7, PlusIsAbove
<1> HIDE DEF N
<1>3. Cardinality(S) \in N
  BY <1>1, <1>2, NatBySets, FS_CardinalityType
<1> QED BY <1>3 DEF N

\* A quotient times a part of its divisor is that part of the dividend.
LEMMA TimesOfOver ==
  ASSUME NEW p \in Fractions, NEW q \in Fractions, q[1] # 0, NEW r \in Fractions
  PROVE  Times(Over(p, q), Times(q, r)) = Times(p, r)
<1> DEFINE o == Over(p, q)
           t == Times(q, r)
           x == Times(o, t)
<1>1. o \in Fractions /\ o[1] * (p[2] * q[1]) = (p[1] * q[2]) * o[2]
  BY OverIsFraction
<1>2. t \in Fractions /\ t[1] * (q[2] * r[2]) = (q[1] * r[1]) * t[2]
  BY TimesIsFraction
<1> DEFINE a == p[1]  b == p[2]  c == q[1]  d == q[2]  e == r[1]  f == r[2]
           m == o[1]  n == o[2]  u == t[1]  v == t[2]
<1>3. /\ a \in Int /\ c \in Int /\ c # 0 /\ e \in Int /\ m \in Int /\ u \in Int
      /\ b \in Nat \ {0} /\ d \in Nat \ {0} /\ f \in Nat \ {0}
      /\ n \in Nat \ {0} /\ v \in Nat \ {0}
  BY <1>1, <1>2, FractionParts
<1>4. m * (b * c) = (a * d) * n /\ u * (d * f) = (c * e) * v
  BY <1>1, <1>2
<1>5. x = Frac(m * u, n * v) /\ Times(p, r) = Frac(a * e, b * f)
  BY DEF Times
<1> HIDE DEF o, t, x, a, b, c, d, e, f, m, n, u, v
<1>6. (m * u) * (b * f) = (a * e) * (n * v)
  <2> DEFINE k == c * d
             l == (m * u) * (b * f)
             w == (a * e) * (n * v)
  <2>1. (m * (b * c)) * (u * (d * f)) = ((a * d) * n) * ((c * e) * v)
    BY <1>4
  <2>2. (m * (b * c)) * (u * (d * f)) = l * k
    <3>1. m * (b * c) = (m * b) * c /\ u * (d * f) = (u * f) * d
      BY <1>3
    <3>2. ((m * b) * c) * ((u * f) * d) = ((m * b) * (u * f)) * (c * d)
      BY <1>3
    <3>3. (m * b) * (u * f) = (m * u) * (b * f)
      BY <1>3
    <3> QED BY <3>1, <3>2, <3>3
  <2>3. ((a * d) * n) * ((c * e) * v) = w * k
    <3>1. (a * d) * n = (a * n) * d /\ (c * e) * v = (e * v) * c
      BY <1>3
    <3>2. ((a * n) * d) * ((e * v) * c) = ((a * n) * (e * v)) * (c * d)
      BY <1>3
    <3>3. (a * n) * (e * v) = (a * e) * (n * v)
      BY <1>3
    <3> QED BY <3>1, <3>2, <3>3
  <2>4. k \in Int /\ k # 0 /\ l \in Int /\ w \in Int
    BY <1>3
  <2> HIDE DEF k, l, w
  <2>5. l = w
    BY <2>1, <2>2, <2>3, <2>4, Cancel
  <2> QED BY <2>5 DEF l, w
<1>7. m * u \in Int /\ n * v \in Int /\ n * v # 0
  BY <1>3
<1>8. a * e \in Int /\ b * f \in Int /\ b * f # 0
  BY <1>3
<1> QED BY <1>5, <1>6, <1>7, <1>8, FracsEqual DEF x, o, t

\* A rounded value is within half a unit of the last place.
LEMMA RoundedIsNear ==
  ASSUME NEW p \in Fractions, NEW s \in Nat \ {0}
  PROVE  /\ Rounded(p, s) \in Fractions
         /\ Leq(AbsOf(Minus(Rounded(p, s), p)), Frac(1, 2 * s))
<1> DEFINE a == p[1]
           b == p[2]
           up == Nearest(<<Abs(a) * s, b>>)
           v == IF a < 0 THEN -up ELSE up
           r == Rounded(p, s)
           d == Minus(r, p)
           h == Frac(1, 2 * s)
<1>1. a \in Int /\ b \in Nat \ {0} /\ Abs(a) \in Nat
  BY FractionParts DEF Abs
<1>2. up = (2 * (Abs(a) * s) + b) \div (2 * b)
  BY DEF Nearest
<1> HIDE DEF up
<1>3. up \in Nat /\ 2 * (b * up) - 2 * (Abs(a) * s) <= b
      /\ 2 * (Abs(a) * s) - 2 * (b * up) <= b
  <2> DEFINE k == 2 * (Abs(a) * s) + b
             c == 2 * b
  <2>1. k \in Nat /\ c \in Nat \ {0} /\ Abs(a) * s \in Nat
    BY <1>1
  <2>2. up = k \div c
    BY <1>2
  <2> HIDE DEF k, c
  <2>3. up \in Nat /\ k % c \in 0 .. c - 1 /\ k = c * up + (k % c)
    BY <2>1, <2>2, DivMod
  <2>4. c * up <= k /\ k < c * up + c
    BY <2>1, <2>3
  <2>5. c * up = 2 * (b * up)
    BY <1>1, <2>3 DEF c
  <2> QED BY <1>1, <2>1, <2>3, <2>4, <2>5 DEF k, c
<1>4. v \in Int /\ 2 * (b * v) - 2 * (a * s) <= b /\ 2 * (a * s) - 2 * (b * v) <= b
  <2>1. CASE a < 0
    <3>1. v = -up /\ Abs(a) = -a
      BY <2>1 DEF Abs
    <3> HIDE DEF v
    <3>2. b * v = -(b * up) /\ Abs(a) * s = -(a * s)
      BY <1>1, <1>3, <3>1
    <3> QED BY <1>1, <1>3, <3>1, <3>2
  <2>2. CASE ~(a < 0)
    <3>1. v = up /\ Abs(a) = a
      BY <2>2 DEF Abs
    <3> QED BY <1>1, <1>3, <3>1
  <2> QED BY <2>1, <2>2
<1>5. r = Frac(v, s)
  BY DEF Rounded, up
<1> HIDE DEF v
<1>6. r \in Fractions /\ r[1] * s = v * r[2]
  BY <1>4, <1>5, FracIsFraction
<1> HIDE DEF r
<1>7. d \in Fractions /\ d[1] * (r[2] * b) = (r[1] * b - a * r[2]) * d[2]
  BY <1>6, MinusIsFraction
<1>8. /\ r[1] \in Int /\ r[2] \in Nat \ {0} /\ d[1] \in Int /\ d[2] \in Nat \ {0}
  BY <1>6, <1>7, FractionParts
<1> HIDE DEF d, a, b
<1> DEFINE z == 2 * (b * v) - 2 * (a * s)
           y == 2 * (s * d[1])
<1>9. y * b = z * d[2]
  <2> DEFINE q == r[1]
             w == r[2]
             e == d[1]
             f == d[2]
  <2>1. q \in Int /\ w \in Int /\ w # 0 /\ e \in Int /\ f \in Int
    BY <1>8
  <2>2. q * s = v * w /\ e * (w * b) = (q * b - a * w) * f
    BY <1>6, <1>7
  <2>3. z \in Int /\ y = 2 * (s * e)
    BY <1>1, <1>4
  <2> HIDE DEF q, w, e, f, y
  <2>4. (s * e) * (w * b) = ((q * s) * b - (a * s) * w) * f
    <3>1. (s * e) * (w * b) = s * (e * (w * b))
      BY <1>1, <2>1
    <3>2. s * ((q * b - a * w) * f) = (s * (q * b - a * w)) * f
      BY <1>1, <2>1
    <3>3. s * (q * b - a * w) = (q * s) * b - (a * s) * w
      BY <1>1, <2>1
    <3> QED BY <2>2, <3>1, <3>2, <3>3
  <2>5. (v * w) * b - (a * s) * w = (b * v - a * s) * w
    BY <1>1, <1>4, <2>1
  <2>6. (s * e) * (w * b) = ((b * v - a * s) * w) * f
    BY <2>2, <2>4, <2>5
  <2>7. (y * b) * w = (z * f) * w
    <3> DEFINE g == b * v - a * s
    <3>1. g \in Int /\ z = 2 * g
      BY <1>1, <1>4
    <3>2. (s * e) * (w * b) = (g * w) * f
      BY <2>6
    <3> HIDE DEF g, z
    <3>3. (y * b) * w = 2 * ((s * e) * (w * b))
      BY <1>1, <2>1, <2>3
    <3>4. (z * f) * w = 2 * ((g * w) * f)
      BY <2>1, <3>1
    <3> QED BY <3>2, <3>3, <3>4
  <2>8. y * b \in Int /\ z * f \in Int
    BY <1>1, <2>1, <2>3
  <2> HIDE DEF z
  <2>9. y * b = z * f
    BY <2>1, <2>7, <2>8, Cancel
  <2> QED BY <2>9 DEF f
<1>10. y \in Int /\ z \in Int /\ z <= b /\ -z <= b
  BY <1>1, <1>4, <1>8
<1>11. 2 * (s * Abs(d[1])) <= d[2]
  <2> DEFINE f == d[2]
  <2> HIDE DEF y, z, f
  <2>1. f \in Nat \ {0} /\ y * b = z * f
    BY <1>8, <1>9 DEF f
  <2>2. z * f <= b * f /\ (-z) * f <= b * f
    <3>1. (b - z) * f >= 0 /\ (b + z) * f >= 0
      BY <1>1, <1>10, <2>1
    <3> QED BY <1>1, <1>10, <2>1, <3>1
  <2>3. y * b <= f * b /\ (-y) * b <= f * b
    BY <1>1, <1>10, <2>1, <2>2
  <2>4. y <= f /\ -y <= f
    <3>1. (f - y) * b >= 0 /\ (f + y) * b >= 0
      BY <1>1, <1>10, <2>1, <2>3
    <3> QED BY <1>1, <1>10, <2>1, <3>1
  <2>5. 2 * (s * Abs(d[1])) = y \/ 2 * (s * Abs(d[1])) = -y
    BY <1>8 DEF Abs, y
  <2> QED BY <1>10, <2>1, <2>4, <2>5 DEF f
<1>12. h \in Fractions /\ h[1] * (2 * s) = h[2] /\ h[1] \in Int /\ h[2] \in Nat \ {0}
  <2>1. 2 * s \in Int /\ 2 * s # 0 /\ 1 \in Int
    OBVIOUS
  <2>2. h \in Fractions /\ h[1] * (2 * s) = 1 * h[2]
    BY <2>1, FracIsFraction
  <2> HIDE DEF h
  <2> QED BY <2>2, FractionParts
<1> HIDE DEF h
<1>13. h[1] > 0
  BY <1>12
<1>14. Abs(d[1]) * h[2] <= h[1] * d[2]
  <2> DEFINE t == Abs(d[1])
             i == h[1]
             f == d[2]
  <2>1. t \in Int /\ i \in Int /\ i > 0 /\ f \in Int /\ 2 * (s * t) <= f
    BY <1>8, <1>11, <1>12, <1>13 DEF Abs
  <2>2. h[2] = i * (2 * s)
    BY <1>12
  <2> HIDE DEF t, i, f
  <2>3. t * (i * (2 * s)) = i * (2 * (s * t))
    BY <2>1
  <2> DEFINE g == 2 * (s * t)
  <2>4. g \in Int /\ g <= f
    BY <2>1
  <2> HIDE DEF g
  <2>5. i * g <= i * f
    BY <2>1, <2>4
  <2> QED BY <2>2, <2>3, <2>5 DEF t, i, f, g
<1>15. AbsOf(d) = <<Abs(d[1]), d[2]>>
  BY DEF AbsOf
<1>16. Leq(AbsOf(d), h)
  BY <1>14, <1>15 DEF Leq
<1> QED BY <1>6, <1>16 DEF d, r, h

\* A multiple of 1 / s.
OnGrid(p, s) == p \in Fractions /\ \E k \in Int : p[1] * s = k * p[2]

\* Multiples: zero ...
LEMMA ZeroOnGrid ==
  ASSUME NEW s \in Nat \ {0}
  PROVE  OnGrid(Zero, s)
<1>1. Zero[1] * s = 0 * Zero[2]
  BY ZeroIsFraction
<1> QED BY <1>1, ZeroIsFraction DEF OnGrid

\* ... a sum ...
LEMMA PlusOnGrid ==
  ASSUME NEW s \in Nat \ {0}, NEW p, OnGrid(p, s), NEW q, OnGrid(q, s)
  PROVE  OnGrid(Plus(p, q), s)
<1> DEFINE x == Plus(p, q)
           a == p[1]  b == p[2]  c == q[1]  d == q[2]  u == x[1]  v == x[2]
<1>1. p \in Fractions /\ q \in Fractions
  BY DEF OnGrid
<1>2. PICK k \in Int, l \in Int : a * s = k * b /\ c * s = l * d
  BY DEF OnGrid
<1>3. x \in Fractions /\ u * (b * d) = (a * d + c * b) * v
  BY <1>1, PlusIsFraction
<1>4. /\ a \in Int /\ c \in Int /\ u \in Int
      /\ b \in Nat \ {0} /\ d \in Nat \ {0} /\ v \in Nat \ {0}
  BY <1>1, <1>3, FractionParts
<1> HIDE DEF x, a, b, c, d, u, v
<1>5. u * s = (k + l) * v
  <2> DEFINE e == b * d
  <2>1. e \in Int /\ e # 0
    BY <1>4
  <2>2. (a * d + c * b) * s = (k + l) * e
    <3>1. (a * d + c * b) * s = (a * s) * d + (c * s) * b
      BY <1>4
    <3>2. (k * b) * d + (l * d) * b = (k + l) * (b * d)
      BY <1>4
    <3> QED BY <1>2, <3>1, <3>2
  <2> DEFINE g == a * d + c * b
  <2>3. g \in Int /\ u * e = g * v /\ g * s = (k + l) * e
    BY <1>3, <1>4, <2>2
  <2> HIDE DEF e, g
  <2>4. (u * s) * e = (u * e) * s /\ (g * v) * s = (g * s) * v
    BY <1>4, <2>1, <2>3
  <2>5. ((k + l) * e) * v = ((k + l) * v) * e
    BY <1>4, <2>1
  <2>6. (u * s) * e = ((k + l) * v) * e
    BY <2>3, <2>4, <2>5
  <2>7. u * s \in Int /\ (k + l) * v \in Int
    BY <1>4
  <2> QED BY <2>1, <2>6, <2>7, Cancel
<1>6. k + l \in Int
  OBVIOUS
<1> QED BY <1>3, <1>5, <1>6 DEF OnGrid, x, u, v

\* ... a total ...
LEMMA TotalOnGrid ==
  ASSUME NEW s \in Nat \ {0}, NEW S, IsFiniteSet(S),
         NEW f, DOMAIN f = S, \A x \in S : OnGrid(f[x], s)
  PROVE  OnGrid(Total(f), s)
<1> DEFINE N == {n \in Nat : \A T, g : /\ IsFiniteSet(T) /\ Cardinality(T) = n
                                       /\ DOMAIN g = T /\ \A x \in T : OnGrid(g[x], s)
                                       => OnGrid(Total(g), s)}
<1>1. 0 \in N
  <2>1. SUFFICES ASSUME NEW T, NEW g, IsFiniteSet(T), Cardinality(T) = 0, DOMAIN g = T
                 PROVE  OnGrid(Total(g), s)
    OBVIOUS
  <2>2. T = {}
    BY <2>1, FS_EmptySet
  <2>3. Total(g) = Zero
    BY <2>1, <2>2, TotalOfNone
  <2> QED BY <2>3, ZeroOnGrid
<1>2. ASSUME NEW n \in Nat, n \in N PROVE n + 1 \in N
  <2>1. SUFFICES ASSUME NEW T, NEW g, IsFiniteSet(T), Cardinality(T) = n + 1,
                        DOMAIN g = T, \A x \in T : OnGrid(g[x], s)
                 PROVE  OnGrid(Total(g), s)
    OBVIOUS
  <2>2. PICK x \in T : TRUE
    BY <2>1, FS_EmptySet
  <2> DEFINE U == T \ {x}
             h == Without(g, T, x)
  <2>3. IsFiniteSet(U) /\ Cardinality(U) = n /\ DOMAIN h = U /\ \A y \in U : OnGrid(h[y], s)
    BY <2>1, <2>2, OneLess DEF Without
  <2>4. Total(g) = Plus(g[x], Total(h))
    BY <2>1, TotalTakesAny DEF OnGrid
  <2> HIDE DEF h
  <2>5. OnGrid(Total(h), s)
    BY <1>2, <2>3
  <2>6. OnGrid(g[x], s)
    BY <2>1, <2>2
  <2> QED BY <2>4, <2>5, <2>6, PlusOnGrid
<1> HIDE DEF N
<1>3. Cardinality(S) \in N
  BY <1>1, <1>2, NatBySets, FS_CardinalityType
<1> QED BY <1>3 DEF N

\* ... and what is rounded ...
LEMMA RoundedOnGrid ==
  ASSUME NEW p \in Fractions, NEW s \in Nat \ {0}
  PROVE  OnGrid(Rounded(p, s), s)
<1> DEFINE a == p[1]
           b == p[2]
           up == Nearest(<<Abs(a) * s, b>>)
           v == IF a < 0 THEN -up ELSE up
           r == Rounded(p, s)
<1>1. a \in Int /\ b \in Nat \ {0} /\ Abs(a) \in Nat
  BY FractionParts DEF Abs
<1>2. up = (2 * (Abs(a) * s) + b) \div (2 * b)
  BY DEF Nearest
<1>3. 2 * (Abs(a) * s) + b \in Nat /\ 2 * b \in Nat \ {0}
  BY <1>1
<1> HIDE DEF up
<1>4. up \in Nat
  BY <1>2, <1>3, DivMod
<1>5. r = Frac(v, s) /\ v \in Int
  BY <1>4 DEF Rounded, up
<1> HIDE DEF v, r
<1>6. r \in Fractions /\ r[1] * s = v * r[2]
  BY <1>5, FracIsFraction
<1> QED BY <1>5, <1>6 DEF OnGrid, r

\* ... which rounding leaves alone.
LEMMA RoundedStays ==
  ASSUME NEW s \in Nat \ {0}, NEW p, OnGrid(p, s)
  PROVE  Rounded(p, s) = p
<1> DEFINE a == p[1]
           b == p[2]
           up == Nearest(<<Abs(a) * s, b>>)
<1>1. p \in Fractions /\ a \in Int /\ b \in Nat \ {0} /\ Abs(a) \in Nat
  BY FractionParts DEF OnGrid, Abs
<1>2. PICK k \in Int : a * s = k * b
  BY DEF OnGrid
<1>3. up = (2 * (Abs(a) * s) + b) \div (2 * b)
  BY DEF Nearest
<1>4. Rounded(p, s) = Frac(IF a < 0 THEN -up ELSE up, s)
  BY DEF Rounded
<1> HIDE DEF a, b, up
<1>5. PICK j \in Nat : Abs(a) * s = j * b /\ k = IF a < 0 THEN -j ELSE j
  <2>1. CASE a < 0
    <3>1. Abs(a) * s = (-k) * b
      BY <1>1, <1>2, <2>1 DEF Abs
    <3>2. a * s < 0
      BY <1>1, <2>1
    <3>3. k < 0
      BY <1>1, <1>2, <3>2
    <3>4. -k \in Nat /\ k = -(-k)
      BY <3>3
    <3> QED BY <2>1, <3>1, <3>4
  <2>2. CASE ~(a < 0)
    <3>1. Abs(a) * s = k * b
      BY <1>1, <1>2, <2>2 DEF Abs
    <3>2. a * s >= 0
      BY <1>1, <2>2
    <3>3. k >= 0
      BY <1>1, <1>2, <3>2
    <3> QED BY <2>2, <3>1, <3>3
  <2> QED BY <2>1, <2>2
<1>6. up = j
  <2> DEFINE n == 2 * (j * b) + b
             c == 2 * b
             q == n \div c
             r == n % c
  <2>1. n \in Nat /\ c \in Nat \ {0} /\ up = q
    BY <1>1, <1>3, <1>5
  <2>2. n = c * j + b /\ c = b + b
    BY <1>1
  <2> HIDE DEF n, c
  <2>3. q \in Nat /\ r \in 0 .. c - 1 /\ n = c * q + r
    BY <2>1, DivMod
  <2> HIDE DEF q, r
  <2>4. c * (j - q) = r - b
    BY <1>1, <2>1, <2>2, <2>3
  <2>5. r - b < c /\ -c < r - b
    BY <1>1, <2>1, <2>2, <2>3
  <2>6. ~(j - q >= 1)
    <3>1. j - q >= 1 => c * (j - q) >= c
      BY <2>1, <2>3
    <3> QED BY <1>1, <2>1, <2>3, <2>4, <2>5, <3>1
  <2>7. ~(j - q <= -1)
    <3>1. j - q <= -1 => c * (j - q) <= -c
      BY <2>1, <2>3
    <3> QED BY <1>1, <2>1, <2>3, <2>4, <2>5, <3>1
  <2> QED BY <2>1, <2>3, <2>6, <2>7
<1>7. Rounded(p, s) = Frac(k, s)
  BY <1>4, <1>5, <1>6
<1> QED BY <1>1, <1>2, <1>7, IsFrac DEF a, b

(***************************************************************************)
(* Fractions over a common denominator                                     *)
(***************************************************************************)
\* p is x d-ths.
At(p, d, x) == p \in Fractions /\ d \in Nat \ {0} /\ x \in Int /\ p[1] * d = x * p[2]

\* Three fractions have a denominator in common.
LEMMA AtExists ==
  ASSUME NEW p \in Fractions, NEW q \in Fractions, NEW r \in Fractions
  PROVE  \E d \in Nat \ {0}, x, y, z \in Int : At(p, d, x) /\ At(q, d, y) /\ At(r, d, z)
<1> DEFINE a == p[1]  b == p[2]  c == q[1]  e == q[2]  f == r[1]  g == r[2]
           d == b * (e * g)
<1>1. /\ a \in Int /\ c \in Int /\ f \in Int
      /\ b \in Nat \ {0} /\ e \in Nat \ {0} /\ g \in Nat \ {0}
  BY FractionParts
<1> HIDE DEF a, b, c, e, f, g
<1>2. e * g \in Nat \ {0} /\ b * g \in Nat \ {0} /\ b * e \in Nat \ {0}
  BY <1>1, PositiveProduct
<1>3. d \in Nat \ {0}
  BY <1>1, <1>2, PositiveProduct
<1>4. /\ a * (e * g) \in Int /\ c * (b * g) \in Int /\ f * (b * e) \in Int
      /\ a * d = (a * (e * g)) * b
      /\ c * d = (c * (b * g)) * e
      /\ f * d = (f * (b * e)) * g
  BY <1>1
<1> HIDE DEF d
<1>5. /\ At(p, d, a * (e * g)) /\ At(q, d, c * (b * g)) /\ At(r, d, f * (b * e))
  BY <1>3, <1>4 DEF At, a, b, c, e, f, g
<1> QED BY <1>3, <1>4, <1>5

\* Fractions compare as their numerators do.
LEMMA AtLeq ==
  ASSUME NEW p, NEW q, NEW d, NEW x, NEW y, At(p, d, x), At(q, d, y)
  PROVE  /\ Leq(p, q) <=> x <= y
         /\ Less(p, q) <=> x < y
         /\ x = y => p = q
<1> DEFINE a == p[1]  b == p[2]  c == q[1]  e == q[2]
           m == a * e
           n == c * b
           k == b * e
<1>1. /\ a \in Int /\ c \in Int /\ b \in Nat \ {0} /\ e \in Nat \ {0}
      /\ d \in Nat \ {0} /\ x \in Int /\ y \in Int /\ a * d = x * b /\ c * d = y * e
  BY FractionParts DEF At
<1>2. (Leq(p, q) <=> m <= n) /\ (Less(p, q) <=> m < n)
  BY DEF Leq, Less
<1> HIDE DEF a, b, c, e
<1>3. m \in Int /\ n \in Int /\ k \in Nat \ {0}
  BY <1>1, PositiveProduct
<1>4. m * d = x * k
  <2>1. m * d = (a * d) * e
    BY <1>1
  <2>2. m * d = (x * b) * e
    BY <1>1, <2>1
  <2> QED BY <1>1, <2>2
<1>5. n * d = y * k
  <2>1. n * d = (c * d) * b
    BY <1>1
  <2>2. n * d = (y * e) * b
    BY <1>1, <2>1
  <2> QED BY <1>1, <2>2
<1>6. x = y => p = q
  <2> SUFFICES ASSUME x = y PROVE p = q
    OBVIOUS
  <2>1. m * d = n * d
    BY <1>4, <1>5
  <2>2. m = n
    BY <1>1, <1>3, <2>1, Cancel
  <2> QED BY <2>2, FractionsEqual DEF At, m, n, a, b, c, e
<1> HIDE DEF m, n, k
<1>7. ASSUME NEW u \in Int, NEW v \in Int, NEW w \in Nat \ {0}
      PROVE  (u < v <=> u * w < v * w) /\ (u <= v <=> u * w <= v * w)
  <2>1. u < v => u * w < v * w
    BY <1>7
  <2>2. v < u => v * w < u * w
    BY <1>7
  <2>3. u * w \in Int /\ v * w \in Int /\ (u = v => u * w = v * w)
    BY <1>7
  <2> QED BY <2>1, <2>2, <2>3
<1>8. (m < n <=> m * d < n * d) /\ (m <= n <=> m * d <= n * d)
  BY <1>1, <1>3, <1>7
<1>9. (x < y <=> x * k < y * k) /\ (x <= y <=> x * k <= y * k)
  BY <1>1, <1>3, <1>7
<1> QED BY <1>2, <1>4, <1>5, <1>6, <1>8, <1>9

\* Sum, difference and multiple.
LEMMA AtPlus ==
  ASSUME NEW p, NEW q, NEW d, NEW x, NEW y, At(p, d, x), At(q, d, y)
  PROVE  At(Plus(p, q), d, x + y) /\ At(Minus(p, q), d, x - y)
<1> DEFINE a == p[1]  b == p[2]  c == q[1]  e == q[2]
           k == b * e
<1>1. /\ a \in Int /\ c \in Int /\ b \in Nat \ {0} /\ e \in Nat \ {0}
      /\ d \in Nat \ {0} /\ x \in Int /\ y \in Int /\ a * d = x * b /\ c * d = y * e
      /\ p \in Fractions /\ q \in Fractions
  BY FractionParts DEF At
<1>2. /\ Plus(p, q) \in Fractions /\ Plus(p, q)[1] * k = (a * e + c * b) * Plus(p, q)[2]
      /\ Minus(p, q) \in Fractions /\ Minus(p, q)[1] * k = (a * e - c * b) * Minus(p, q)[2]
  BY <1>1, PlusIsFraction, MinusIsFraction
<1> HIDE DEF a, b, c, e
<1>3. k \in Nat \ {0}
  BY <1>1, PositiveProduct
<1>4. (a * e) * d = x * k /\ (c * b) * d = y * k
  <2>1. (a * e) * d = (a * d) * e /\ (c * b) * d = (c * d) * b
    BY <1>1
  <2>2. (a * e) * d = (x * b) * e /\ (c * b) * d = (y * e) * b
    BY <1>1, <2>1
  <2> QED BY <1>1, <2>2
<1>5. (a * e + c * b) * d = (x + y) * k /\ (a * e - c * b) * d = (x - y) * k
  <2>1. a * e \in Int /\ c * b \in Int
    BY <1>1
  <2>2. /\ (a * e + c * b) * d = (a * e) * d + (c * b) * d
        /\ (a * e - c * b) * d = (a * e) * d - (c * b) * d
    BY <1>1, <2>1
  <2>3. (x + y) * k = x * k + y * k /\ (x - y) * k = x * k - y * k
    BY <1>1, <1>3
  <2> QED BY <1>4, <2>2, <2>3
<1>6. ASSUME NEW r \in Fractions, NEW n \in Int, NEW z \in Int,
             r[1] * k = n * r[2], n * d = z * k
      PROVE  At(r, d, z)
  <2> DEFINE u == r[1]
             v == r[2]
  <2>1. u \in Int /\ v \in Nat \ {0} /\ u * k = n * v
    BY <1>6, FractionParts
  <2> HIDE DEF u, v, k
  <2>2. (u * d) * k = (u * k) * d
    BY <1>1, <1>3, <2>1
  <2>3. (u * d) * k = (n * v) * d
    BY <2>1, <2>2
  <2>4. (n * v) * d = (n * d) * v
    BY <1>1, <1>6, <2>1
  <2>5. (u * d) * k = (z * k) * v
    BY <1>6, <2>3, <2>4
  <2>6. (u * d) * k = (z * v) * k
    BY <1>3, <1>6, <2>1, <2>5
  <2>7. u * d \in Int /\ z * v \in Int
    BY <1>1, <1>6, <2>1
  <2>8. u * d = z * v
    BY <1>3, <2>6, <2>7, Cancel
  <2> QED BY <1>1, <1>6, <2>8 DEF At, u, v
<1>7. a * e + c * b \in Int /\ a * e - c * b \in Int /\ x + y \in Int /\ x - y \in Int
  BY <1>1
<1> QED BY <1>2, <1>5, <1>6, <1>7

\* A multiple of a fraction over the same denominator.
LEMMA AtMultiple ==
  ASSUME NEW p, NEW d, NEW x, At(p, d, x), NEW n \in Int
  PROVE  At(Times(Whole(n), p), d, n * x)
<1> DEFINE r == Times(Whole(n), p)
           a == p[1]  b == p[2]  u == r[1]  v == r[2]
<1>1. /\ a \in Int /\ b \in Nat \ {0} /\ d \in Nat \ {0} /\ x \in Int /\ a * d = x * b
      /\ p \in Fractions
  BY FractionParts DEF At
<1>2. r \in Fractions /\ u * (1 * b) = (n * a) * v
  BY <1>1, TimesIsFraction, WholeIsFraction
<1>3. u \in Int /\ v \in Nat \ {0}
  BY <1>2, FractionParts
<1> HIDE DEF a, b, r, u, v
<1>4. u * b = (n * a) * v
  BY <1>1, <1>2
<1>5. (u * d) * b = ((n * x) * v) * b
  <2>1. (u * d) * b = (u * b) * d
    BY <1>1, <1>3
  <2>2. (u * d) * b = ((n * a) * v) * d
    BY <1>4, <2>1
  <2>3. ((n * a) * v) * d = (n * v) * (a * d)
    BY <1>1, <1>3
  <2>4. (u * d) * b = (n * v) * (x * b)
    BY <1>1, <2>2, <2>3
  <2> QED BY <1>1, <1>3, <2>4
<1>6. u * d \in Int /\ (n * x) * v \in Int /\ b # 0 /\ n * x \in Int
  BY <1>1, <1>3
<1>7. u * d = (n * x) * v
  BY <1>1, <1>5, <1>6, Cancel
<1> QED BY <1>1, <1>2, <1>6, <1>7 DEF At, r, u, v

\* A quotient, its floor, its ceiling, and what it is when it is whole.
LEMMA AtOver ==
  ASSUME NEW p, NEW q, NEW d, NEW x, NEW y, At(p, d, x), At(q, d, y), y > 0
  PROVE  /\ Over(p, q) \in Fractions
         /\ Over(p, q)[1] * y = x * Over(p, q)[2]
<1> DEFINE o == Over(p, q)
           a == p[1]  b == p[2]  c == q[1]  e == q[2]  u == o[1]  v == o[2]
<1>1. /\ a \in Int /\ c \in Int /\ b \in Nat \ {0} /\ e \in Nat \ {0}
      /\ d \in Nat \ {0} /\ x \in Int /\ y \in Int /\ a * d = x * b /\ c * d = y * e
      /\ p \in Fractions /\ q \in Fractions
  BY FractionParts DEF At
<1>2. c # 0
  <2> HIDE DEF a, b, c, e
  <2>1. y * e > 0
    BY <1>1
  <2> QED BY <1>1, <2>1
<1>3. o \in Fractions /\ u * (b * c) = (a * e) * v
  BY <1>1, <1>2, OverIsFraction
<1>4. u \in Int /\ v \in Nat \ {0}
  BY <1>3, FractionParts
<1> HIDE DEF a, b, c, e, o, u, v
<1> DEFINE k == b * e
<1>5. k \in Nat \ {0}
  BY <1>1, PositiveProduct
<1>6. (u * y) * k = (x * v) * k
  <2>1. (u * (b * c)) * d = ((a * e) * v) * d
    BY <1>3
  <2>2. (u * (b * c)) * d = (u * b) * (c * d)
    BY <1>1, <1>4
  <2>3. ((a * e) * v) * d = (e * v) * (a * d)
    BY <1>1, <1>4
  <2>4. (u * b) * (y * e) = (e * v) * (x * b)
    BY <1>1, <2>1, <2>2, <2>3
  <2>5. (u * b) * (y * e) = (u * y) * k
    BY <1>1, <1>4
  <2>6. (e * v) * (x * b) = (x * v) * k
    BY <1>1, <1>4
  <2> QED BY <2>4, <2>5, <2>6
<1>7. u * y \in Int /\ x * v \in Int /\ k # 0 /\ k \in Int
  BY <1>1, <1>4, <1>5
<1> HIDE DEF k
<1>8. u * y = x * v
  BY <1>6, <1>7, Cancel
<1> QED BY <1>3, <1>8 DEF o, u, v

\* The greatest multiple up to a number.
LEMMA AtFloor ==
  ASSUME NEW p, NEW q, NEW d, NEW x, NEW y, At(p, d, x), At(q, d, y), y > 0
  PROVE  LET n == Floor(Over(p, q))
         IN  n \in Int /\ n * y <= x /\ x < (n + 1) * y
<1> DEFINE o == Over(p, q)
           u == o[1]
           v == o[2]
           n == u \div v
<1>0. x \in Int /\ y \in Int
  BY DEF At
<1>1. /\ u \in Int /\ v \in Nat \ {0} /\ x \in Int /\ y \in Int /\ u * y = x * v
  <2>1. o \in Fractions /\ u * y = x * v
    BY AtOver
  <2> QED BY <1>0, <2>1, FractionParts
<1>2. Floor(o) = n
  BY DEF Floor
<1> HIDE DEF o, u, v
<1>3. n \in Int /\ v * n <= u /\ u < v * (n + 1)
  BY <1>1
<1> HIDE DEF n
<1>4. ASSUME x < n * y PROVE FALSE
  <2>1. x * v < (n * y) * v
    BY <1>1, <1>3, <1>4
  <2>2. (v * n) * y <= u * y
    BY <1>1, <1>3
  <2> QED BY <1>1, <1>3, <2>1, <2>2
<1>5. ASSUME (n + 1) * y <= x PROVE FALSE
  <2>1. ((n + 1) * y) * v <= x * v
    BY <1>1, <1>3, <1>5
  <2>2. u * y < (v * (n + 1)) * y
    BY <1>1, <1>3
  <2>3. ((n + 1) * y) * v = (v * (n + 1)) * y
    BY <1>1, <1>3
  <2> QED BY <1>1, <1>3, <2>1, <2>2, <2>3
<1>6. n * y \in Int /\ (n + 1) * y \in Int
  BY <1>1, <1>3
<1> QED BY <1>1, <1>2, <1>3, <1>4, <1>5, <1>6 DEF o

\* The least multiple from a number on.
LEMMA AtCeil ==
  ASSUME NEW p, NEW q, NEW d, NEW x, NEW y, At(p, d, x), At(q, d, y), y > 0
  PROVE  LET n == Ceil(Over(p, q))
         IN  n \in Int /\ (n - 1) * y < x /\ x <= n * y
<1> DEFINE o == Over(p, q)
           u == o[1]
           v == o[2]
           w == -u
           m == w \div v
           n == -m
<1>0. x \in Int /\ y \in Int
  BY DEF At
<1>1. /\ u \in Int /\ v \in Nat \ {0} /\ x \in Int /\ y \in Int /\ u * y = x * v
  <2>1. o \in Fractions /\ u * y = x * v
    BY AtOver
  <2> QED BY <1>0, <2>1, FractionParts
<1>2. Ceil(o) = n
  BY DEF Ceil
<1> HIDE DEF o, u, v
<1>3. m \in Int /\ v * m <= w /\ w < v * (m + 1) /\ w \in Int
  BY <1>1
<1> HIDE DEF m
<1>4. n \in Int /\ u <= v * n /\ v * (n - 1) < u
  <2>1. v * (-m) = -(v * m) /\ v * (-m - 1) = -(v * (m + 1)) /\ v * m \in Int /\ v * (m + 1) \in Int
    BY <1>1, <1>3
  <2> QED BY <1>1, <1>3, <2>1
<1> HIDE DEF n
<1>5. ASSUME n * y < x PROVE FALSE
  <2>1. (n * y) * v < x * v
    BY <1>1, <1>4, <1>5
  <2>2. u * y <= (v * n) * y
    BY <1>1, <1>4
  <2>3. (n * y) * v = (v * n) * y
    BY <1>1, <1>4
  <2> QED BY <1>1, <1>4, <2>1, <2>2, <2>3
<1>6. ASSUME x <= (n - 1) * y PROVE FALSE
  <2>1. x * v <= ((n - 1) * y) * v
    BY <1>1, <1>4, <1>6
  <2>2. (v * (n - 1)) * y < u * y
    BY <1>1, <1>4
  <2>3. ((n - 1) * y) * v = (v * (n - 1)) * y
    BY <1>1, <1>4
  <2> QED BY <1>1, <1>4, <2>1, <2>2, <2>3
<1>7. n * y \in Int /\ (n - 1) * y \in Int
  BY <1>1, <1>4
<1> QED BY <1>1, <1>2, <1>4, <1>5, <1>6, <1>7 DEF o

\* How often a number goes into its multiple.
LEMMA OverOfMultiple ==
  ASSUME NEW p, NEW q, NEW d, NEW y, NEW n \in Int, At(p, d, n * y), At(q, d, y), y > 0
  PROVE  Over(p, q) = Whole(n) /\ Nearest(Over(p, q)) = n
<1> DEFINE o == Over(p, q)
<1>0. y \in Int
  BY DEF At
<1>1. o \in Fractions /\ o[1] * y = (n * y) * o[2] /\ y \in Int
  BY <1>0, AtOver
<1>2. o[1] \in Int /\ o[2] \in Nat \ {0}
  BY <1>1, FractionParts
<1> HIDE DEF o
<1>3. o[1] * y = (n * o[2]) * y /\ n * o[2] \in Int
  BY <1>1, <1>2
<1>4. o[1] = n * o[2]
  BY <1>1, <1>2, <1>3, Cancel
<1>5. Whole(n) \in Fractions /\ Whole(n)[1] = n /\ Whole(n)[2] = 1
  BY WholeIsFraction
<1>6. o = Whole(n)
  BY <1>1, <1>2, <1>4, <1>5, FractionsEqual
<1>7. Nearest(Whole(n)) = (2 * n + 1) \div 2
  BY <1>5 DEF Nearest
<1>8. (2 * n + 1) \div 2 = n
  OBVIOUS
<1> QED BY <1>6, <1>7, <1>8 DEF o

\* The order of fractions is one.
LEMMA LeqIsAnOrder ==
  ASSUME NEW p \in Fractions, NEW q \in Fractions, NEW r \in Fractions
  PROVE  /\ Leq(p, p) /\ (Leq(p, q) \/ Leq(q, p))
         /\ Leq(p, q) /\ Leq(q, r) => Leq(p, r)
         /\ Leq(p, q) /\ Leq(q, p) => p = q
         /\ Less(p, q) <=> ~Leq(q, p)
<1>1. PICK d \in Nat \ {0}, x \in Int, y \in Int, z \in Int :
        At(p, d, x) /\ At(q, d, y) /\ At(r, d, z)
  BY AtExists
<1>2. /\ Leq(p, p) <=> x <= x
      /\ Leq(p, q) <=> x <= y
      /\ Leq(q, p) <=> y <= x
      /\ Leq(q, r) <=> y <= z
      /\ Leq(p, r) <=> x <= z
      /\ Less(p, q) <=> x < y
      /\ x = y => p = q
  BY <1>1, AtLeq
<1> QED BY <1>2

\* A finite set of fractions that is not empty has a least and a greatest one.
LEMMA ExtremesExist ==
  ASSUME NEW S, IsFiniteSet(S), S # {}, S \subseteq Fractions
  PROVE  /\ \E p \in S : \A q \in S : Leq(p, q)
         /\ \E p \in S : \A q \in S : Leq(q, p)
<1> DEFINE Ends(T) == /\ \E p \in T : \A q \in T : Leq(p, q)
                      /\ \E p \in T : \A q \in T : Leq(q, p)
           N == {n \in Nat : \A T : /\ IsFiniteSet(T) /\ Cardinality(T) = n
                                    /\ T # {} /\ T \subseteq Fractions
                                    => Ends(T)}
<1>1. 0 \in N
  BY FS_EmptySet
<1>2. ASSUME NEW n \in Nat, n \in N PROVE n + 1 \in N
  <2>1. SUFFICES ASSUME NEW T, IsFiniteSet(T), Cardinality(T) = n + 1, T \subseteq Fractions
                 PROVE  Ends(T)
    OBVIOUS
  <2>2. PICK r \in T : TRUE
    BY <2>1, FS_EmptySet
  <2> DEFINE U == T \ {r}
  <2>3. IsFiniteSet(U) /\ Cardinality(U) = n /\ U \subseteq Fractions /\ r \in Fractions
    BY <2>1, <2>2, OneLess
  <2>4. T = U \cup {r}
    BY <2>2
  <2>5. CASE U = {}
    <3>1. T = {r}
      BY <2>4, <2>5
    <3>2. Leq(r, r)
      BY <2>3, LeqIsAnOrder
    <3> QED BY <3>1, <3>2
  <2>6. CASE U # {}
    <3>1. Ends(U)
      BY <1>2, <2>3, <2>6
    <3> HIDE DEF U
    <3>2. PICK p \in U : \A q \in U : Leq(p, q)
      BY <3>1
    <3>3. PICK o \in U : \A q \in U : Leq(q, o)
      BY <3>1
    <3>4. /\ p \in Fractions /\ o \in Fractions /\ Leq(r, r)
          /\ Leq(p, r) \/ Leq(r, p)
          /\ Leq(o, r) \/ Leq(r, o)
      BY <2>3, <3>2, <3>3, LeqIsAnOrder
    <3>5. ASSUME Leq(r, p), NEW q \in U PROVE Leq(r, q)
      BY <2>3, <3>2, <3>4, <3>5, LeqIsAnOrder
    <3>6. ASSUME Leq(o, r), NEW q \in U PROVE Leq(q, r)
      BY <2>3, <3>3, <3>4, <3>6, LeqIsAnOrder
    <3>7. \E m \in T : \A q \in T : Leq(m, q)
      BY <2>4, <3>2, <3>4, <3>5
    <3>8. \E m \in T : \A q \in T : Leq(q, m)
      BY <2>4, <3>3, <3>4, <3>6
    <3> QED BY <3>7, <3>8
  <2> QED BY <2>5, <2>6
<1> HIDE DEF N
<1>3. Cardinality(S) \in N
  BY <1>1, <1>2, NatBySets, FS_CardinalityType
<1> QED BY <1>3 DEF N

\* A number of d-ths is so many d-ths, ...
LEMMA AtFrac ==
  ASSUME NEW n \in Int, NEW d \in Nat \ {0}
  PROVE  At(Frac(n, d), d, n)
<1>1. Frac(n, d) \in Fractions /\ Frac(n, d)[1] * d = n * Frac(n, d)[2]
  BY FracIsFraction
<1> QED BY <1>1 DEF At

\* ... any denominator may be refined, ...
LEMMA AtScales ==
  ASSUME NEW p, NEW d, NEW x, At(p, d, x), NEW e \in Nat \ {0}
  PROVE  At(p, d * e, x * e)
<1> DEFINE a == p[1]
           b == p[2]
<1>1. /\ a \in Int /\ b \in Nat \ {0} /\ p \in Fractions
      /\ d \in Nat \ {0} /\ x \in Int /\ a * d = x * b
  BY FractionParts DEF At
<1>2. d * e \in Nat \ {0}
  BY <1>1, PositiveProduct
<1>3. x * e \in Int /\ a * (d * e) = (x * e) * b
  <2> HIDE DEF a, b
  <2>1. a * (d * e) = (a * d) * e
    BY <1>1
  <2>2. (x * b) * e = (x * e) * b /\ x * e \in Int
    BY <1>1
  <2> QED BY <1>1, <2>1, <2>2
<1> QED BY <1>1, <1>2, <1>3 DEF At

\* ... and a product is over the product of the denominators.
LEMMA AtTimes ==
  ASSUME NEW p, NEW q, NEW d, NEW e, NEW x, NEW y, At(p, d, x), At(q, e, y)
  PROVE  At(Times(p, q), d * e, x * y)
<1> DEFINE a == p[1]  b == p[2]  c == q[1]  f == q[2]
           u == Times(p, q)[1]
           v == Times(p, q)[2]
           n == a * c
           k == b * f
           g == d * e
           z == x * y
<1>1. /\ a \in Int /\ c \in Int /\ b \in Nat \ {0} /\ f \in Nat \ {0}
      /\ d \in Nat \ {0} /\ e \in Nat \ {0} /\ x \in Int /\ y \in Int
      /\ a * d = x * b /\ c * e = y * f
      /\ p \in Fractions /\ q \in Fractions
  BY FractionParts DEF At
<1>2. Times(p, q) \in Fractions /\ u * k = n * v
  BY <1>1, TimesIsFraction
<1>3. u \in Int /\ v \in Nat \ {0}
  BY <1>2, FractionParts
<1> HIDE DEF a, b, c, f, u, v
<1>4. k \in Nat \ {0} /\ g \in Nat \ {0}
  BY <1>1, PositiveProduct
<1>5. n \in Int /\ z \in Int
  BY <1>1
<1>6. n * g = z * k
  <2>1. n * g = (a * d) * (c * e)
    BY <1>1
  <2>2. n * g = (x * b) * (y * f)
    BY <1>1, <2>1
  <2> QED BY <1>1, <2>2
<1> HIDE DEF n, k, g, z
<1>7. u * g = z * v
  <2>1. (u * g) * k = (u * k) * g
    BY <1>3, <1>4
  <2>2. (u * g) * k = (n * v) * g
    BY <1>2, <2>1
  <2>3. (n * v) * g = (n * g) * v
    BY <1>3, <1>4, <1>5
  <2>4. (u * g) * k = (z * k) * v
    BY <1>6, <2>2, <2>3
  <2>5. (u * g) * k = (z * v) * k
    BY <1>3, <1>4, <1>5, <2>4
  <2>6. u * g \in Int /\ z * v \in Int /\ k \in Int /\ k # 0
    BY <1>3, <1>4, <1>5
  <2> QED BY <2>5, <2>6, Cancel
<1>8. At(Times(p, q), g, z)
  BY <1>2, <1>4, <1>5, <1>7 DEF At, u, v
<1> QED BY <1>8 DEF g, z

\* The total of the sums is the sum of the totals.
LEMMA TotalOfSums ==
  ASSUME NEW S, IsFiniteSet(S), NEW f, NEW g, NEW h,
         DOMAIN f = S, DOMAIN g = S, DOMAIN h = S,
         \A x \in S : f[x] \in Fractions /\ g[x] \in Fractions /\ h[x] = Plus(f[x], g[x])
  PROVE  Total(h) = Plus(Total(f), Total(g))
<1> DEFINE Sums(T, a, b, c) ==
             /\ IsFiniteSet(T) /\ DOMAIN a = T /\ DOMAIN b = T /\ DOMAIN c = T
             /\ \A x \in T : /\ a[x] \in Fractions /\ b[x] \in Fractions
                             /\ c[x] = Plus(a[x], b[x])
           N == {n \in Nat : \A T, a, b, c :
                   Sums(T, a, b, c) /\ Cardinality(T) = n =>
                     Total(c) = Plus(Total(a), Total(b))}
<1>1. 0 \in N
  <2>1. ASSUME NEW T, NEW a, NEW b, NEW c, Sums(T, a, b, c), Cardinality(T) = 0
        PROVE  Total(c) = Plus(Total(a), Total(b))
    <3>1. T = {}
      BY <2>1, FS_EmptySet
    <3>2. Total(a) = Zero /\ Total(b) = Zero /\ Total(c) = Zero
      BY <2>1, <3>1, TotalOfNone
    <3> QED BY <3>2, PlusZero, ZeroIsFraction
  <2> QED BY <2>1
<1>2. ASSUME NEW n \in Nat, n \in N PROVE n + 1 \in N
  <2>1. SUFFICES ASSUME NEW T, NEW a, NEW b, NEW c, Sums(T, a, b, c), Cardinality(T) = n + 1
                 PROVE  Total(c) = Plus(Total(a), Total(b))
    OBVIOUS
  <2>2. PICK x \in T : TRUE
    BY <2>1, FS_EmptySet
  <2> DEFINE U  == T \ {x}
             a1 == Without(a, T, x)
             b1 == Without(b, T, x)
             c1 == Without(c, T, x)
  <2>3. IsFiniteSet(U) /\ Cardinality(U) = n
    BY <2>1, <2>2, OneLess
  <2>4. Sums(U, a1, b1, c1)
    BY <2>1, <2>3 DEF Without
  <2>5. \A y \in T : c[y] \in Fractions
    BY <2>1, PlusIsFraction
  <2>6. /\ Total(a) = Plus(a[x], Total(a1)) /\ Total(b) = Plus(b[x], Total(b1))
        /\ Total(c) = Plus(c[x], Total(c1)) /\ c[x] = Plus(a[x], b[x])
    BY <2>1, <2>2, <2>5, TotalTakesAny
  <2>7. Total(a1) \in Fractions /\ Total(b1) \in Fractions
    BY <2>4, TotalIsFraction
  <2>8. a[x] \in Fractions /\ b[x] \in Fractions
    BY <2>1, <2>2
  <2> HIDE DEF a1, b1, c1, U, Sums
  <2>9. Total(c1) = Plus(Total(a1), Total(b1))
    BY <1>2, <2>3, <2>4
  <2> DEFINE p == a[x]  q == b[x]  r == Total(a1)  s == Total(b1)
  <2>10. Plus(Plus(p, q), Plus(r, s)) = Plus(Plus(p, r), Plus(q, s))
    <3> HIDE DEF p, q, r, s
    <3>1. p \in Fractions /\ q \in Fractions /\ r \in Fractions /\ s \in Fractions
      BY <2>7, <2>8 DEF p, q, r, s
    <3>2. Plus(r, s) \in Fractions /\ Plus(q, s) \in Fractions
      BY <3>1, PlusIsFraction
    <3>3. Plus(Plus(p, q), Plus(r, s)) = Plus(p, Plus(q, Plus(r, s)))
      BY <3>1, <3>2, PlusAssociates
    <3>4. Plus(q, Plus(r, s)) = Plus(Plus(q, r), s)
      BY <3>1, PlusAssociates
    <3>5. Plus(q, r) = Plus(r, q)
      BY <3>1, PlusCommutes
    <3>6. Plus(Plus(r, q), s) = Plus(r, Plus(q, s))
      BY <3>1, PlusAssociates
    <3>7. Plus(p, Plus(r, Plus(q, s))) = Plus(Plus(p, r), Plus(q, s))
      BY <3>1, <3>2, PlusAssociates
    <3> QED BY <3>3, <3>4, <3>5, <3>6, <3>7
  <2> QED BY <2>6, <2>9, <2>10
<1>3. Cardinality(S) \in N
  <2> HIDE DEF N
  <2> QED BY <1>1, <1>2, NatBySets, FS_CardinalityType
<1> QED BY <1>3

(***************************************************************************)
(* Fractions from zero up                                                  *)
(***************************************************************************)
NotBelow(p) == p \in Fractions /\ p[1] >= 0

\* Zero and up: a product, a quotient, ...
LEMMA TimesNotBelow ==
  ASSUME NEW p, NotBelow(p), NEW q, NotBelow(q)
  PROVE  NotBelow(Times(p, q))
<1> DEFINE t == Times(p, q)
           a == p[1]  b == p[2]  c == q[1]  d == q[2]  u == t[1]  v == t[2]
<1>1. t \in Fractions /\ u * (b * d) = (a * c) * v
  BY TimesIsFraction DEF NotBelow
<1>2. /\ a \in Nat /\ c \in Nat /\ b \in Nat \ {0} /\ d \in Nat \ {0}
      /\ u \in Int /\ v \in Nat \ {0}
  BY <1>1, FractionParts DEF NotBelow
<1> HIDE DEF a, b, c, d, u, v, t
<1>3. b * d \in Nat \ {0} /\ (a * c) * v >= 0
  <2>1. a * c \in Nat
    BY <1>2
  <2> QED BY <1>2, <2>1, PositiveProduct
<1>4. u >= 0
  <2> DEFINE k == b * d
             w == (a * c) * v
  <2>1. k \in Nat \ {0} /\ w >= 0 /\ u * k = w
    BY <1>1, <1>3
  <2> HIDE DEF k, w
  <2>2. u < 0 => u * k < 0
    BY <1>2, <2>1
  <2> QED BY <1>2, <2>1, <2>2
<1> QED BY <1>1, <1>4 DEF NotBelow, u, t

\* ... by what is above zero, ...
LEMMA OverNotBelow ==
  ASSUME NEW p, NotBelow(p), NEW q, Above(q)
  PROVE  NotBelow(Over(p, q)) /\ (Above(p) => Above(Over(p, q)))
<1> DEFINE t == Over(p, q)
           a == p[1]  b == p[2]  c == q[1]  d == q[2]  u == t[1]  v == t[2]
<1>1. t \in Fractions /\ u * (b * c) = (a * d) * v
  <2>1. c # 0
    BY DEF Above
  <2> QED BY <2>1, OverIsFraction DEF NotBelow, Above
<1>2. /\ a \in Nat /\ c \in Nat \ {0} /\ b \in Nat \ {0} /\ d \in Nat \ {0}
      /\ u \in Int /\ v \in Nat \ {0}
  BY <1>1, FractionParts DEF NotBelow, Above
<1>3. Above(p) => a > 0
  BY DEF Above
<1> HIDE DEF a, b, c, d, u, v, t
<1>4. b * c \in Nat \ {0} /\ d * v \in Nat \ {0} /\ (a * d) * v = a * (d * v)
  BY <1>2, PositiveProduct
<1>5. u >= 0 /\ (a > 0 => u > 0)
  <2> DEFINE k == b * c
             l == d * v
  <2>1. k \in Nat \ {0} /\ l \in Nat \ {0} /\ u * k = a * l
    BY <1>1, <1>4
  <2> HIDE DEF k, l
  <2>2. (u < 0 => u * k < 0) /\ (u = 0 => u * k = 0) /\ a * l >= 0 /\ (a > 0 => a * l > 0)
    BY <1>2, <2>1
  <2> QED BY <1>2, <2>1, <2>2
<1> QED BY <1>1, <1>3, <1>5 DEF NotBelow, Above, u, t

\* ... a rounded number, ...
LEMMA RoundedNotBelow ==
  ASSUME NEW p, NotBelow(p), NEW s \in Nat \ {0}
  PROVE  NotBelow(Rounded(p, s))
<1> DEFINE a == p[1]
           b == p[2]
           up == (2 * (a * s) + b) \div (2 * b)
           r == Frac(up, s)
<1>1. p \in Fractions /\ a \in Nat /\ b \in Nat \ {0}
  BY FractionParts DEF NotBelow
<1>2. Rounded(p, s) = r
  <2>1. Abs(a) = a
    BY <1>1 DEF Abs
  <2>2. Nearest(<<Abs(p[1]) * s, p[2]>>) = up
    BY <2>1 DEF Nearest
  <2>3. ~(p[1] < 0)
    BY <1>1
  <2> HIDE DEF up
  <2> QED BY <2>2, <2>3 DEF Rounded
<1> HIDE DEF a, b
<1>3. up \in Nat
  <2>1. a * s \in Nat
    BY <1>1
  <2>2. 2 * (a * s) + b \in Nat /\ 2 * b \in Nat \ {0}
    BY <1>1, <2>1
  <2> QED BY <2>2, DivMod
<1> HIDE DEF up
<1>4. r \in Fractions /\ r[1] * s = up * r[2]
  BY <1>3, FracIsFraction
<1>5. r[1] \in Int /\ r[2] \in Nat \ {0}
  BY <1>4, FractionParts
<1> HIDE DEF r
<1>6. r[1] >= 0
  <2>1. up * r[2] >= 0
    BY <1>3, <1>5
  <2>2. r[1] < 0 => r[1] * s < 0
    BY <1>5
  <2> QED BY <1>4, <1>5, <2>1, <2>2
<1> QED BY <1>2, <1>4, <1>6 DEF NotBelow

\* ... a sum ...
LEMMA PlusNotBelow ==
  ASSUME NEW p, NotBelow(p), NEW q, NotBelow(q)
  PROVE  NotBelow(Plus(p, q))
<1> DEFINE t == Plus(p, q)
           a == p[1]  b == p[2]  c == q[1]  d == q[2]  u == t[1]  v == t[2]
<1>1. t \in Fractions /\ u * (b * d) = (a * d + c * b) * v
  BY PlusIsFraction DEF NotBelow
<1>2. /\ a \in Nat /\ c \in Nat /\ b \in Nat \ {0} /\ d \in Nat \ {0}
      /\ u \in Int /\ v \in Nat \ {0}
  BY <1>1, FractionParts DEF NotBelow
<1> HIDE DEF a, b, c, d, u, v, t
<1>3. b * d \in Nat \ {0} /\ (a * d + c * b) * v >= 0
  <2>1. a * d \in Nat /\ c * b \in Nat
    BY <1>2
  <2>2. a * d + c * b \in Nat
    BY <2>1
  <2> QED BY <1>2, <2>2, PositiveProduct
<1>4. u >= 0
  <2> DEFINE k == b * d
             w == (a * d + c * b) * v
  <2>1. k \in Nat \ {0} /\ w >= 0 /\ u * k = w
    BY <1>1, <1>3
  <2> HIDE DEF k, w
  <2>2. u < 0 => u * k < 0
    BY <1>2, <2>1
  <2> QED BY <1>2, <2>1, <2>2
<1> QED BY <1>1, <1>4 DEF NotBelow, u, t

\* ... and a total, which is above zero when one of the values is.
LEMMA TotalNotBelow ==
  ASSUME NEW S, IsFiniteSet(S), NEW f, DOMAIN f = S, \A x \in S : NotBelow(f[x])
  PROVE  /\ NotBelow(Total(f))
         /\ \A x \in S : Above(f[x]) => Above(Total(f))
<1> DEFINE Up(T, g) == IsFiniteSet(T) /\ DOMAIN g = T /\ \A x \in T : NotBelow(g[x])
           N == {n \in Nat : \A T, g : Up(T, g) /\ Cardinality(T) = n => NotBelow(Total(g))}
<1>1. 0 \in N
  <2>1. ASSUME NEW T, NEW g, Up(T, g), Cardinality(T) = 0 PROVE NotBelow(Total(g))
    <3>1. T = {}
      BY <2>1, FS_EmptySet
    <3>2. Total(g) = Zero
      BY <2>1, <3>1, TotalOfNone
    <3> QED BY <3>2, ZeroIsFraction DEF NotBelow
  <2> QED BY <2>1
<1>2. ASSUME NEW n \in Nat, n \in N PROVE n + 1 \in N
  <2>1. SUFFICES ASSUME NEW T, NEW g, Up(T, g), Cardinality(T) = n + 1
                 PROVE  NotBelow(Total(g))
    OBVIOUS
  <2>2. PICK x \in T : TRUE
    BY <2>1, FS_EmptySet
  <2> DEFINE U == T \ {x}
             h == Without(g, T, x)
  <2>3. Cardinality(U) = n /\ Up(U, h)
    BY <2>1, <2>2, OneLess DEF Without
  <2>4. Total(g) = Plus(g[x], Total(h)) /\ NotBelow(g[x])
    BY <2>1, <2>2, TotalTakesAny DEF NotBelow
  <2> HIDE DEF h, U, Up
  <2>5. NotBelow(Total(h))
    BY <1>2, <2>3
  <2> QED BY <2>4, <2>5, PlusNotBelow
<1>3. ASSUME NEW T, NEW g, Up(T, g) PROVE NotBelow(Total(g))
  <2>1. Nat \subseteq N
    <3> HIDE DEF N
    <3> QED BY <1>1, <1>2, NatBySets
  <2>2. Cardinality(T) \in N
    BY <1>3, <2>1, FS_CardinalityType
  <2> QED BY <1>3, <2>2
<1>4. ASSUME NEW x \in S, Above(f[x]) PROVE Above(Total(f))
  <2> DEFINE h == Without(f, S, x)
  <2>1. Up(S \ {x}, h)
    BY FS_Subset DEF Without
  <2>2. NotBelow(Total(h))
    BY <1>3, <2>1
  <2>3. Total(f) = Plus(f[x], Total(h))
    BY TotalTakesAny DEF NotBelow
  <2> QED BY <1>4, <2>2, <2>3, PlusIsAbove DEF NotBelow
<1>5. Up(S, f)
  OBVIOUS
<1> QED BY <1>3, <1>4, <1>5

(***************************************************************************)
(* Quotients                                                               *)
(***************************************************************************)
\* A fraction is the quotient of its parts.
LEMMA FracOfParts ==
  ASSUME NEW p \in Fractions
  PROVE  p = Frac(p[1], p[2])
<1>1. p[1] \in Int /\ p[2] \in Int /\ p[2] # 0 /\ p[1] * p[2] = p[1] * p[2]
  BY FractionParts
<1> QED BY <1>1, IsFrac

\* The product of two quotients, ...
LEMMA TimesFracs ==
  ASSUME NEW a \in Int, NEW b \in Int, b # 0, NEW c \in Int, NEW d \in Int, d # 0
  PROVE  Times(Frac(a, b), Frac(c, d)) = Frac(a * c, b * d)
<1> DEFINE p == Frac(a, b)
           q == Frac(c, d)
           k == p[1]  l == p[2]  m == q[1]  n == q[2]
<1>1. p \in Fractions /\ q \in Fractions /\ k * b = a * l /\ m * d = c * n
  BY FracIsFraction
<1>2. /\ k \in Int /\ l \in Int /\ l # 0 /\ m \in Int /\ n \in Int /\ n # 0
      /\ Times(p, q) = Frac(k * m, l * n)
  BY <1>1, FractionParts DEF Times
<1> HIDE DEF k, l, m, n
<1>3. (k * m) * (b * d) = (a * c) * (l * n)
  <2>1. (k * m) * (b * d) = (k * b) * (m * d)
    BY <1>2
  <2>2. (a * l) * (c * n) = (a * c) * (l * n)
    BY <1>2
  <2> QED BY <1>1, <2>1, <2>2
<1>4. /\ l * n \in Int /\ l * n # 0 /\ b * d \in Int /\ b * d # 0
      /\ k * m \in Int /\ a * c \in Int
  BY <1>2, NonzeroProduct
<1>5. Frac(k * m, l * n) = Frac(a * c, b * d)
  BY <1>3, <1>4, FracsEqual
<1> QED BY <1>2, <1>5

\* ... their quotient, ...
LEMMA OverFracs ==
  ASSUME NEW a \in Int, NEW b \in Int, b # 0, NEW c \in Int, c # 0, NEW d \in Int, d # 0
  PROVE  Over(Frac(a, b), Frac(c, d)) = Frac(a * d, b * c)
<1> DEFINE p == Frac(a, b)
           q == Frac(c, d)
           k == p[1]  l == p[2]  m == q[1]  n == q[2]
<1>1. p \in Fractions /\ q \in Fractions /\ k * b = a * l /\ m * d = c * n
  BY FracIsFraction
<1>2. /\ k \in Int /\ l \in Int /\ l # 0 /\ m \in Int /\ n \in Int /\ n # 0
      /\ Over(p, q) = Frac(k * n, l * m)
  BY <1>1, FractionParts DEF Over
<1> HIDE DEF k, l, m, n
<1>3. (k * n) * (b * c) = (a * d) * (l * m)
  <2>1. (k * n) * (b * c) = (k * b) * (c * n)
    BY <1>2
  <2>2. (a * l) * (m * d) = (a * d) * (l * m)
    BY <1>2
  <2> QED BY <1>1, <2>1, <2>2
<1>4. m # 0
  <2>1. c * n # 0
    BY <1>2, NonzeroProduct
  <2>2. m = 0 => m * d = 0
    OBVIOUS
  <2> QED BY <1>1, <2>1, <2>2
<1>5. /\ l * m \in Int /\ l * m # 0 /\ b * c \in Int /\ b * c # 0
      /\ k * n \in Int /\ a * d \in Int
  BY <1>2, <1>4, NonzeroProduct
<1>6. Frac(k * n, l * m) = Frac(a * d, b * c)
  BY <1>3, <1>5, FracsEqual
<1> QED BY <1>2, <1>6

\* ... their sum and their difference.
LEMMA PlusFracs ==
  ASSUME NEW a \in Int, NEW b \in Int, b # 0, NEW c \in Int, NEW d \in Int, d # 0
  PROVE  /\ Plus(Frac(a, b), Frac(c, d)) = Frac(a * d + c * b, b * d)
         /\ Minus(Frac(a, b), Frac(c, d)) = Frac(a * d - c * b, b * d)
<1> DEFINE p == Frac(a, b)
           q == Frac(c, d)
           k == p[1]  l == p[2]  m == q[1]  n == q[2]
<1>1. p \in Fractions /\ q \in Fractions /\ k * b = a * l /\ m * d = c * n
  BY FracIsFraction
<1>2. /\ k \in Int /\ l \in Int /\ l # 0 /\ m \in Int /\ n \in Int /\ n # 0
      /\ Plus(p, q) = Frac(k * n + m * l, l * n)
      /\ Minus(p, q) = Frac(k * n - m * l, l * n)
  BY <1>1, FractionParts DEF Plus, Minus
<1> HIDE DEF k, l, m, n
<1>3. (k * n) * (b * d) = (a * d) * (l * n) /\ (m * l) * (b * d) = (c * b) * (l * n)
  <2>1. (k * n) * (b * d) = (k * b) * (n * d) /\ (m * l) * (b * d) = (m * d) * (b * l)
    BY <1>2
  <2>2. (a * l) * (n * d) = (a * d) * (l * n) /\ (c * n) * (b * l) = (c * b) * (l * n)
    BY <1>2
  <2> QED BY <1>1, <2>1, <2>2
<1>4. /\ l * n \in Int /\ l * n # 0 /\ b * d \in Int /\ b * d # 0
      /\ k * n \in Int /\ m * l \in Int /\ a * d \in Int /\ c * b \in Int
  BY <1>2, NonzeroProduct
<1> DEFINE K == k * n  M == m * l  A == a * d  C == c * b  L == l * n  B == b * d
<1>5. K * B = A * L /\ M * B = C * L
  BY <1>3
<1>6. L \in Int /\ L # 0 /\ B \in Int /\ B # 0 /\ K \in Int /\ M \in Int /\ A \in Int /\ C \in Int
  BY <1>4
<1> HIDE DEF K, M, A, C, L, B
<1>7. (K + M) * B = (A + C) * L /\ (K - M) * B = (A - C) * L
  BY <1>5, <1>6
<1>8. K + M \in Int /\ A + C \in Int /\ K - M \in Int /\ A - C \in Int
  BY <1>6
<1>9. Frac(K + M, L) = Frac(A + C, B) /\ Frac(K - M, L) = Frac(A - C, B)
  BY <1>6, <1>7, <1>8, FracsEqual
<1> QED BY <1>2, <1>9 DEF K, M, A, C, L, B

\* The size of a fraction.
LEMMA AbsWorks ==
  ASSUME NEW v \in Fractions
  PROVE  /\ AbsOf(v) \in Fractions
         /\ \A d, x : At(v, d, x) => At(AbsOf(v), d, IF x < 0 THEN -x ELSE x)
<1> DEFINE a == v[1]
           b == v[2]
           c == IF a < 0 THEN -a ELSE a
<1>1. a \in Int /\ b \in Nat \ {0} /\ Gcd[<<Abs(a), b>>] = 1
  BY FractionParts DEF Fractions
<1>2. AbsOf(v) = <<c, b>> /\ Abs(a) = c
  BY DEF AbsOf, Abs
<1> HIDE DEF a, b
<1>3. c \in Int /\ Abs(c) = c
  BY <1>1 DEF Abs
<1> HIDE DEF c
<1>4. AbsOf(v) \in Fractions
  BY <1>1, <1>2, <1>3 DEF Fractions
<1>5. AbsOf(v)[1] = c /\ AbsOf(v)[2] = b
  BY <1>2
<1>6. ASSUME NEW d, NEW x, At(v, d, x)
      PROVE  At(AbsOf(v), d, IF x < 0 THEN -x ELSE x)
  <2>1. d \in Nat \ {0} /\ x \in Int /\ a * d = x * b
    BY <1>6 DEF At, a, b
  <2>2. c = IF a < 0 THEN -a ELSE a
    BY DEF c
  <2>3. CASE x < 0
    <3>1. x * b < 0
      BY <1>1, <2>1, <2>3
    <3>2. a < 0
      <4>1. a >= 0 => a * d >= 0
        BY <1>1, <2>1
      <4> QED BY <1>1, <2>1, <3>1, <4>1
    <3>3. (-a) * d = (-x) * b
      BY <1>1, <2>1
    <3>4. c * d = (-x) * b
      BY <2>2, <3>2, <3>3
    <3>5. -x \in Int
      BY <2>1
    <3> QED BY <1>4, <1>5, <2>1, <2>3, <3>4, <3>5 DEF At
  <2>4. CASE x >= 0
    <3>1. x * b >= 0
      BY <1>1, <2>1, <2>4
    <3>2. a >= 0
      <4>1. a <= -1 => a * d <= (-1) * d
        BY <1>1, <2>1
      <4> QED BY <1>1, <2>1, <3>1, <4>1
    <3>3. c * d = x * b
      BY <1>1, <2>1, <2>2, <3>2
    <3> QED BY <1>4, <1>5, <2>1, <2>4, <3>3 DEF At
  <2> QED BY <2>1, <2>3, <2>4
<1> QED BY <1>4, <1>6

\* A factor that both have leaves a quotient alone, ...
LEMMA OverScales ==
  ASSUME NEW p \in Fractions, NEW q \in Fractions, q[1] # 0,
         NEW r \in Fractions, r[1] # 0
  PROVE  Over(Times(r, p), Times(r, q)) = Over(p, q)
<1> DEFINE a == p[1]  b == p[2]  c == q[1]  d == q[2]  e == r[1]  f == r[2]
<1>1. /\ a \in Int /\ b \in Int /\ b # 0 /\ c \in Int /\ c # 0 /\ d \in Int /\ d # 0
      /\ e \in Int /\ e # 0 /\ f \in Int /\ f # 0
  BY FractionParts
<1>2. /\ Times(r, p) = Frac(e * a, f * b) /\ Times(r, q) = Frac(e * c, f * d)
      /\ Over(p, q) = Frac(a * d, b * c)
  BY DEF Times, Over
<1> HIDE DEF a, b, c, d, e, f
<1>3. /\ e * a \in Int /\ f * b \in Int /\ f * b # 0 /\ e * c \in Int /\ e * c # 0
      /\ f * d \in Int /\ f * d # 0 /\ a * d \in Int /\ b * c \in Int /\ b * c # 0
  BY <1>1, NonzeroProduct
<1> DEFINE m == (e * a) * (f * d)
           n == (f * b) * (e * c)
<1>4. Over(Times(r, p), Times(r, q)) = Frac(m, n)
  <2> DEFINE A == e * a  B == f * b  C == e * c  D == f * d
  <2>1. A \in Int /\ B \in Int /\ B # 0 /\ C \in Int /\ D \in Int /\ D # 0 /\ C # 0
    BY <1>3
  <2> HIDE DEF A, B, C, D
  <2>2. Over(Frac(A, B), Frac(C, D)) = Frac(A * D, B * C)
    BY <2>1, OverFracs
  <2> QED BY <1>2, <2>2 DEF A, B, C, D
<1>5. m \in Int /\ n \in Int /\ n # 0
  BY <1>3, NonzeroProduct
<1>6. m * (b * c) = (a * d) * n
  BY <1>1
<1> HIDE DEF m, n
<1>7. Frac(m, n) = Frac(a * d, b * c)
  BY <1>3, <1>5, <1>6, FracsEqual
<1> QED BY <1>2, <1>4, <1>7

\* ... a factor may be divided out again, ...
LEMMA OverOfTimes ==
  ASSUME NEW p \in Fractions, NEW q \in Fractions, q[1] # 0
  PROVE  Over(Times(q, p), q) = p
<1> DEFINE a == p[1]  b == p[2]  c == q[1]  d == q[2]
<1>1. /\ a \in Int /\ b \in Int /\ b # 0 /\ c \in Int /\ c # 0 /\ d \in Int /\ d # 0
  BY FractionParts
<1>2. Times(q, p) = Frac(c * a, d * b) /\ q = Frac(c, d) /\ p = Frac(a, b)
  BY FracOfParts DEF Times
<1> HIDE DEF a, b, c, d
<1>3. c * a \in Int /\ d * b \in Int /\ d * b # 0
  BY <1>1, NonzeroProduct
<1> DEFINE m == (c * a) * d
           n == (d * b) * c
<1>4. Over(Frac(c * a, d * b), Frac(c, d)) = Frac(m, n)
  BY <1>1, <1>3, OverFracs
<1>5. m \in Int /\ n \in Int /\ n # 0
  BY <1>1, <1>3, NonzeroProduct
<1>6. m * b = a * n
  BY <1>1
<1> HIDE DEF m, n
<1>7. Frac(m, n) = Frac(a, b)
  BY <1>1, <1>5, <1>6, FracsEqual
<1> QED BY <1>2, <1>4, <1>7

\* ... and so may what is between two quotients.
LEMMA OverChain ==
  ASSUME NEW p \in Fractions, NEW q \in Fractions, q[1] # 0,
         NEW r \in Fractions, r[1] # 0
  PROVE  Times(Over(p, q), Over(q, r)) = Over(p, r)
<1> DEFINE a == p[1]  b == p[2]  c == q[1]  d == q[2]  e == r[1]  f == r[2]
<1>1. /\ a \in Int /\ b \in Int /\ b # 0 /\ c \in Int /\ c # 0 /\ d \in Int /\ d # 0
      /\ e \in Int /\ e # 0 /\ f \in Int /\ f # 0
  BY FractionParts
<1>2. /\ Over(p, q) = Frac(a * d, b * c) /\ Over(q, r) = Frac(c * f, d * e)
      /\ Over(p, r) = Frac(a * f, b * e)
  BY DEF Over
<1> HIDE DEF a, b, c, d, e, f
<1>3. /\ a * d \in Int /\ b * c \in Int /\ b * c # 0 /\ c * f \in Int
      /\ d * e \in Int /\ d * e # 0 /\ a * f \in Int /\ b * e \in Int /\ b * e # 0
  BY <1>1, NonzeroProduct
<1> DEFINE m == (a * d) * (c * f)
           n == (b * c) * (d * e)
<1>4. Times(Over(p, q), Over(q, r)) = Frac(m, n)
  <2> DEFINE A == a * d  B == b * c  C == c * f  D == d * e
  <2>1. A \in Int /\ B \in Int /\ B # 0 /\ C \in Int /\ D \in Int /\ D # 0
    BY <1>3
  <2> HIDE DEF A, B, C, D
  <2>2. Times(Frac(A, B), Frac(C, D)) = Frac(A * C, B * D)
    BY <2>1, TimesFracs
  <2> QED BY <1>2, <2>2 DEF A, B, C, D
<1>5. m \in Int /\ n \in Int /\ n # 0
  BY <1>3, NonzeroProduct
<1>6. m * (b * e) = (a * f) * n
  BY <1>1
<1> HIDE DEF m, n
<1>7. Frac(m, n) = Frac(a * f, b * e)
  BY <1>3, <1>5, <1>6, FracsEqual
<1> QED BY <1>2, <1>4, <1>7

\* Quotients by one number add up over it; ...
LEMMA OverAdds ==
  ASSUME NEW p \in Fractions, NEW q \in Fractions, NEW r \in Fractions, r[1] # 0
  PROVE  Over(Plus(p, q), r) = Plus(Over(p, r), Over(q, r))
<1> DEFINE a == p[1]  b == p[2]  c == q[1]  d == q[2]  e == r[1]  f == r[2]
<1>1. /\ a \in Int /\ b \in Int /\ b # 0 /\ c \in Int /\ d \in Int /\ d # 0
      /\ e \in Int /\ e # 0 /\ f \in Int /\ f # 0
  BY FractionParts
<1>2. /\ Over(p, r) = Frac(a * f, b * e) /\ Over(q, r) = Frac(c * f, d * e)
      /\ Plus(p, q) = Frac(a * d + c * b, b * d) /\ r = Frac(e, f)
  BY FracOfParts DEF Over, Plus
<1> HIDE DEF a, b, c, d, e, f
<1>3. /\ a * f \in Int /\ b * e \in Int /\ b * e # 0 /\ c * f \in Int
      /\ d * e \in Int /\ d * e # 0 /\ a * d + c * b \in Int /\ b * d \in Int /\ b * d # 0
  BY <1>1, NonzeroProduct
<1> DEFINE m == (a * f) * (d * e) + (c * f) * (b * e)
           n == (b * e) * (d * e)
           k == (a * d + c * b) * f
           l == (b * d) * e
<1>4. Plus(Over(p, r), Over(q, r)) = Frac(m, n)
  <2> DEFINE A == a * f  B == b * e  C == c * f  D == d * e
  <2>1. A \in Int /\ B \in Int /\ B # 0 /\ C \in Int /\ D \in Int /\ D # 0
    BY <1>3
  <2> HIDE DEF A, B, C, D
  <2>2. Plus(Frac(A, B), Frac(C, D)) = Frac(A * D + C * B, B * D)
    BY <2>1, PlusFracs
  <2> QED BY <1>2, <2>2 DEF A, B, C, D
<1>5. Over(Plus(p, q), r) = Frac(k, l)
  BY <1>1, <1>2, <1>3, OverFracs
<1>6. n \in Int /\ n # 0 /\ l \in Int /\ l # 0
  BY <1>1, <1>3, NonzeroProduct
<1>7. m \in Int /\ k \in Int
  BY <1>1
<1>8. k * n = m * l
  <2>1. n = l * e
    BY <1>1
  <2>2. k * e = m
    BY <1>1
  <2>3. k * (l * e) = (k * e) * l
    BY <1>1, <1>6, <1>7
  <2> QED BY <2>1, <2>2, <2>3
<1> HIDE DEF m, n, k, l
<1>9. Frac(k, l) = Frac(m, n)
  BY <1>6, <1>7, <1>8, FracsEqual
<1> QED BY <1>4, <1>5, <1>9

\* ... a number goes once into itself; ...
LEMMA OverSelf ==
  ASSUME NEW p \in Fractions, p[1] # 0
  PROVE  Over(p, p) = Whole(1)
<1> DEFINE a == p[1]  b == p[2]
<1>1. a \in Int /\ a # 0 /\ b \in Int /\ b # 0 /\ Over(p, p) = Frac(a * b, b * a)
  BY FractionParts DEF Over
<1> HIDE DEF a, b
<1>2. a * b \in Int /\ b * a \in Int /\ b * a # 0 /\ 1 * (b * a) = (a * b) * 1
  BY <1>1, NonzeroProduct
<1>3. Whole(1) = Frac(a * b, b * a)
  BY <1>2, WholeIsFraction, IsFrac
<1> QED BY <1>1, <1>3

\* ... and a product of a sum or a difference is one of products.
LEMMA TimesDistributes ==
  ASSUME NEW p \in Fractions, NEW q \in Fractions, NEW r \in Fractions
  PROVE  /\ Times(Plus(p, q), r) = Plus(Times(p, r), Times(q, r))
         /\ Times(Minus(p, q), r) = Minus(Times(p, r), Times(q, r))
<1> DEFINE a == p[1]  b == p[2]  c == q[1]  d == q[2]  e == r[1]  f == r[2]
<1>1. /\ a \in Int /\ b \in Int /\ b # 0 /\ c \in Int /\ d \in Int /\ d # 0
      /\ e \in Int /\ f \in Int /\ f # 0
  BY FractionParts
<1>2. /\ Times(p, r) = Frac(a * e, b * f) /\ Times(q, r) = Frac(c * e, d * f)
      /\ Plus(p, q) = Frac(a * d + c * b, b * d) /\ r = Frac(e, f)
      /\ Minus(p, q) = Frac(a * d - c * b, b * d)
  BY FracOfParts DEF Times, Plus, Minus
<1> HIDE DEF a, b, c, d, e, f
<1>3. /\ a * e \in Int /\ b * f \in Int /\ b * f # 0 /\ c * e \in Int
      /\ d * f \in Int /\ d * f # 0 /\ a * d + c * b \in Int /\ a * d - c * b \in Int
      /\ b * d \in Int /\ b * d # 0
  BY <1>1, NonzeroProduct
<1> DEFINE m == (a * e) * (d * f)
           o == (c * e) * (b * f)
           n == (b * f) * (d * f)
           k == (a * d + c * b) * e
           j == (a * d - c * b) * e
           l == (b * d) * f
<1>4. /\ Plus(Times(p, r), Times(q, r)) = Frac(m + o, n)
      /\ Minus(Times(p, r), Times(q, r)) = Frac(m - o, n)
  <2> DEFINE A == a * e  B == b * f  C == c * e  D == d * f
  <2>1. A \in Int /\ B \in Int /\ B # 0 /\ C \in Int /\ D \in Int /\ D # 0
    BY <1>3
  <2> HIDE DEF A, B, C, D
  <2>2. /\ Plus(Frac(A, B), Frac(C, D)) = Frac(A * D + C * B, B * D)
        /\ Minus(Frac(A, B), Frac(C, D)) = Frac(A * D - C * B, B * D)
    BY <2>1, PlusFracs
  <2> QED BY <1>2, <2>2 DEF A, B, C, D
<1>5. Times(Plus(p, q), r) = Frac(k, l) /\ Times(Minus(p, q), r) = Frac(j, l)
  BY <1>1, <1>2, <1>3, TimesFracs
<1>6. n \in Int /\ n # 0 /\ l \in Int /\ l # 0
  BY <1>1, <1>3, NonzeroProduct
<1>7. m \in Int /\ o \in Int /\ k \in Int /\ j \in Int /\ m + o \in Int /\ m - o \in Int
  BY <1>1
<1>8. n = l * f /\ k * f = m + o /\ j * f = m - o
  BY <1>1
<1> HIDE DEF m, n, k, l, o, j
<1>9. k * n = (m + o) * l /\ j * n = (m - o) * l
  <2>1. k * (l * f) = (k * f) * l /\ j * (l * f) = (j * f) * l
    BY <1>1, <1>6, <1>7
  <2> QED BY <1>8, <2>1
<1>10. Frac(k, l) = Frac(m + o, n) /\ Frac(j, l) = Frac(m - o, n)
  BY <1>6, <1>7, <1>9, FracsEqual
<1> QED BY <1>4, <1>5, <1>10

(***************************************************************************)
(* Nearness                                                                *)
(***************************************************************************)
\* p and q are at most s apart.
IsWithin(p, q, s) == /\ p \in Fractions /\ q \in Fractions /\ s \in Fractions
                 /\ Leq(AbsOf(Minus(p, q)), s)

\* Over a common denominator that is about the numerators.
LEMMA NearAt ==
  ASSUME NEW p, NEW q, NEW s, NEW d, NEW x, NEW y, NEW z,
         At(p, d, x), At(q, d, y), At(s, d, z)
  PROVE  IsWithin(p, q, s) <=> (x - y <= z /\ y - x <= z)
<1> DEFINE w == x - y
           r == Minus(p, q)
<1>1. At(r, d, w)
  BY AtPlus
<1>2. /\ x \in Int /\ y \in Int /\ z \in Int /\ w \in Int
      /\ p \in Fractions /\ q \in Fractions /\ s \in Fractions /\ r \in Fractions
  BY <1>1 DEF At
<1>3. w = x - y
  OBVIOUS
<1> HIDE DEF w
<1>4. At(AbsOf(r), d, IF w < 0 THEN -w ELSE w)
  BY <1>1, <1>2, AbsWorks
<1>5. Leq(AbsOf(r), s) <=> (IF w < 0 THEN -w ELSE w) <= z
  BY <1>4, AtLeq
<1>6. (IF w < 0 THEN -w ELSE w) <= z <=> (x - y <= z /\ y - x <= z)
  BY <1>2, <1>3
<1>7. IsWithin(p, q, s) <=> Leq(AbsOf(r), s)
  BY <1>2 DEF IsWithin
<1> QED BY <1>5, <1>6, <1>7

\* Six fractions have a denominator in common.
SixAt(p, q, r, t, u, v, d, x, y, z, k, l, m) ==
  /\ At(p, d, x) /\ At(q, d, y) /\ At(r, d, z)
  /\ At(t, d, k) /\ At(u, d, l) /\ At(v, d, m)

\* They are those of the first three times those of the others.
LEMMA SixExist ==
  ASSUME NEW p \in Fractions, NEW q \in Fractions, NEW r \in Fractions,
         NEW t \in Fractions, NEW u \in Fractions, NEW v \in Fractions
  PROVE  \E d \in Nat \ {0}, x, y, z, k, l, m \in Int :
           SixAt(p, q, r, t, u, v, d, x, y, z, k, l, m)
<1>1. PICK d \in Nat \ {0}, x \in Int, y \in Int, z \in Int :
        At(p, d, x) /\ At(q, d, y) /\ At(r, d, z)
  BY AtExists
<1>2. PICK e \in Nat \ {0}, k \in Int, l \in Int, m \in Int :
        At(t, e, k) /\ At(u, e, l) /\ At(v, e, m)
  BY AtExists
<1>3. At(p, d * e, x * e) /\ At(q, d * e, y * e) /\ At(r, d * e, z * e)
  BY <1>1, AtScales
<1>4. At(t, e * d, k * d) /\ At(u, e * d, l * d) /\ At(v, e * d, m * d)
  BY <1>2, AtScales
<1>5. d * e = e * d /\ d * e \in Nat \ {0}
  BY PositiveProduct
<1>6. x * e \in Int /\ y * e \in Int /\ z * e \in Int /\ k * d \in Int /\ l * d \in Int /\ m * d \in Int
  OBVIOUS
<1>7. SixAt(p, q, r, t, u, v, d * e, x * e, y * e, z * e, k * d, l * d, m * d)
  BY <1>3, <1>4, <1>5 DEF SixAt
<1> QED BY <1>5, <1>6, <1>7

\* Sums of what is near are near, ...
LEMMA NearSums ==
  ASSUME NEW p, NEW q, NEW s, IsWithin(p, q, s), NEW u, NEW v, NEW t, IsWithin(u, v, t)
  PROVE  IsWithin(Plus(p, u), Plus(q, v), Plus(s, t))
<1>1. /\ p \in Fractions /\ q \in Fractions /\ s \in Fractions
      /\ u \in Fractions /\ v \in Fractions /\ t \in Fractions
  BY DEF IsWithin
<1>2. PICK d \in Nat \ {0}, x \in Int, y \in Int, z \in Int, k \in Int, l \in Int, m \in Int :
        SixAt(p, q, s, u, v, t, d, x, y, z, k, l, m)
  BY <1>1, SixExist
<1>3. /\ At(p, d, x) /\ At(q, d, y) /\ At(s, d, z)
      /\ At(u, d, k) /\ At(v, d, l) /\ At(t, d, m)
  BY <1>2 DEF SixAt
<1>4. x - y <= z /\ y - x <= z /\ k - l <= m /\ l - k <= m
  BY <1>3, NearAt
<1>5. At(Plus(p, u), d, x + k) /\ At(Plus(q, v), d, y + l) /\ At(Plus(s, t), d, z + m)
  BY <1>3, AtPlus
<1>6. (x + k) - (y + l) <= z + m /\ (y + l) - (x + k) <= z + m
  BY <1>4
<1> QED BY <1>5, <1>6, NearAt

\* ... what is near to what is near is not far, ...
LEMMA NearChain ==
  ASSUME NEW p, NEW q, NEW s, IsWithin(p, q, s), NEW r, NEW t, IsWithin(q, r, t)
  PROVE  IsWithin(p, r, Plus(s, t))
<1>1. /\ p \in Fractions /\ q \in Fractions /\ s \in Fractions
      /\ r \in Fractions /\ t \in Fractions
  BY DEF IsWithin
<1>2. PICK d \in Nat \ {0}, x \in Int, y \in Int, z \in Int, k \in Int, l \in Int, m \in Int :
        SixAt(p, q, s, r, t, t, d, x, y, z, k, l, m)
  BY <1>1, SixExist
<1>3. /\ At(p, d, x) /\ At(q, d, y) /\ At(s, d, z) /\ At(r, d, k) /\ At(t, d, l)
  BY <1>2 DEF SixAt
<1>4. x - y <= z /\ y - x <= z /\ y - k <= l /\ k - y <= l
  BY <1>3, NearAt
<1>5. At(Plus(s, t), d, z + l)
  BY <1>3, AtPlus
<1>6. x - k <= z + l /\ k - x <= z + l
  BY <1>4
<1> QED BY <1>3, <1>5, <1>6, NearAt

\* ... in either direction, ...
LEMMA NearSwaps ==
  ASSUME NEW p, NEW q, NEW s, IsWithin(p, q, s)
  PROVE  IsWithin(q, p, s)
<1>1. p \in Fractions /\ q \in Fractions /\ s \in Fractions
  BY DEF IsWithin
<1>2. PICK d \in Nat \ {0}, x \in Int, y \in Int, z \in Int :
        At(p, d, x) /\ At(q, d, y) /\ At(s, d, z)
  BY <1>1, AtExists
<1>3. x - y <= z /\ y - x <= z
  BY <1>2, NearAt
<1> QED BY <1>2, <1>3, NearAt

\* ... also for one who allows more, ...
LEMMA NearGrows ==
  ASSUME NEW p, NEW q, NEW s, IsWithin(p, q, s), NEW t \in Fractions, Leq(s, t)
  PROVE  IsWithin(p, q, t)
<1> DEFINE a == AbsOf(Minus(p, q))
<1>1. p \in Fractions /\ q \in Fractions /\ s \in Fractions /\ Leq(a, s)
  BY DEF IsWithin
<1>2. a \in Fractions
  BY <1>1, MinusIsFraction, AbsWorks
<1>3. Leq(a, t)
  BY <1>1, <1>2, LeqIsAnOrder
<1> QED BY <1>1, <1>3 DEF IsWithin

\* ... when both are moved by the same, ...
LEMMA NearShifts ==
  ASSUME NEW p, NEW q, NEW s, IsWithin(p, q, s), NEW r \in Fractions
  PROVE  IsWithin(Minus(p, r), Minus(q, r), s)
<1>1. p \in Fractions /\ q \in Fractions /\ s \in Fractions
  BY DEF IsWithin
<1>2. PICK d \in Nat \ {0}, x \in Int, y \in Int, z \in Int, k \in Int, l \in Int, m \in Int :
        SixAt(p, q, s, r, r, r, d, x, y, z, k, l, m)
  BY <1>1, SixExist
<1>3. At(p, d, x) /\ At(q, d, y) /\ At(s, d, z) /\ At(r, d, k)
  BY <1>2 DEF SixAt
<1>4. x - y <= z /\ y - x <= z
  BY <1>3, NearAt
<1>5. At(Minus(p, r), d, x - k) /\ At(Minus(q, r), d, y - k)
  BY <1>3, AtPlus
<1>6. (x - k) - (y - k) <= z /\ (y - k) - (x - k) <= z
  BY <1>4
<1> QED BY <1>3, <1>5, <1>6, NearAt

\* ... and, so many times as far, when both are multiplied.
LEMMA NearTimes ==
  ASSUME NEW p, NEW q, NEW s, IsWithin(p, q, s), NEW r \in Fractions
  PROVE  IsWithin(Times(p, r), Times(q, r), Times(s, AbsOf(r)))
<1>1. p \in Fractions /\ q \in Fractions /\ s \in Fractions
  BY DEF IsWithin
<1>2. PICK d \in Nat \ {0}, x \in Int, y \in Int, z \in Int :
        At(p, d, x) /\ At(q, d, y) /\ At(s, d, z)
  BY <1>1, AtExists
<1>3. x - y <= z /\ y - x <= z
  BY <1>2, NearAt
<1>4. PICK e \in Nat \ {0}, w \in Int : At(r, e, w)
  BY AtExists
<1> DEFINE a == IF w < 0 THEN -w ELSE w
<1>5. At(AbsOf(r), e, a)
  BY <1>4, AbsWorks
<1>6. a \in Int /\ a = IF w < 0 THEN -w ELSE w
  BY <1>4
<1> HIDE DEF a
<1>7. /\ At(Times(p, r), d * e, x * w) /\ At(Times(q, r), d * e, y * w)
      /\ At(Times(s, AbsOf(r)), d * e, z * a)
  BY <1>2, <1>4, <1>5, AtTimes
<1>8. x * w - y * w <= z * a /\ y * w - x * w <= z * a
  <2>1. x * w - y * w = (x - y) * w /\ y * w - x * w = (y - x) * w
    BY <1>2, <1>4
  <2>2. CASE w >= 0
    <3>1. a = w
      BY <1>4, <1>6, <2>2
    <3>2. (x - y) * w <= z * w /\ (y - x) * w <= z * w
      BY <1>2, <1>3, <1>4, <2>2
    <3> QED BY <2>1, <3>1, <3>2
  <2>3. CASE w < 0
    <3>1. a = -w /\ a \in Nat
      BY <1>4, <1>6, <2>3
    <3>2. (x - y) * a <= z * a /\ (y - x) * a <= z * a
      BY <1>2, <1>3, <3>1
    <3>3. (x - y) * a = (y - x) * w /\ (y - x) * a = (x - y) * w
      BY <1>2, <1>4, <3>1
    <3> QED BY <2>1, <3>2, <3>3
  <2> QED BY <1>4, <2>2, <2>3
<1> DEFINE X == x * w  Y == y * w  Z == z * a
<1>9. At(Times(p, r), d * e, X) /\ At(Times(q, r), d * e, Y) /\ At(Times(s, AbsOf(r)), d * e, Z)
  BY <1>7
<1>10. X - Y <= Z /\ Y - X <= Z
  BY <1>8
<1> HIDE DEF X, Y, Z
<1> QED BY <1>9, <1>10, NearAt

\* Totals of what is near are near.
LEMMA TotalNear ==
  ASSUME NEW S, IsFiniteSet(S), NEW f, NEW g, NEW h,
         DOMAIN f = S, DOMAIN g = S, DOMAIN h = S,
         \A x \in S : IsWithin(f[x], g[x], h[x])
  PROVE  IsWithin(Total(f), Total(g), Total(h))
<1> DEFINE Nears(T, a, b, c) ==
             /\ IsFiniteSet(T) /\ DOMAIN a = T /\ DOMAIN b = T /\ DOMAIN c = T
             /\ \A x \in T : IsWithin(a[x], b[x], c[x])
           N == {n \in Nat : \A T, a, b, c :
                   Nears(T, a, b, c) /\ Cardinality(T) = n =>
                     IsWithin(Total(a), Total(b), Total(c))}
<1>1. 0 \in N
  <2>1. IsWithin(Zero, Zero, Zero)
    <3>1. At(Zero, 1, 0)
      BY ZeroIsFraction DEF At
    <3> QED BY <3>1, NearAt
  <2>2. ASSUME NEW T, NEW a, NEW b, NEW c, Nears(T, a, b, c), Cardinality(T) = 0
        PROVE  IsWithin(Total(a), Total(b), Total(c))
    <3>1. T = {}
      BY <2>2, FS_EmptySet
    <3>2. Total(a) = Zero /\ Total(b) = Zero /\ Total(c) = Zero
      BY <2>2, <3>1, TotalOfNone
    <3> QED BY <2>1, <3>2
  <2> QED BY <2>2
<1>2. ASSUME NEW n \in Nat, n \in N PROVE n + 1 \in N
  <2>1. SUFFICES ASSUME NEW T, NEW a, NEW b, NEW c, Nears(T, a, b, c), Cardinality(T) = n + 1
                 PROVE  IsWithin(Total(a), Total(b), Total(c))
    OBVIOUS
  <2>2. PICK x \in T : TRUE
    BY <2>1, FS_EmptySet
  <2> DEFINE U  == T \ {x}
             a1 == Without(a, T, x)
             b1 == Without(b, T, x)
             c1 == Without(c, T, x)
  <2>3. IsFiniteSet(U) /\ Cardinality(U) = n
    BY <2>1, <2>2, OneLess
  <2>4. Nears(U, a1, b1, c1)
    BY <2>1, <2>3 DEF Without
  <2>5. \A y \in T : a[y] \in Fractions /\ b[y] \in Fractions /\ c[y] \in Fractions
    BY <2>1 DEF IsWithin
  <2>6. /\ Total(a) = Plus(a[x], Total(a1)) /\ Total(b) = Plus(b[x], Total(b1))
        /\ Total(c) = Plus(c[x], Total(c1)) /\ IsWithin(a[x], b[x], c[x])
    BY <2>1, <2>2, <2>5, TotalTakesAny
  <2> HIDE DEF a1, b1, c1, U, Nears
  <2>7. IsWithin(Total(a1), Total(b1), Total(c1))
    BY <1>2, <2>3, <2>4
  <2> QED BY <2>6, <2>7, NearSums
<1>3. Cardinality(S) \in N
  <2> HIDE DEF N
  <2> QED BY <1>1, <1>2, NatBySets, FS_CardinalityType
<1> QED BY <1>3

\* What is near is not more than the distance above.
LEMMA NearIsBelow ==
  ASSUME NEW p, NEW q, NEW s, IsWithin(p, q, s)
  PROVE  Leq(q, Plus(p, s))
<1>1. p \in Fractions /\ q \in Fractions /\ s \in Fractions
  BY DEF IsWithin
<1>2. PICK d \in Nat \ {0}, x \in Int, y \in Int, z \in Int :
        At(p, d, x) /\ At(q, d, y) /\ At(s, d, z)
  BY <1>1, AtExists
<1>3. y - x <= z
  BY <1>2, NearAt
<1>4. At(Plus(p, s), d, x + z)
  BY <1>2, AtPlus
<1>5. y <= x + z
  BY <1>3
<1> QED BY <1>2, <1>4, <1>5, AtLeq

\* A product in either order is the same ...
LEMMA TimesCommutes ==
  ASSUME NEW p \in Fractions, NEW q \in Fractions
  PROVE  Times(p, q) = Times(q, p)
<1>1. p[1] \in Int /\ p[2] \in Int /\ q[1] \in Int /\ q[2] \in Int
  BY FractionParts
<1>2. p[1] * q[1] = q[1] * p[1] /\ p[2] * q[2] = q[2] * p[2]
  BY <1>1
<1> QED BY <1>2 DEF Times

\* ... and is not less for what is not less.
LEMMA TimesKeepsOrder ==
  ASSUME NEW p \in Fractions, NEW q \in Fractions, Leq(p, q), NEW r, NotBelow(r)
  PROVE  Leq(Times(p, r), Times(q, r))
<1>1. PICK d \in Nat \ {0}, x \in Int, y \in Int : At(p, d, x) /\ At(q, d, y)
  BY AtExists
<1> DEFINE w == r[1]
           e == r[2]
<1>2. At(r, e, w) /\ w \in Nat
  <2>1. r \in Fractions /\ w \in Int /\ e \in Nat \ {0} /\ w >= 0
    BY FractionParts DEF NotBelow
  <2> QED BY <2>1 DEF At
<1> HIDE DEF w, e
<1>3. x <= y
  BY <1>1, AtLeq
<1> DEFINE X == x * w  Y == y * w
<1>4. At(Times(p, r), d * e, X) /\ At(Times(q, r), d * e, Y)
  BY <1>1, <1>2, AtTimes
<1>5. X <= Y
  BY <1>1, <1>2, <1>3
<1> HIDE DEF X, Y
<1> QED BY <1>4, <1>5, AtLeq

\* A quotient times its divisor is the dividend.
LEMMA TimesOfQuotient ==
  ASSUME NEW p \in Fractions, NEW q \in Fractions, q[1] # 0
  PROVE  Times(Over(p, q), q) = p
<1> DEFINE a == p[1]  b == p[2]  c == q[1]  d == q[2]
<1>1. /\ a \in Int /\ b \in Int /\ b # 0 /\ c \in Int /\ c # 0 /\ d \in Int /\ d # 0
  BY FractionParts
<1>2. Over(p, q) = Frac(a * d, b * c) /\ q = Frac(c, d) /\ p = Frac(a, b)
  BY FracOfParts DEF Over
<1> HIDE DEF a, b, c, d
<1> DEFINE A == a * d  B == b * c
           m == A * c
           n == B * d
<1>3. A \in Int /\ B \in Int /\ B # 0
  BY <1>1, NonzeroProduct
<1>4. n \in Int /\ n # 0 /\ m \in Int
  BY <1>1, <1>3, NonzeroProduct
<1>5. m * b = a * n
  BY <1>1
<1>6. Over(p, q) = Frac(A, B)
  BY <1>2
<1> HIDE DEF A, B
<1>7. Times(Frac(A, B), Frac(c, d)) = Frac(m, n)
  BY <1>1, <1>3, TimesFracs
<1> HIDE DEF m, n
<1>8. Frac(m, n) = Frac(a, b)
  BY <1>1, <1>4, <1>5, FracsEqual
<1> QED BY <1>2, <1>6, <1>7, <1>8

HalfOf(s) == Frac(1, 2 * s)

\* Half a unit is above zero.
LEMMA HalfIsAbove ==
  ASSUME NEW s \in Nat \ {0}
  PROVE  HalfOf(s) \in Fractions /\ NotBelow(HalfOf(s))
<1>1. 2 * s \in Nat \ {0} /\ 1 \in Int /\ 1 > 0
  OBVIOUS
<1>2. Above(Frac(1, 2 * s))
  BY <1>1, FracIsAbove
<1> DEFINE f == Frac(1, 2 * s)
<1>3. f \in Fractions /\ f[1] > 0
  BY <1>2 DEF Above
<1> HIDE DEF f
<1>4. f[1] \in Int
  BY <1>3, FractionParts
<1>5. NotBelow(f)
  BY <1>3, <1>4 DEF NotBelow
<1> QED BY <1>3, <1>5 DEF HalfOf, f

\* What a rounded price times a rounded number of units may miss of the
\* rounded money.
MayMiss(k, e, s, t) ==
  Plus(HalfOf(s), Plus(Times(Plus(k, HalfOf(s)), HalfOf(t)), Times(HalfOf(s), AbsOf(e))))

\* It misses no more.
LEMMA PriceTimesUse ==
  ASSUME NEW C \in Fractions, NEW K, Above(K), NEW s \in Nat \ {0}, NEW t \in Nat \ {0},
         NEW c, c = Rounded(C, s), NEW k, k = Rounded(K, s),
         NEW e, e = Rounded(Over(C, K), t)
  PROVE  IsWithin(Times(e, k), c, MayMiss(k, e, s, t))
<1> DEFINE hM == HalfOf(s)
           hP == HalfOf(t)
           q  == Over(C, K)
<1>1. K \in Fractions /\ K[1] # 0 /\ AbsOf(K) = K
  <2>1. K \in Fractions /\ K[1] > 0 /\ K = <<K[1], K[2]>>
    BY FractionParts DEF Above
  <2>2. K[1] \in Int
    BY <2>1, FractionParts
  <2>3. AbsOf(K) = <<K[1], K[2]>>
    BY <2>1, <2>2 DEF AbsOf, Abs
  <2> QED BY <2>1, <2>2, <2>3
<1>2. q \in Fractions
  BY <1>1, OverIsFraction
<1>3. hM \in Fractions /\ NotBelow(hM) /\ hP \in Fractions /\ NotBelow(hP)
  BY HalfIsAbove
<1> HIDE DEF hM, hP
<1>4. IsWithin(c, C, hM) /\ IsWithin(k, K, hM) /\ IsWithin(e, q, hP)
  <2>1. /\ c \in Fractions /\ Leq(AbsOf(Minus(c, C)), hM)
        /\ k \in Fractions /\ Leq(AbsOf(Minus(k, K)), hM)
        /\ e \in Fractions /\ Leq(AbsOf(Minus(e, q)), hP)
    BY <1>1, <1>2, RoundedIsNear DEF hM, hP, HalfOf
  <2> QED BY <1>1, <1>2, <1>3, <2>1 DEF IsWithin
<1>5. c \in Fractions /\ k \in Fractions /\ e \in Fractions
  BY <1>4 DEF IsWithin
<1>6. Times(q, K) = C
  BY <1>1, TimesOfQuotient
<1> HIDE DEF q
<1> DEFINE A == Times(hM, AbsOf(e))
           B == Times(hP, K)
           D == Times(Plus(k, hM), hP)
<1>7. IsWithin(Times(k, e), Times(K, e), A) /\ IsWithin(Times(e, K), C, B)
  BY <1>1, <1>4, <1>5, <1>6, NearTimes
<1>8. Times(k, e) = Times(e, k) /\ Times(K, e) = Times(e, K)
  BY <1>1, <1>5, TimesCommutes
<1>9. IsWithin(C, c, hM)
  BY <1>4, NearSwaps
<1>10. A \in Fractions /\ B \in Fractions
  BY <1>7 DEF IsWithin
<1>11. D \in Fractions
  BY <1>3, <1>5, PlusIsFraction, TimesIsFraction
<1>12. Leq(B, D)
  <2>1. Leq(K, Plus(k, hM)) /\ Plus(k, hM) \in Fractions
    BY <1>3, <1>4, <1>5, NearIsBelow, PlusIsFraction
  <2>2. Leq(Times(K, hP), D)
    BY <1>1, <1>3, <2>1, TimesKeepsOrder
  <2> QED BY <1>1, <1>3, <2>2, TimesCommutes
<1> HIDE DEF A, B, D
<1>13. IsWithin(Times(e, k), C, Plus(A, B))
  BY <1>7, <1>8, NearChain
<1>14. IsWithin(Times(e, k), c, Plus(Plus(A, B), hM))
  BY <1>9, <1>13, NearChain
<1> DEFINE u == Plus(Plus(A, B), hM)
           v == Plus(hM, Plus(D, A))
<1>15. v \in Fractions /\ Leq(u, v)
  <2>1. PICK d \in Nat \ {0}, x \in Int, y \in Int, z \in Int, i \in Int, j \in Int, m \in Int :
          SixAt(A, B, D, hM, hM, hM, d, x, y, z, i, j, m)
    BY <1>3, <1>10, <1>11, SixExist
  <2>2. At(A, d, x) /\ At(B, d, y) /\ At(D, d, z) /\ At(hM, d, i)
    BY <2>1 DEF SixAt
  <2>3. y <= z
    BY <1>12, <2>2, AtLeq
  <2>4. At(Plus(A, B), d, x + y) /\ At(Plus(D, A), d, z + x)
    BY <2>2, AtPlus
  <2>5. At(u, d, (x + y) + i) /\ At(v, d, i + (z + x))
    BY <2>2, <2>4, AtPlus
  <2>6. (x + y) + i <= i + (z + x)
    BY <2>3
  <2> QED BY <2>5, <2>6, AtLeq DEF At
<1>16. IsWithin(Times(e, k), c, v)
  BY <1>14, <1>15, NearGrows
<1> QED BY <1>16 DEF MayMiss, A, D, hM, hP

\* A multiple of 1 / s is so many of them.
LEMMA GridIsAt ==
  ASSUME NEW s \in Nat \ {0}, NEW p
  PROVE  OnGrid(p, s) <=> \E k \in Int : At(p, s, k)
BY DEF OnGrid, At

\* The difference of two multiples is one.
LEMMA MinusOnGrid ==
  ASSUME NEW s \in Nat \ {0}, NEW p, OnGrid(p, s), NEW q, OnGrid(q, s)
  PROVE  OnGrid(Minus(p, q), s)
<1>1. PICK k \in Int, l \in Int : At(p, s, k) /\ At(q, s, l)
  BY GridIsAt
<1> DEFINE j == k - l
<1>2. At(Minus(p, q), s, j)
  BY <1>1, AtPlus
<1>3. j \in Int
  OBVIOUS
<1> HIDE DEF j
<1> QED BY <1>2, <1>3, GridIsAt

\* What is taken away and added again.
LEMMA PlusOfMinus ==
  ASSUME NEW p \in Fractions, NEW q \in Fractions
  PROVE  Plus(Minus(p, q), q) = p
<1>1. PICK d \in Nat \ {0}, x \in Int, y \in Int : At(p, d, x) /\ At(q, d, y)
  BY AtExists
<1>2. At(Plus(Minus(p, q), q), d, (x - y) + y)
  BY <1>1, AtPlus
<1>3. (x - y) + y = x
  OBVIOUS
<1> QED BY <1>1, <1>2, <1>3, AtLeq

\* How far a multiple less a number, rounded, is from the multiple less the
\* rounded number.
RoundedApart(g, e, s) == Minus(Rounded(Minus(g, e), s), Minus(g, Rounded(e, s)))

\* The two are the same or, when the number is half way, a unit apart.
LEMMA RestsAreNear ==
  ASSUME NEW s \in Nat \ {0}, NEW g, OnGrid(g, s), NEW e \in Fractions
  PROVE  \/ RoundedApart(g, e, s) = Zero
         \/ /\ Rounded(e, s) # e /\ OnGrid(Times(Whole(2), e), s)
            /\ AbsOf(RoundedApart(g, e, s)) = Frac(1, s)
<1> DEFINE r == Rounded(e, s)
           f == Minus(g, e)
           o == Rounded(f, s)
           w == RoundedApart(g, e, s)
           d == e[2]
           D == s * (2 * d)
           x == e[1] * (2 * s)
<1>1. g \in Fractions /\ f \in Fractions /\ d \in Nat \ {0} /\ e[1] \in Int
  BY MinusIsFraction, FractionParts DEF OnGrid
<1>2. /\ OnGrid(r, s) /\ OnGrid(o, s)
      /\ IsWithin(r, e, HalfOf(s)) /\ IsWithin(o, f, HalfOf(s))
  BY <1>1, RoundedOnGrid, RoundedIsNear, HalfIsAbove DEF IsWithin, HalfOf
<1> HIDE DEF r, o, d
<1>3. PICK G \in Int, A \in Int, B \in Int : At(g, s, G) /\ At(r, s, A) /\ At(o, s, B)
  BY <1>2, GridIsAt
<1> DEFINE c == 2 * d
<1>4. D \in Nat \ {0} /\ c \in Nat \ {0} /\ x \in Int
  BY <1>1, PositiveProduct
<1>5. At(g, D, G * c) /\ At(r, D, A * c) /\ At(o, D, B * c)
  BY <1>3, <1>4, AtScales
<1>6. At(e, D, x)
  <2>1. At(e, d, e[1])
    BY <1>1 DEF At, d
  <2>2. 2 * s \in Nat \ {0}
    OBVIOUS
  <2>3. At(e, d * (2 * s), x)
    BY <2>1, <2>2, AtScales
  <2>4. d * (2 * s) = D
    BY <1>1
  <2> QED BY <2>3, <2>4
<1>7. At(HalfOf(s), D, d)
  <2>1. 2 * s \in Nat \ {0} /\ 1 \in Int
    OBVIOUS
  <2>2. At(HalfOf(s), 2 * s, 1)
    BY <2>1, AtFrac DEF HalfOf
  <2>3. At(HalfOf(s), (2 * s) * d, 1 * d)
    BY <1>1, <2>2, AtScales
  <2>4. (2 * s) * d = D /\ 1 * d = d
    BY <1>1
  <2> QED BY <2>3, <2>4
<1> DEFINE gc == G * c  ac == A * c  bc == B * c
<1>8. At(g, D, gc) /\ At(r, D, ac) /\ At(o, D, bc)
  BY <1>5
<1>9. gc \in Int /\ ac \in Int /\ bc \in Int
  BY <1>3, <1>4
<1>10. (A + B - G) * c = ac + bc - gc
  BY <1>3, <1>4
<1>11. c = d + d
  BY <1>1
<1> HIDE DEF D, x, c, gc, ac, bc
<1>12. At(f, D, gc - x)
  BY <1>6, <1>8, AtPlus
<1>13. ac - x <= d /\ x - ac <= d
  BY <1>2, <1>6, <1>7, <1>8, NearAt
<1>14. bc - (gc - x) <= d /\ (gc - x) - bc <= d
  BY <1>2, <1>7, <1>8, <1>12, NearAt
<1> DEFINE K == A + B - G
<1>15. K \in Int /\ K * c = ac + bc - gc
  BY <1>3, <1>10
<1>16. At(w, s, K)
  <2>1. At(Minus(g, r), s, G - A)
    BY <1>3, AtPlus
  <2>2. At(w, s, B - (G - A))
    BY <1>3, <2>1, AtPlus DEF RoundedApart, o, r
  <2>3. B - (G - A) = K
    BY <1>3
  <2> QED BY <2>2, <2>3
<1> HIDE DEF w, f, K
<1>17. K \in {-1, 0, 1}
  <2>1. ac + bc - gc <= c /\ -c <= ac + bc - gc
    BY <1>1, <1>4, <1>9, <1>11, <1>13, <1>14
  <2>2. K >= 2 => K * c >= 2 * c
    BY <1>4, <1>15
  <2>3. K <= -2 => K * c <= -(2 * c)
    BY <1>4, <1>15
  <2>4. 2 * c > c /\ -(2 * c) < -c
    BY <1>4
  <2> DEFINE z == K * c
             y == ac + bc - gc
  <2>5. z \in Int /\ z = y /\ y \in Int
    BY <1>4, <1>9, <1>15
  <2> HIDE DEF z, y
  <2>6. ~(K >= 2) /\ ~(K <= -2)
    BY <1>4, <2>1, <2>2, <2>3, <2>4, <2>5 DEF z, y
  <2> QED BY <1>15, <2>6
<1>18. CASE K = 0
  <2>1. At(Zero, s, 0)
    BY ZeroIsFraction DEF At
  <2>2. w = Zero
    BY <1>16, <1>18, <2>1, AtLeq
  <2> QED BY <2>2 DEF w
<1>19. CASE K # 0
  <2>1. AbsOf(w) = Frac(1, s)
    <3>1. w \in Fractions
      BY <1>16 DEF At
    <3>2. At(AbsOf(w), s, IF K < 0 THEN -K ELSE K)
      BY <1>16, <3>1, AbsWorks
    <3>3. (IF K < 0 THEN -K ELSE K) = 1
      BY <1>17, <1>19
    <3>4. At(AbsOf(w), s, 1)
      BY <3>2, <3>3
    <3>5. At(Frac(1, s), s, 1)
      BY AtFrac
    <3> QED BY <3>4, <3>5, AtLeq
  <2>2. PICK h \in {-1, 1} : x = ac + h * d
    <3>1. CASE K = 1
      <4>1. ac + bc - gc = c
        BY <1>4, <1>15, <3>1
      <4>2. x = ac + (-1) * d
        BY <1>1, <1>4, <1>9, <1>11, <1>13, <1>14, <4>1
      <4> QED BY <4>2
    <3>2. CASE K = -1
      <4>1. ac + bc - gc = -c
        BY <1>4, <1>15, <3>2
      <4>2. x = ac + 1 * d
        BY <1>1, <1>4, <1>9, <1>11, <1>13, <1>14, <4>1
      <4> QED BY <4>2
    <3> QED BY <1>17, <1>19, <3>1, <3>2
  <2>3. r # e
    <3>1. x # ac
      BY <1>1, <1>9, <2>2
    <3>2. SUFFICES ASSUME r = e PROVE x = ac
      BY <3>1
    <3>3. At(e, D, ac)
      BY <1>8, <3>2
    <3>4. Leq(e, e) <=> x <= ac
      BY <1>6, <3>3, AtLeq
    <3>5. Leq(e, e) <=> ac <= x
      BY <1>6, <3>3, AtLeq
    <3>6. Leq(e, e)
      BY LeqIsAnOrder
    <3> QED BY <1>4, <1>9, <3>4, <3>5, <3>6
  <2>4. OnGrid(Times(Whole(2), e), s)
    <3>1. At(Times(Whole(2), e), D, 2 * x)
      BY <1>6, AtMultiple
    <3>2. At(Frac(2 * A + h, s), s, 2 * A + h) /\ 2 * A + h \in Int
      BY <1>3, <2>2, AtFrac
    <3>3. At(Frac(2 * A + h, s), s * c, (2 * A + h) * c)
      BY <1>4, <3>2, AtScales
    <3>4. s * c = D
      BY DEF c, D
    <3>5. (2 * A + h) * c = 2 * x
      <4>1. (2 * A + h) * c = 2 * ac + h * c
        BY <1>3, <1>4, <2>2 DEF ac
      <4>2. h * c = 2 * (h * d)
        BY <1>1, <1>11, <2>2
      <4> QED BY <1>1, <1>9, <2>2, <4>1, <4>2
    <3>6. Times(Whole(2), e) = Frac(2 * A + h, s)
      BY <3>1, <3>3, <3>4, <3>5, AtLeq
    <3> QED BY <3>2, <3>6, GridIsAt
  <2> QED BY <2>1, <2>3, <2>4 DEF w, r
<1> QED BY <1>18, <1>19

\* A fraction is zero when its numerator is.
LEMMA ZeroNumerator ==
  ASSUME NEW p \in Fractions
  PROVE  p = Zero <=> p[1] = 0
<1>1. Zero \in Fractions /\ Zero[1] = 0 /\ Zero[2] = 1
  BY ZeroIsFraction
<1>2. p[1] \in Int /\ p[2] \in Int
  BY FractionParts
<1>3. p[1] = 0 => p[1] * Zero[2] = Zero[1] * p[2]
  BY <1>1, <1>2
<1> QED BY <1>1, <1>3, FractionsEqual

\* Once a number is the number.
LEMMA TimesOne ==
  ASSUME NEW p \in Fractions
  PROVE  Times(Whole(1), p) = p
<1>1. PICK d \in Nat \ {0}, x \in Int : At(p, d, x)
  BY AtExists
<1>2. At(Times(Whole(1), p), d, 1 * x) /\ 1 * x = x
  BY <1>1, AtMultiple
<1> QED BY <1>1, <1>2, AtLeq

\* What is above zero is its own size.
LEMMA AbsOfAbove ==
  ASSUME NEW p, Above(p)
  PROVE  AbsOf(p) = p
<1>1. p \in Fractions /\ p[1] > 0 /\ p = <<p[1], p[2]>> /\ p[1] \in Int
  BY FractionParts DEF Above
<1>2. Abs(p[1]) = p[1]
  BY <1>1 DEF Abs
<1> QED BY <1>1, <1>2 DEF AbsOf

\* A number in per cent of another is 100 and the change from the other.
LEMMA ShareAndChange ==
  ASSUME NEW p, Above(p), NEW q \in Fractions
  PROVE  Times(Over(q, p), Whole(100)) =
           Plus(Whole(100), Times(Over(Minus(q, p), AbsOf(p)), Whole(100)))
<1> DEFINE H == Whole(100)
           d == Minus(q, p)
           r == Over(d, p)
<1>1. p \in Fractions /\ p[1] # 0 /\ AbsOf(p) = p /\ H \in Fractions /\ Whole(1) \in Fractions
  <2>1. p \in Fractions /\ p[1] > 0
    BY DEF Above
  <2>2. p[1] \in Int
    BY <2>1, FractionParts
  <2> QED BY <2>1, <2>2, AbsOfAbove, WholeIsFraction
<1>2. d \in Fractions /\ Plus(d, p) = q
  BY <1>1, MinusIsFraction, PlusOfMinus
<1> HIDE DEF d
<1>3. r \in Fractions /\ Over(Plus(d, p), p) = Plus(r, Over(p, p)) /\ Over(p, p) = Whole(1)
  BY <1>1, <1>2, OverIsFraction, OverAdds, OverSelf
<1> HIDE DEF r, H
<1>4. Times(Plus(r, Whole(1)), H) = Plus(Times(r, H), Times(Whole(1), H))
  BY <1>1, <1>3, TimesDistributes
<1>5. Times(Whole(1), H) = H /\ Times(r, H) \in Fractions
  BY <1>1, <1>3, TimesOne, TimesIsFraction
<1>6. Plus(Times(r, H), H) = Plus(H, Times(r, H))
  BY <1>1, <1>5, PlusCommutes
<1> QED BY <1>1, <1>2, <1>3, <1>4, <1>5, <1>6 DEF H, r, d

\* Steps of one size lead as many times as far, and on average a step.
LEMMA StepsAddUp ==
  ASSUME NEW k \in Nat, k >= 2, NEW e, \A j \in 1 .. k : e[j] \in Fractions,
         \A j \in 2 .. k : Minus(e[j], e[j - 1]) = Minus(e[2], e[1])
  PROVE  Over(Minus(e[k], e[1]), Whole(k - 1)) = Minus(e[2], e[1])
<1> DEFINE step == Minus(e[2], e[1])
           N == {n \in Nat : n + 1 <= k => Minus(e[n + 1], e[1]) = Times(Whole(n), step)}
<1>1. e[1] \in Fractions /\ e[2] \in Fractions /\ step \in Fractions
  <2>1. 1 \in 1 .. k /\ 2 \in 1 .. k
    OBVIOUS
  <2> QED BY <2>1, MinusIsFraction
<1>2. ASSUME NEW j \in 2 .. k PROVE Minus(e[j], e[j - 1]) = step
  OBVIOUS
<1> HIDE DEF step
<1>3. 0 \in N
  <2>1. PICK d \in Nat \ {0}, x \in Int, y \in Int : At(e[1], d, x) /\ At(step, d, y)
    BY <1>1, AtExists
  <2> DEFINE b == e[1]
  <2>2. b \in Fractions /\ At(b, d, x)
    BY <1>1, <2>1
  <2>3. Minus(e[1], e[1]) = Minus(b, b)
    OBVIOUS
  <2> HIDE DEF b
  <2>4. At(Minus(b, b), d, x - x)
    BY <2>2, AtPlus
  <2>5. 0 \in Int
    OBVIOUS
  <2>6. At(Times(Whole(0), step), d, 0 * y)
    BY <2>1, <2>5, AtMultiple
  <2>7. x - x = 0 /\ 0 * y = 0
    OBVIOUS
  <2>8. At(Minus(b, b), d, 0) /\ At(Times(Whole(0), step), d, 0)
    BY <2>4, <2>6, <2>7
  <2>9. Minus(b, b) = Times(Whole(0), step)
    BY <2>5, <2>8, AtLeq
  <2> QED BY <2>3, <2>9
<1>4. ASSUME NEW n \in Nat, n \in N PROVE n + 1 \in N
  <2>1. SUFFICES ASSUME (n + 1) + 1 <= k
                 PROVE  Minus(e[(n + 1) + 1], e[1]) = Times(Whole(n + 1), step)
    OBVIOUS
  <2> DEFINE a == e[n + 2]
             b == e[n + 1]
  <2>2. Minus(b, e[1]) = Times(Whole(n), step)
    BY <1>4, <2>1
  <2>3. n + 2 \in 2 .. k /\ (n + 2) - 1 = n + 1 /\ n + 1 \in 1 .. k /\ n + 2 \in 1 .. k
        /\ (n + 1) + 1 = n + 2
    BY <2>1
  <2>4. Minus(a, b) = step /\ a \in Fractions /\ b \in Fractions
    BY <1>2, <2>3
  <2> HIDE DEF a, b
  <2>5. PICK d \in Nat \ {0}, x \in Int, y \in Int, z \in Int : At(a, d, x) /\ At(b, d, y) /\ At(e[1], d, z)
    BY <1>1, <2>4, AtExists
  <2>6. At(step, d, x - y) /\ At(Minus(b, e[1]), d, y - z) /\ At(Minus(a, e[1]), d, x - z)
    BY <2>4, <2>5, AtPlus
  <2> DEFINE s == x - y
  <2>7. At(Times(Whole(n), step), d, n * s)
    BY <2>6, AtMultiple
  <2>8. At(Times(Whole(n + 1), step), d, (n + 1) * s)
    BY <2>6, AtMultiple
  <2>9. Leq(Minus(b, e[1]), Minus(b, e[1]))
    BY <1>1, <2>4, MinusIsFraction, LeqIsAnOrder
  <2>10. s \in Int
    OBVIOUS
  <2> DEFINE m == n * s
             h == y - z
  <2>11. At(Minus(b, e[1]), d, m) /\ At(Minus(b, e[1]), d, h) /\ m \in Int /\ h \in Int
    BY <2>2, <2>6, <2>7, <2>10
  <2> HIDE DEF m, h
  <2>12. m <= h /\ h <= m
    BY <2>9, <2>11, AtLeq
  <2>13. m = h
    BY <2>11, <2>12
  <2>14. (n + 1) * s = m + s
    BY <2>10 DEF m
  <2>15. x - z = (n + 1) * s
    BY <2>13, <2>14 DEF h
  <2>16. At(Minus(a, e[1]), d, (n + 1) * s)
    BY <2>6, <2>15
  <2>17. Minus(a, e[1]) = Times(Whole(n + 1), step)
    BY <2>8, <2>16, AtLeq
  <2> QED BY <2>3, <2>17 DEF a
<1> HIDE DEF N
<1>5. k - 1 \in N
  <2>1. k - 1 \in Nat
    OBVIOUS
  <2> QED BY <1>3, <1>4, <2>1, NatBySets
<1>6. Minus(e[k], e[1]) = Times(Whole(k - 1), step)
  <2>1. (k - 1) + 1 = k
    OBVIOUS
  <2> QED BY <1>5, <2>1 DEF N
<1>7. Whole(k - 1) \in Fractions /\ Whole(k - 1)[1] # 0
  <2>1. k - 1 \in Int /\ k - 1 # 0
    OBVIOUS
  <2> QED BY <2>1, WholeIsFraction
<1>8. Over(Times(Whole(k - 1), step), Whole(k - 1)) = step
  BY <1>1, <1>7, OverOfTimes
<1> QED BY <1>6, <1>8 DEF step

\* What is reached without a gap is as far as there are numbers in it.
LEMMA ReachedIsFirst ==
  ASSUME NEW n \in Nat, NEW R, R \subseteq 1 .. n,
         \A i \in R : \A j \in 1 .. i : j \in R
  PROVE  Cardinality(R) \in 0 .. n /\ R = 1 .. Cardinality(R)
<1> DEFINE T == {i \in 1 .. n + 1 : i \notin R}
<1>1. n + 1 \in T /\ T \subseteq Nat
  OBVIOUS
<1>2. PICK x \in T : \A y \in T : x <= y
  BY <1>1, LeastNat
<1>3. R = 1 .. x - 1
  <2>1. ASSUME NEW i \in R PROVE i \in 1 .. x - 1
    <3>1. x \in 1 .. i => FALSE
      BY <1>2
    <3> QED BY <1>2, <3>1
  <2>2. ASSUME NEW i \in 1 .. x - 1 PROVE i \in R
    <3>1. i \in 1 .. n + 1 /\ ~(x <= i)
      BY <1>2
    <3> QED BY <1>2, <3>1
  <2> QED BY <2>1, <2>2
<1>4. x - 1 \in 0 .. n /\ x - 1 \in Nat
  BY <1>2
<1>5. Cardinality(1 .. x - 1) = x - 1
  <2> DEFINE y == x - 1
  <2>1. y \in Nat
    BY <1>4
  <2> HIDE DEF y
  <2>2. Cardinality(1 .. y) = y
    BY <2>1, FS_Interval
  <2> QED BY <2>2 DEF y
<1> QED BY <1>3, <1>4, <1>5

\* A part of a number above zero does not exceed it, and more than it is more.
LEMMA ScaledAbove ==
  ASSUME NEW p, Above(p), NEW n \in Nat \ {0}, NEW d \in Nat \ {0}
  PROVE  /\ Above(Times(p, Frac(n, d)))
         /\ n <= d => Leq(Times(p, Frac(n, d)), p)
         /\ d <= n => Leq(p, Times(p, Frac(n, d)))
<1> DEFINE a == p[1]
           b == p[2]
           f == Frac(n, d)
<1>1. p \in Fractions /\ a \in Nat /\ b \in Nat \ {0} /\ At(p, b, a)
  BY FractionParts DEF Above, At
<1>2. At(f, d, n) /\ Above(f)
  BY AtFrac, FracIsAbove
<1> HIDE DEF a, b, f
<1>3. At(Times(p, f), b * d, a * n)
  BY <1>1, <1>2, AtTimes
<1>4. At(p, b * d, a * d)
  BY <1>1, AtScales
<1>5. n <= d => a * n <= a * d
  BY <1>1
<1>6. d <= n => a * d <= a * n
  BY <1>1
<1>7. Above(Times(p, f))
  BY <1>2, TimesIsAbove
<1> DEFINE x == a * n
           y == a * d
           e == b * d
<1>8. At(Times(p, f), e, x) /\ At(p, e, y) /\ (n <= d => x <= y) /\ (d <= n => y <= x)
  BY <1>3, <1>4, <1>5, <1>6
<1> HIDE DEF x, y, e
<1>9. (Leq(Times(p, f), p) <=> x <= y) /\ (Leq(p, Times(p, f)) <=> y <= x)
  BY <1>8, AtLeq
<1> QED BY <1>7, <1>8, <1>9 DEF f

\* The whole numbers around a number.
LEMMA WholeEnds ==
  ASSUME NEW p \in Fractions
  PROVE  /\ Whole(Floor(p)) \in Fractions /\ Leq(Whole(Floor(p)), p)
         /\ Whole(Ceil(p)) \in Fractions /\ Leq(p, Whole(Ceil(p)))
<1> DEFINE a == p[1]
           b == p[2]
           q == a \div b
           r == (-a) \div b
<1>1. a \in Int /\ b \in Nat \ {0}
  BY FractionParts
<1> HIDE DEF a, b
<1>2. q \in Int /\ q * b <= a /\ r \in Int /\ r * b <= -a
  <2>1. \A x \in Int : x \div b \in Int /\ (x \div b) * b <= x
    BY <1>1
  <2>2. -a \in Int
    BY <1>1
  <2> QED BY <1>1, <2>1, <2>2
<1>3. Floor(p) = q /\ Ceil(p) = -r
  BY DEF Floor, Ceil, a, b
<1> HIDE DEF q, r
<1>4. (-r) * b = -(r * b) /\ -r \in Int
  BY <1>1, <1>2
<1>5. Whole(q) \in Fractions /\ Whole(q)[1] = q /\ Whole(q)[2] = 1
  BY <1>2, WholeIsFraction
<1>6. Whole(-r) \in Fractions /\ Whole(-r)[1] = -r /\ Whole(-r)[2] = 1
  BY <1>4, WholeIsFraction
<1>7. q * b <= a * 1 /\ a * 1 <= (-r) * b
  <2>1. r * b \in Int
    BY <1>1, <1>2
  <2> DEFINE s == r * b
  <2>2. s \in Int /\ s <= -a /\ (-r) * b = -s
    BY <1>2, <1>4, <2>1
  <2> HIDE DEF s
  <2> QED BY <1>1, <1>2, <2>2
<1> QED BY <1>3, <1>5, <1>6, <1>7 DEF Leq, a, b


(***************************************************************************)
(* Powers of ten                                                           *)
(***************************************************************************)
\* The first powers of ten.
IsTen(h, n) ==
  /\ h \in [0 .. n -> Nat] /\ h[0] = 1
  /\ \A k \in 1 .. n : h[k] = 10 * h[k - 1]
FirstTens(n) == CHOOSE h : IsTen(h, n)

\* There are as many of them as one likes ...
LEMMA FirstTensWork == \A n \in Nat : IsTen(FirstTens(n), n)
<1> DEFINE S == {n \in Nat : \E h : IsTen(h, n)}
<1>1. 0 \in S
  <2> DEFINE h == [k \in 0 .. 0 |-> 1]
  <2>1. IsTen(h, 0)
    BY DEF IsTen
  <2> QED BY <2>1
<1>2. ASSUME NEW n \in Nat, n \in S PROVE n + 1 \in S
  <2>1. PICK h : IsTen(h, n)
    BY <1>2
  <2> DEFINE g == [k \in 0 .. n + 1 |-> IF k = n + 1 THEN 10 * h[n] ELSE h[k]]
  <2>2. h[n] \in Nat /\ h \in [0 .. n -> Nat] /\ h[0] = 1
    BY <2>1 DEF IsTen
  <2>3. g \in [0 .. n + 1 -> Nat]
    BY <2>2
  <2>4. g[0] = 1 /\ g[n + 1] = 10 * h[n] /\ g[n] = h[n]
    BY <2>2
  <2>5. ASSUME NEW k \in 1 .. n + 1 PROVE g[k] = 10 * g[k - 1]
    <3>1. CASE k = n + 1
      BY <2>4, <3>1
    <3>2. CASE k # n + 1
      <4>1. k \in 1 .. n /\ k - 1 \in 0 .. n + 1 /\ k - 1 # n + 1 /\ k \in 0 .. n + 1
        BY <3>2
      <4>2. g[k] = h[k] /\ g[k - 1] = h[k - 1]
        BY <3>2, <4>1
      <4>3. h[k] = 10 * h[k - 1]
        BY <2>1, <4>1 DEF IsTen
      <4> QED BY <4>2, <4>3
    <3> QED BY <3>1, <3>2
  <2> HIDE DEF g
  <2>6. IsTen(g, n + 1)
    BY <2>3, <2>4, <2>5 DEF IsTen
  <2> QED BY <2>6
<1> HIDE DEF S
<1>3. Nat \subseteq S
  BY <1>1, <1>2, NatBySets
<1> QED BY <1>3 DEF S, FirstTens

\* ... which agree where they are defined.
LEMMA FirstTensAgree ==
  ASSUME NEW n \in Nat, NEW m \in Nat, n <= m, NEW h, IsTen(h, n), NEW g, IsTen(g, m)
  PROVE  \A k \in 0 .. n : h[k] = g[k]
<1> DEFINE S == {k \in Nat : k <= n => h[k] = g[k]}
<1>1. 0 \in S
  BY DEF IsTen
<1>2. ASSUME NEW k \in Nat, k \in S PROVE k + 1 \in S
  <2>1. SUFFICES ASSUME k + 1 <= n PROVE h[k + 1] = g[k + 1]
    OBVIOUS
  <2>2. k + 1 \in 1 .. n /\ k + 1 \in 1 .. m /\ (k + 1) - 1 = k /\ h[k] = g[k]
    BY <1>2, <2>1
  <2>3. h[k + 1] = 10 * h[(k + 1) - 1] /\ g[k + 1] = 10 * g[(k + 1) - 1]
    BY <2>2 DEF IsTen
  <2> QED BY <2>2, <2>3
<1> HIDE DEF S
<1>3. Nat \subseteq S
  BY <1>1, <1>2, NatBySets
<1> QED BY <1>3 DEF S

\* The recursion of the powers of ten has a solution.
LEMMA TenDefined == Ten = [k \in Nat |-> IF k = 0 THEN 1 ELSE 10 * Ten[k - 1]]
<1> DEFINE g    == [k \in Nat |-> FirstTens(k)[k]]
           step == [k \in Nat |-> IF k = 0 THEN 1 ELSE 10 * g[k - 1]]
<1>1. ASSUME NEW k \in Nat PROVE g[k] = IF k = 0 THEN 1 ELSE 10 * g[k - 1]
  <2>1. IsTen(FirstTens(k), k)
    BY FirstTensWork
  <2>2. CASE k = 0
    BY <2>1, <2>2 DEF IsTen
  <2>3. CASE k # 0
    <3>1. k - 1 \in Nat /\ k - 1 <= k /\ k - 1 \in 0 .. k - 1 /\ k \in 1 .. k
      BY <2>3
    <3>2. IsTen(FirstTens(k - 1), k - 1)
      BY <3>1, FirstTensWork
    <3>3. FirstTens(k - 1)[k - 1] = FirstTens(k)[k - 1]
      BY <2>1, <3>1, <3>2, FirstTensAgree
    <3>4. FirstTens(k)[k] = 10 * FirstTens(k)[k - 1]
      BY <2>1, <3>1 DEF IsTen
    <3> QED BY <2>3, <3>1, <3>3, <3>4
  <2> QED BY <2>2, <2>3
<1>2. g = step
  <2>1. \A k \in Nat : g[k] = step[k]
    BY <1>1
  <2> QED BY <2>1
<1> QED BY <1>2 DEF Ten

\* The powers of ten, which outgrow their exponents.
LEMMA TenWorks ==
  /\ Ten[0] = 1
  /\ \A k \in Nat : Ten[k + 1] = 10 * Ten[k] /\ Ten[k] \in Nat \ {0} /\ Ten[k] > k
<1>1. Ten[0] = 1 /\ \A k \in Nat : Ten[k + 1] = 10 * Ten[k]
  <2>1. \A k \in Nat : Ten[k] = IF k = 0 THEN 1 ELSE 10 * Ten[k - 1]
    BY TenDefined, Zenon
  <2>2. \A k \in Nat : k + 1 \in Nat /\ k + 1 # 0 /\ (k + 1) - 1 = k
    OBVIOUS
  <2> HIDE DEF Ten
  <2>3. Ten[0] = 1
    BY <2>1
  <2>4. ASSUME NEW k \in Nat PROVE Ten[k + 1] = 10 * Ten[k]
    BY <2>1, <2>2
  <2> QED BY <2>3, <2>4
<1> DEFINE S == {k \in Nat : Ten[k] \in Nat \ {0} /\ Ten[k] > k}
<1>2. 0 \in S
  BY <1>1
<1>3. ASSUME NEW k \in Nat, k \in S PROVE k + 1 \in S
  BY <1>1, <1>3
<1> HIDE DEF S
<1>4. Nat \subseteq S
  BY <1>2, <1>3, NatBySets
<1> QED BY <1>1, <1>4 DEF S

\* The magnitude of a number is not above it, and ten times it is not below.
LEMMA MagnitudeWorks ==
  ASSUME NEW p, Above(p)
  PROVE  /\ Above(Magnitude(p)) /\ Leq(Magnitude(p), p)
         /\ Leq(p, Times(Whole(10), Magnitude(p)))
<1> DEFINE a == p[1]
           b == p[2]
<1>1. p \in Fractions /\ a \in Nat \ {0} /\ b \in Nat \ {0}
  BY FractionParts DEF Above
<1>2. At(p, b, a)
  BY <1>1 DEF At
<1>3. Leq(Whole(1), p) <=> b <= a
  BY <1>1, WholeIsFraction DEF Leq
<1> HIDE DEF a, b
<1>4. CASE b <= a
  <2> DEFINE good(k) == b * Ten[k] <= a /\ a < b * Ten[k + 1]
             T == {k \in Nat : a < b * Ten[k + 1]}
             e == CHOOSE k \in 0 .. a : good(k)
  <2>1. a \in T
    <3>1. Ten[a] > a /\ Ten[a] \in Nat /\ Ten[a + 1] = 10 * Ten[a]
      BY <1>1, TenWorks
    <3>2. Ten[a + 1] > a /\ Ten[a + 1] \in Nat
      BY <1>1, <3>1
    <3>3. b * Ten[a + 1] >= Ten[a + 1]
      BY <1>1, <3>2
    <3> QED BY <1>1, <3>2, <3>3
  <2>2. PICK k \in T : \A j \in T : k <= j
    BY <2>1, LeastNat
  <2>3. k \in 0 .. a /\ k \in Nat /\ a < b * Ten[k + 1]
    BY <1>1, <2>1, <2>2
  <2>4. b * Ten[k] <= a
    <3>1. CASE k = 0
      BY <1>1, <1>4, <3>1, TenWorks
    <3>2. CASE k # 0
      <4>1. k - 1 \in Nat /\ (k - 1) + 1 = k /\ k - 1 \notin T
        BY <2>2, <2>3, <3>2
      <4>2. ~(a < b * Ten[k])
        BY <4>1
      <4>3. Ten[k] \in Nat
        BY <2>3, TenWorks
      <4> QED BY <1>1, <4>2, <4>3
    <3> QED BY <3>1, <3>2
  <2>5. e \in 0 .. a /\ good(e)
    BY <2>3, <2>4
  <2> DEFINE t == Ten[e]
  <2>6. Magnitude(p) = Whole(t)
    BY <1>3, <1>4 DEF Magnitude, a, b
  <2> HIDE DEF e
  <2>7. t \in Nat \ {0} /\ Ten[e + 1] = 10 * t
    BY <1>1, <2>5, TenWorks
  <2>8. a < b * (10 * t)
    BY <2>5, <2>7
  <2> HIDE DEF t
  <2>9. Above(Whole(t)) /\ At(Whole(t), b, b * t)
    BY <1>1, <2>7, WholeIsFraction DEF Above, At
  <2>10. At(Times(Whole(10), Whole(t)), b, 10 * (b * t))
    BY <2>9, AtMultiple
  <2>11. a <= 10 * (b * t)
    BY <1>1, <2>7, <2>8
  <2>12. b * t <= a
    BY <2>5 DEF t
  <2> QED BY <1>2, <2>6, <2>9, <2>10, <2>11, <2>12, AtLeq
<1>5. CASE a < b
  <2> DEFINE good(k) == b <= a * Ten[k] /\ a * Ten[k - 1] < b
             T == {k \in Nat : k # 0 /\ b <= a * Ten[k]}
             e == CHOOSE k \in 1 .. b : good(k)
  <2>1. b \in T
    <3>1. Ten[b] > b /\ Ten[b] \in Nat
      BY <1>1, TenWorks
    <3>2. a * Ten[b] >= Ten[b]
      BY <1>1, <3>1
    <3> QED BY <1>1, <3>1, <3>2
  <2>2. PICK k \in T : \A j \in T : k <= j
    BY <2>1, LeastNat
  <2>3. k \in 1 .. b /\ k \in Nat /\ b <= a * Ten[k]
    BY <1>1, <2>1, <2>2
  <2>4. a * Ten[k - 1] < b
    <3>1. CASE k = 1
      BY <1>1, <1>5, <3>1, TenWorks
    <3>2. CASE k # 1
      <4>1. k - 1 \in Nat /\ k - 1 # 0 /\ k - 1 \notin T
        BY <2>2, <2>3, <3>2
      <4>2. ~(b <= a * Ten[k - 1])
        BY <4>1
      <4>3. Ten[k - 1] \in Nat
        BY <4>1, TenWorks
      <4> QED BY <1>1, <4>2, <4>3
    <3> QED BY <3>1, <3>2
  <2>5. e \in 1 .. b /\ good(e)
    BY <2>3, <2>4
  <2> DEFINE t == Ten[e]
             s == Ten[e - 1]
  <2>6. Magnitude(p) = Frac(1, t)
    BY <1>1, <1>3, <1>5 DEF Magnitude, a, b
  <2> HIDE DEF e
  <2>7. e - 1 \in Nat /\ (e - 1) + 1 = e
    BY <1>1, <2>5
  <2>8. t \in Nat \ {0} /\ s \in Nat \ {0} /\ t = 10 * s
    BY <2>7, TenWorks
  <2>9. a * s < b
    BY <2>5
  <2> HIDE DEF t, s
  <2> DEFINE g == Frac(1, t)
  <2>10. Above(g) /\ g \in Fractions /\ g[1] * t = 1 * g[2]
    BY <2>8, FracIsAbove, FracIsFraction
  <2>11. g[1] \in Int /\ g[2] \in Nat
    BY <2>10, FractionParts
  <2>12. b * t \in Nat \ {0} /\ a * t \in Int
    BY <1>1, <2>8, PositiveProduct
  <2> HIDE DEF g
  <2>13. g[1] * (b * t) = b * g[2]
    <3>1. g[1] * (b * t) = (g[1] * t) * b
      BY <1>1, <2>8, <2>11
    <3> QED BY <1>1, <2>10, <2>11, <3>1
  <2>14. At(g, b * t, b)
    BY <1>1, <2>10, <2>12, <2>13 DEF At
  <2>15. At(p, b * t, a * t)
    <3>1. a * (b * t) = (a * t) * b
      BY <1>1, <2>8
    <3> QED BY <1>1, <2>12, <3>1 DEF At, a, b
  <2>16. At(Times(Whole(10), g), b * t, 10 * b)
    BY <2>14, AtMultiple
  <2>17. a * t <= 10 * b
    <3>1. a * t = 10 * (a * s) /\ a * s \in Int
      BY <1>1, <2>8
    <3> QED BY <1>1, <2>9, <3>1
  <2>18. Leq(p, Times(Whole(10), g))
    BY <2>15, <2>16, <2>17, AtLeq
  <2>19. Leq(g, p)
    BY <2>5, <2>14, <2>15, AtLeq DEF t
  <2> QED BY <2>6, <2>10, <2>18, <2>19 DEF g
<1> QED BY <1>1, <1>4, <1>5

(***************************************************************************)
(* One result                                                              *)
(***************************************************************************)
\* A whole number that is half a one away at most, ...
LEMMA HalfEvenIsNear ==
  ASSUME NEW p \in Fractions
  PROVE  HalfEven(p) \in Int /\ IsWithin(Whole(HalfEven(p)), p, Frac(1, 2))
<1> DEFINE a  == p[1]
           b  == p[2]
           up == Nearest(p)
           n  == HalfEven(p)
<1>1. a \in Int /\ b \in Nat \ {0}
  BY FractionParts
<1>2. up \in Int /\ (2 * b) * up <= 2 * a + b /\ 2 * a + b < (2 * b) * (up + 1)
  <2> DEFINE k == 2 * a + b
             c == 2 * b
  <2>1. k \in Int /\ c \in Nat \ {0}
    BY <1>1
  <2>2. up = k \div c
    BY DEF Nearest
  <2> HIDE DEF k, c, up
  <2>3. up \in Int /\ c * up <= k /\ k < c * (up + 1)
    BY <2>1, <2>2
  <2> QED BY <2>3 DEF k, c
<1>3. n = IF 2 * (up * b - a) = b /\ up % 2 = 1 THEN up - 1 ELSE up
  BY DEF HalfEven
<1> HIDE DEF up, n, a, b
<1>4. n \in Int /\ (2 * b) * n - 2 * a <= b /\ 2 * a - (2 * b) * n <= b
  <2>1. (2 * b) * up = 2 * (up * b) /\ up * b \in Int /\ (2 * b) * (up + 1) = 2 * (up * b) + 2 * b
    BY <1>1, <1>2
  <2>2. CASE n = up
    BY <1>1, <1>2, <2>1, <2>2
  <2>3. CASE n # up
    <3>1. n = up - 1 /\ 2 * (up * b - a) = b
      BY <1>3, <2>3
    <3>2. (2 * b) * n = 2 * (up * b) - 2 * b
      BY <1>1, <1>2, <3>1
    <3> QED BY <1>1, <1>2, <2>1, <3>1, <3>2
  <2> QED BY <2>2, <2>3
<1> DEFINE d == 2 * b
           y == d * n
           x == 2 * a
<1>5. d \in Nat \ {0} /\ y \in Int /\ x \in Int
  BY <1>1, <1>4
<1>6. At(Whole(n), d, y)
  BY <1>4, <1>5, WholeIsFraction DEF At
<1>7. At(p, d, x)
  <2>1. a * (2 * b) = (2 * a) * b
    BY <1>1
  <2> QED BY <1>5, <2>1 DEF At, a, b
<1>8. At(Frac(1, 2), d, b)
  <2>1. At(Frac(1, 2), 2 * b, 1 * b)
    BY <1>1, AtFrac, AtScales
  <2> QED BY <1>1, <2>1
<1>9. y - x <= b /\ x - y <= b
  BY <1>1, <1>4
<1> HIDE DEF d, x, y
<1> QED BY <1>4, <1>6, <1>7, <1>8, <1>9, NearAt DEF n

\* So many parts of what a Decimal can tell apart: one is the most by which a
\* result is off, in parts of it.
Finest  == 2 * Ten[Digits - 1]
Ulps(n) == Frac(n, Finest)

\* They add up.
LEMMA UlpsWork ==
  /\ Finest \in Nat \ {0} /\ Finest >= 2
  /\ \A n \in Nat : NotBelow(Ulps(n)) /\ At(Ulps(n), Finest, n)
  /\ \A n \in Nat : Ulps(n) = Times(Whole(n), Ulps(1))
  /\ \A n, k \in Nat : Plus(Ulps(n), Ulps(k)) = Ulps(n + k)
<1>1. Ten[Digits - 1] \in Nat \ {0}
  BY DigitsAssumption, TenWorks
<1>2. Finest \in Nat \ {0} /\ Finest >= 2
  BY <1>1 DEF Finest
<1> HIDE DEF Finest
<1>3. ASSUME NEW n \in Nat
      PROVE  NotBelow(Ulps(n)) /\ At(Ulps(n), Finest, n) /\ Ulps(n) \in Fractions
  <2>1. At(Ulps(n), Finest, n)
    BY <1>2, AtFrac DEF Ulps
  <2>2. At(Zero, Finest, 0)
    BY <1>2, ZeroIsFraction DEF At
  <2>3. Leq(Zero, Ulps(n))
    BY <2>1, <2>2, AtLeq
  <2>4. Ulps(n) \in Fractions /\ Ulps(n)[1] \in Int
    BY <2>1, FractionParts DEF At
  <2>5. Ulps(n)[1] >= 0
    BY <2>3, <2>4, FractionParts, ZeroIsFraction DEF Leq
  <2> QED BY <2>1, <2>4, <2>5 DEF NotBelow
<1>4. ASSUME NEW n \in Nat PROVE Ulps(n) = Times(Whole(n), Ulps(1))
  <2>1. At(Times(Whole(n), Ulps(1)), Finest, n * 1)
    BY <1>3, AtMultiple
  <2>2. n * 1 = n
    OBVIOUS
  <2> QED BY <1>3, <2>1, <2>2, AtLeq
<1>5. ASSUME NEW n \in Nat, NEW k \in Nat PROVE Plus(Ulps(n), Ulps(k)) = Ulps(n + k)
  <2>1. At(Plus(Ulps(n), Ulps(k)), Finest, n + k)
    BY <1>3, AtPlus
  <2>2. n + k \in Nat
    OBVIOUS
  <2>3. At(Ulps(n + k), Finest, n + k)
    BY <1>3, <2>2
  <2> QED BY <2>1, <2>3, AtLeq
<1> QED BY <1>2, <1>3, <1>4, <1>5

\* ... and a Decimal that is one part of the number away from it at most.
LEMMA DecimalIsNear ==
  ASSUME NEW p \in Fractions
  PROVE  IsWithin(Decimal(p), p, Times(Ulps(1), AbsOf(p)))
<1>1. CASE p = Zero
  <2>1. Decimal(p) = Zero
    BY <1>1 DEF Decimal
  <2>2. At(p, 1, 0) /\ At(AbsOf(p), 1, 0)
    <3>1. At(p, 1, 0)
      BY <1>1, ZeroIsFraction DEF At
    <3>2. At(AbsOf(p), 1, IF 0 < 0 THEN -0 ELSE 0)
      BY <3>1, AbsWorks
    <3> QED BY <3>1, <3>2
  <2>3. At(Times(Ulps(1), AbsOf(p)), Finest * 1, 1 * 0)
    BY <2>2, UlpsWork, AtTimes
  <2>4. At(p, 1 * Finest, 0 * Finest)
    BY <2>2, UlpsWork, AtScales
  <2>5. 1 * 0 = 0 /\ 0 * Finest = 0 /\ 1 * Finest = Finest * 1
    BY UlpsWork
  <2> QED BY <1>1, <2>1, <2>3, <2>4, <2>5, NearAt
<1>2. CASE p # Zero
  <2> DEFINE a    == AbsOf(p)
             mag  == Magnitude(a)
             t    == Ten[Digits - 1]
             unit == Over(mag, Whole(t))
             q    == Over(p, unit)
             n    == HalfEven(q)
  <2>1. Above(a)
    <3>1. p[1] # 0 /\ p[1] \in Int /\ p[2] \in Nat \ {0}
      BY <1>2, ZeroNumerator, FractionParts
    <3>2. a \in Fractions /\ a[1] = Abs(p[1])
      BY AbsWorks DEF AbsOf
    <3> QED BY <3>1, <3>2 DEF Above, Abs
  <2>2. Above(mag) /\ Leq(mag, a) /\ mag \in Fractions
    BY <2>1, MagnitudeWorks DEF Above
  <2>3. t \in Nat \ {0} /\ Above(Whole(t)) /\ Whole(t) = Frac(t, 1)
    <3>1. t \in Nat \ {0}
      BY DigitsAssumption, TenWorks
    <3>2. Whole(t) \in Fractions /\ Whole(t)[1] = t /\ Whole(t)[2] = 1
      BY <3>1, WholeIsFraction
    <3> QED BY <3>1, <3>2, FracOfParts DEF Above
  <2>4. Above(unit) /\ unit \in Fractions /\ unit[1] # 0 /\ AbsOf(unit) = unit
    <3> HIDE DEF mag
    <3>0. mag[1] \in Int
      BY <2>2, FractionParts
    <3>1. NotBelow(mag)
      BY <2>2, <3>0 DEF Above, NotBelow
    <3>2. Above(unit)
      BY <2>2, <2>3, <3>1, OverNotBelow
    <3> QED BY <3>2, AbsOfAbove DEF Above
  <2>5. q \in Fractions
    BY <2>4, OverIsFraction
  <2>6. Decimal(p) = Times(Whole(n), unit)
    BY <1>2 DEF Decimal
  <2>7. Times(Frac(1, 2), unit) = Times(Ulps(1), mag)
    <3> DEFINE u == mag[1]
               v == mag[2]
    <3>1. mag = Frac(u, v) /\ u \in Int /\ v \in Nat \ {0}
      BY <2>2, FracOfParts, FractionParts
    <3> HIDE DEF u, v, mag, t
    <3>2. unit = Frac(u * 1, v * t)
      BY <2>3, <3>1, OverFracs
    <3>3. v * t \in Nat \ {0} /\ u * 1 = u
      BY <2>3, <3>1, PositiveProduct
    <3> DEFINE w == v * t
               s == 2 * t
    <3>4. Times(Frac(1, 2), Frac(u, w)) = Frac(1 * u, 2 * w)
      <4>1. w \in Int /\ w # 0
        BY <3>3
      <4> HIDE DEF w
      <4> QED BY <3>1, <4>1, TimesFracs
    <3>5. Times(Frac(1, s), Frac(u, v)) = Frac(1 * u, s * v)
      <4>1. s \in Int /\ s # 0
        BY <2>3
      <4> HIDE DEF s
      <4> QED BY <3>1, <4>1, TimesFracs
    <3>6. 2 * (v * t) = (2 * t) * v
      BY <2>3, <3>1
    <3>7. Ulps(1) = Frac(1, s)
      BY DEF Ulps, Finest, t
    <3> QED BY <3>1, <3>2, <3>3, <3>4, <3>5, <3>6, <3>7
  <2> HIDE DEF a, mag, t, unit, q, n
  <2>8. IsWithin(Whole(n), q, Frac(1, 2))
    BY <2>5, HalfEvenIsNear DEF n
  <2>9. IsWithin(Times(Whole(n), unit), Times(q, unit), Times(Frac(1, 2), unit))
    BY <2>4, <2>8, NearTimes
  <2>10. Times(q, unit) = p
    BY <2>4, TimesOfQuotient DEF q
  <2>11. IsWithin(Decimal(p), p, Times(Ulps(1), mag))
    BY <2>6, <2>7, <2>9, <2>10
  <2>12. Leq(Times(Ulps(1), mag), Times(Ulps(1), a)) /\ Times(Ulps(1), a) \in Fractions
    <3>1. NotBelow(Ulps(1)) /\ Ulps(1) \in Fractions /\ a \in Fractions
      BY <2>1, UlpsWork DEF NotBelow, Above
    <3>2. Leq(Times(mag, Ulps(1)), Times(a, Ulps(1)))
      BY <2>2, <3>1, TimesKeepsOrder
    <3> QED BY <2>2, <3>1, <3>2, TimesCommutes, TimesIsFraction
  <2> QED BY <2>11, <2>12, NearGrows DEF a
<1> QED BY <1>1, <1>2

\* Products may be taken in any order.
LEMMA TimesAssociates ==
  ASSUME NEW p \in Fractions, NEW q \in Fractions, NEW r \in Fractions
  PROVE  Times(p, Times(q, r)) = Times(Times(p, q), r)
<1>1. PICK d \in Nat \ {0}, x \in Int, y \in Int, z \in Int :
        At(p, d, x) /\ At(q, d, y) /\ At(r, d, z)
  BY AtExists
<1> DEFINE u == y * z
           v == x * y
           e == d * d
<1>2. At(Times(q, r), e, u) /\ At(Times(p, q), e, v)
  BY <1>1, AtTimes
<1>3. u \in Int /\ v \in Int /\ x * u = v * z /\ e \in Int /\ d * e = e * d
  BY <1>1
<1> HIDE DEF u, v, e
<1>4. At(Times(p, Times(q, r)), d * e, x * u) /\ At(Times(Times(p, q), r), e * d, v * z)
  BY <1>1, <1>2, AtTimes
<1> QED BY <1>3, <1>4, AtLeq

\* What is near is not much larger.
LEMMA NearIsNotLarger ==
  ASSUME NEW p, NEW q, NEW s, IsWithin(p, q, s)
  PROVE  Leq(AbsOf(p), Plus(AbsOf(q), s))
<1>1. p \in Fractions /\ q \in Fractions /\ s \in Fractions
  BY DEF IsWithin
<1>2. PICK d \in Nat \ {0}, x \in Int, y \in Int, z \in Int :
        At(p, d, x) /\ At(q, d, y) /\ At(s, d, z)
  BY <1>1, AtExists
<1>3. x - y <= z /\ y - x <= z
  BY <1>2, NearAt
<1> DEFINE a == IF x < 0 THEN -x ELSE x
           b == IF y < 0 THEN -y ELSE y
<1>4. At(AbsOf(p), d, a) /\ At(AbsOf(q), d, b)
  BY <1>1, <1>2, AbsWorks
<1>5. a <= b + z
  BY <1>2, <1>3
<1> HIDE DEF a, b
<1>6. At(Plus(AbsOf(q), s), d, b + z)
  BY <1>2, <1>4, AtPlus
<1> QED BY <1>4, <1>5, <1>6, AtLeq

\* Parts of the same number add up.
LEMMA UlpsOf ==
  ASSUME NEW z \in Fractions, NEW n \in Nat, NEW k \in Nat
  PROVE  /\ Times(Ulps(n), z) \in Fractions
         /\ Plus(Times(Ulps(n), z), Times(Ulps(k), z)) = Times(Ulps(n + k), z)
         /\ Times(Ulps(1), Times(Whole(n), z)) = Times(Ulps(n), z)
<1>1. Ulps(n) \in Fractions /\ Ulps(k) \in Fractions /\ Ulps(1) \in Fractions
  BY UlpsWork DEF NotBelow
<1>2. Times(Ulps(n), z) \in Fractions
  BY <1>1, TimesIsFraction
<1>3. Plus(Times(Ulps(n), z), Times(Ulps(k), z)) = Times(Ulps(n + k), z)
  BY <1>1, UlpsWork, TimesDistributes
<1>4. Times(Ulps(1), Times(Whole(n), z)) = Times(Times(Ulps(1), Whole(n)), z)
  BY <1>1, WholeIsFraction, TimesAssociates
<1>5. Times(Ulps(1), Whole(n)) = Ulps(n)
  BY <1>1, WholeIsFraction, TimesCommutes, UlpsWork
<1> QED BY <1>2, <1>3, <1>4, <1>5

\* More parts are more.
LEMMA UlpsGrow ==
  ASSUME NEW z, NotBelow(z), NEW n \in Nat, NEW k \in Nat, n <= k
  PROVE  Leq(Times(Ulps(n), z), Times(Ulps(k), z))
<1>1. Leq(Ulps(n), Ulps(k)) /\ Ulps(n) \in Fractions /\ Ulps(k) \in Fractions
  BY UlpsWork, AtLeq DEF NotBelow
<1> QED BY <1>1, TimesKeepsOrder

\* A Decimal of what is n parts away, and m times as large at most, is m + 1
\* parts further away.
LEMMA DecimalOfNear ==
  ASSUME NEW w, NEW y, NEW z, NotBelow(z), NEW n \in Nat, NEW m \in Nat, n <= m * Finest,
         IsWithin(w, y, Times(Ulps(n), z)), Leq(AbsOf(y), z)
  PROVE  IsWithin(Decimal(w), y, Times(Ulps(n + m + 1), z))
<1>1. w \in Fractions /\ y \in Fractions /\ z \in Fractions /\ AbsOf(y) \in Fractions
      /\ AbsOf(w) \in Fractions
  BY AbsWorks DEF IsWithin, NotBelow
<1>2. Leq(Times(Ulps(n), z), Times(Whole(m), z))
  <2>1. At(Whole(m), Finest, m * Finest)
    <3>1. At(Whole(m), 1, m)
      BY WholeIsFraction DEF At
    <3>2. At(Whole(m), 1 * Finest, m * Finest) /\ 1 * Finest = Finest
      BY <3>1, UlpsWork, AtScales
    <3> QED BY <3>2
  <2>2. Leq(Ulps(n), Whole(m))
    BY <2>1, UlpsWork, AtLeq
  <2>3. Ulps(n) \in Fractions /\ Whole(m) \in Fractions
    BY UlpsWork, WholeIsFraction DEF NotBelow
  <2> QED BY <2>2, <2>3, TimesKeepsOrder
<1>3. Leq(AbsOf(w), Plus(AbsOf(y), Times(Ulps(n), z)))
  BY NearIsNotLarger
<1>4. Leq(AbsOf(w), Times(Whole(m + 1), z))
  <2> DEFINE s == Times(Ulps(n), z)
  <2>1. s \in Fractions
    BY <1>1, UlpsOf
  <2> HIDE DEF s
  <2>2. PICK d \in Nat \ {0}, a \in Int, b \in Int, c \in Int, e \in Int, f \in Int, g \in Int :
          SixAt(AbsOf(w), AbsOf(y), s, z, z, z, d, a, b, c, e, f, g)
    BY <1>1, <2>1, SixExist
  <2>3. At(AbsOf(w), d, a) /\ At(AbsOf(y), d, b) /\ At(s, d, c) /\ At(z, d, e)
    BY <2>2 DEF SixAt
  <2>4. At(Plus(AbsOf(y), s), d, b + c) /\ At(Times(Whole(m), z), d, m * e)
        /\ At(Times(Whole(m + 1), z), d, (m + 1) * e)
    <3>1. m \in Int /\ m + 1 \in Int
      OBVIOUS
    <3>2. At(Plus(AbsOf(y), s), d, b + c)
      BY <2>3, AtPlus
    <3>3. At(Times(Whole(m), z), d, m * e)
      BY <2>3, <3>1, AtMultiple
    <3>4. At(Times(Whole(m + 1), z), d, (m + 1) * e)
      BY <2>3, <3>1, AtMultiple
    <3> QED BY <3>2, <3>3, <3>4
  <2>5. a <= b + c /\ b <= e /\ c <= m * e
    BY <1>2, <1>3, <2>3, <2>4, AtLeq DEF s
  <2>6. m * e \in Int /\ (m + 1) * e = m * e + e
    OBVIOUS
  <2>7. a <= (m + 1) * e
    BY <2>5, <2>6
  <2> QED BY <2>3, <2>4, <2>7, AtLeq
<1>5. IsWithin(Decimal(w), w, Times(Ulps(1), AbsOf(w)))
  BY <1>1, DecimalIsNear
<1>6. m + 1 \in Nat
  OBVIOUS
<1>7. Times(Whole(m + 1), z) \in Fractions /\ Whole(m + 1) \in Fractions
  BY <1>1, <1>6, WholeIsFraction, TimesIsFraction
<1>8. Leq(Times(Ulps(1), AbsOf(w)), Times(Ulps(m + 1), z))
  <2>1. Ulps(1) \in Fractions /\ NotBelow(Ulps(1))
    BY UlpsWork DEF NotBelow
  <2>2. Leq(Times(AbsOf(w), Ulps(1)), Times(Times(Whole(m + 1), z), Ulps(1)))
    BY <1>1, <1>4, <1>7, <2>1, TimesKeepsOrder
  <2>3. /\ Times(AbsOf(w), Ulps(1)) = Times(Ulps(1), AbsOf(w))
        /\ Times(Times(Whole(m + 1), z), Ulps(1)) = Times(Ulps(1), Times(Whole(m + 1), z))
    BY <1>1, <1>7, <2>1, TimesCommutes
  <2> QED BY <1>1, <1>6, <2>2, <2>3, UlpsOf
<1>9. IsWithin(Decimal(w), w, Times(Ulps(m + 1), z))
  BY <1>1, <1>5, <1>6, <1>8, UlpsOf, NearGrows
<1>10. IsWithin(Decimal(w), y, Plus(Times(Ulps(m + 1), z), Times(Ulps(n), z)))
  BY <1>9, NearChain
<1>11. (m + 1) + n = n + m + 1
  OBVIOUS
<1> QED BY <1>1, <1>6, <1>10, <1>11, UlpsOf

(***************************************************************************)
(* Products, sums and quotients                                            *)
(***************************************************************************)
\* An absolute value is not below zero.
LEMMA AbsNotBelow ==
  ASSUME NEW p \in Fractions
  PROVE  NotBelow(AbsOf(p)) /\ AbsOf(p) \in Fractions
<1>1. AbsOf(p) \in Fractions /\ p[1] \in Int
  BY AbsWorks, FractionParts
<1>2. AbsOf(p)[1] = Abs(p[1])
  BY DEF AbsOf
<1> QED BY <1>1, <1>2 DEF NotBelow, Abs

\* The absolute value of a product is the product of those of its factors ...
LEMMA AbsOfTimes ==
  ASSUME NEW p \in Fractions, NEW q \in Fractions
  PROVE  AbsOf(Times(p, q)) = Times(AbsOf(p), AbsOf(q))
<1>1. PICK d \in Nat \ {0}, x \in Int, y \in Int : At(p, d, x) /\ At(q, d, y)
  BY AtExists
<1> DEFINE a == IF x < 0 THEN -x ELSE x
           b == IF y < 0 THEN -y ELSE y
           z == x * y
           c == IF z < 0 THEN -z ELSE z
<1>2. At(AbsOf(p), d, a) /\ At(AbsOf(q), d, b) /\ At(Times(p, q), d * d, z)
  BY <1>1, AbsWorks, AtTimes
<1>3. Times(p, q) \in Fractions
  BY TimesIsFraction
<1>4. z \in Int /\ a \in Int /\ b \in Int
  BY <1>1
<1>5. c = a * b
  <2>1. CASE x >= 0 /\ y >= 0
    <3>1. z >= 0
      BY <2>1
    <3> QED BY <2>1, <3>1
  <2>2. CASE x >= 0 /\ y < 0
    <3>1. x * (-y) >= 0 /\ x * (-y) = -z
      BY <2>2
    <3> QED BY <1>4, <2>2, <3>1
  <2>3. CASE x < 0 /\ y >= 0
    <3>1. (-x) * y >= 0 /\ (-x) * y = -z
      BY <2>3
    <3> QED BY <1>4, <2>3, <3>1
  <2>4. CASE x < 0 /\ y < 0
    <3>1. (-x) * (-y) > 0 /\ (-x) * (-y) = z
      BY <2>4
    <3> QED BY <1>4, <2>4, <3>1
  <2> QED BY <2>1, <2>2, <2>3, <2>4
<1> HIDE DEF a, b, z
<1>6. At(AbsOf(Times(p, q)), d * d, c)
  BY <1>2, <1>3, AbsWorks
<1> HIDE DEF c
<1>7. At(Times(AbsOf(p), AbsOf(q)), d * d, a * b)
  BY <1>2, AtTimes
<1> QED BY <1>5, <1>6, <1>7, AtLeq

\* ... and that of a sum is at most the sum of those of its terms.
LEMMA AbsOfPlus ==
  ASSUME NEW p \in Fractions, NEW q \in Fractions, NEW a \in Fractions, Leq(AbsOf(q), a)
  PROVE  Leq(AbsOf(Plus(p, q)), Plus(AbsOf(p), a))
<1>1. PICK d \in Nat \ {0}, x \in Int, y \in Int, z \in Int :
        At(p, d, x) /\ At(q, d, y) /\ At(a, d, z)
  BY AtExists
<1> DEFINE u == IF x < 0 THEN -x ELSE x
           v == IF y < 0 THEN -y ELSE y
           s == x + y
           w == IF s < 0 THEN -s ELSE s
<1>2. At(AbsOf(p), d, u) /\ At(AbsOf(q), d, v)
  BY <1>1, AbsWorks
<1>3. At(Plus(p, q), d, s) /\ Plus(p, q) \in Fractions
  BY <1>1, AtPlus, PlusIsFraction
<1>4. s \in Int
  OBVIOUS
<1> HIDE DEF s
<1>5. At(AbsOf(Plus(p, q)), d, w)
  BY <1>3, AbsWorks
<1>6. v <= z
  BY <1>1, <1>2, AtLeq
<1>7. w <= u + z
  BY <1>6 DEF s
<1> HIDE DEF u, v, w
<1>8. At(Plus(AbsOf(p), a), d, u + z)
  BY <1>1, <1>2, AtPlus
<1> QED BY <1>5, <1>7, <1>8, AtLeq

\* A figure times a share, both rounded: three parts away.
LEMMA DecimalOfProduct ==
  ASSUME NEW v \in Fractions, NEW s \in Fractions
  PROVE  IsWithin(Decimal(Times(v, Decimal(s))), Times(v, s),
                  Times(Ulps(3), AbsOf(Times(v, s))))
<1> DEFINE t == Decimal(s)
           x == Times(v, s)
<1>1. IsWithin(t, s, Times(Ulps(1), AbsOf(s))) /\ t \in Fractions
  BY DecimalIsNear DEF IsWithin
<1> HIDE DEF t
<1>2. IsWithin(Times(t, v), Times(s, v), Times(Times(Ulps(1), AbsOf(s)), AbsOf(v)))
  BY <1>1, NearTimes
<1>3. Times(t, v) = Times(v, t) /\ Times(s, v) = x
  BY <1>1, TimesCommutes
<1>4. Ulps(1) \in Fractions /\ AbsOf(s) \in Fractions /\ AbsOf(v) \in Fractions
  BY UlpsWork, AbsNotBelow DEF NotBelow
<1>5. Times(Times(Ulps(1), AbsOf(s)), AbsOf(v)) = Times(Ulps(1), AbsOf(x))
  <2>1. Times(Times(Ulps(1), AbsOf(s)), AbsOf(v)) = Times(Ulps(1), Times(AbsOf(s), AbsOf(v)))
    BY <1>4, TimesAssociates
  <2>2. Times(AbsOf(s), AbsOf(v)) = AbsOf(Times(s, v))
    BY AbsOfTimes
  <2> QED BY <1>3, <2>1, <2>2
<1>6. x \in Fractions
  BY TimesIsFraction
<1> HIDE DEF x
<1>7. NotBelow(AbsOf(x)) /\ Leq(AbsOf(x), AbsOf(x))
  BY <1>6, AbsNotBelow, LeqIsAnOrder
<1>8. IsWithin(Times(v, t), x, Times(Ulps(1), AbsOf(x)))
  BY <1>2, <1>3, <1>5
<1>9. 1 \in Nat /\ 1 <= 1 * Finest /\ 1 + 1 + 1 = 3
  BY UlpsWork
<1>10. IsWithin(Decimal(Times(v, t)), x, Times(Ulps(1 + 1 + 1), AbsOf(x)))
  BY <1>7, <1>8, <1>9, DecimalOfNear
<1> QED BY <1>9, <1>10 DEF t, x

\* A running sum takes a rounded term: two parts more, of more.
LEMMA DecimalOfSum ==
  ASSUME NEW s, NEW x, NEW a, NotBelow(a), NEW t, NEW y, NEW n \in Nat, 3 <= n, n <= Finest,
         IsWithin(s, x, Times(Ulps(n), a)), Leq(AbsOf(x), a),
         IsWithin(t, y, Times(Ulps(3), AbsOf(y)))
  PROVE  LET z == Plus(AbsOf(y), a)
         IN  /\ IsWithin(Decimal(Plus(s, t)), Plus(y, x), Times(Ulps(n + 2), z))
             /\ NotBelow(z) /\ Leq(AbsOf(Plus(y, x)), z)
<1> DEFINE b == AbsOf(y)
           z == Plus(b, a)
<1>1. /\ s \in Fractions /\ x \in Fractions /\ t \in Fractions /\ y \in Fractions
      /\ a \in Fractions
  BY DEF IsWithin, NotBelow
<1>2. NotBelow(b) /\ b \in Fractions
  BY <1>1, AbsNotBelow
<1>3. NotBelow(z) /\ Leq(AbsOf(Plus(y, x)), z)
  BY <1>1, <1>2, PlusNotBelow, AbsOfPlus
<1> HIDE DEF b
<1>4. IsWithin(t, y, Times(Ulps(n), b))
  <2>1. 3 \in Nat
    OBVIOUS
  <2>2. Leq(Times(Ulps(3), b), Times(Ulps(n), b)) /\ Times(Ulps(n), b) \in Fractions
    BY <1>2, <2>1, UlpsGrow, UlpsOf
  <2> QED BY <2>2, NearGrows DEF b
<1>5. IsWithin(Plus(t, s), Plus(y, x), Plus(Times(Ulps(n), b), Times(Ulps(n), a)))
  BY <1>4, NearSums
<1>6. Plus(Times(Ulps(n), b), Times(Ulps(n), a)) = Times(Ulps(n), z)
  <2>1. Ulps(n) \in Fractions
    BY UlpsWork DEF NotBelow
  <2>2. Times(Plus(b, a), Ulps(n)) = Plus(Times(b, Ulps(n)), Times(a, Ulps(n)))
    BY <1>1, <1>2, <2>1, TimesDistributes
  <2>3. /\ Times(b, Ulps(n)) = Times(Ulps(n), b) /\ Times(a, Ulps(n)) = Times(Ulps(n), a)
        /\ Times(z, Ulps(n)) = Times(Ulps(n), z)
    BY <1>1, <1>2, <1>3, <2>1, TimesCommutes DEF NotBelow
  <2> QED BY <2>2, <2>3
<1>7. Plus(t, s) = Plus(s, t)
  BY <1>1, PlusCommutes
<1>8. IsWithin(Plus(s, t), Plus(y, x), Times(Ulps(n), z))
  BY <1>5, <1>6, <1>7
<1> HIDE DEF z
<1>9. 1 \in Nat /\ n <= 1 * Finest /\ n + 1 + 1 = n + 2
  BY UlpsWork
<1>10. IsWithin(Decimal(Plus(s, t)), Plus(y, x), Times(Ulps(n + 1 + 1), z))
  BY <1>3, <1>8, <1>9, DecimalOfNear
<1> QED BY <1>3, <1>9, <1>10 DEF z, b

\* The running sums there are of a list.
LEMMA SumRuns ==
  ASSUME NEW values, Len(values) \in Nat
  PROVE  \E h : /\ h[0] = Zero
                /\ \A i \in 1 .. Len(values) : h[i] = Decimal(Plus(h[i - 1], values[i]))
                /\ DecimalSum(values) = h[Len(values)]
<1> DEFINE step(h, i) == IF i = 0 THEN Zero ELSE Decimal(Plus(h[i - 1], values[i]))
           runs(h, n) == h = [i \in 0 .. n |-> step(h, i)]
           S == {n \in Nat : \E h : runs(h, n)}
           N == Len(values)
           sum == CHOOSE h : runs(h, N)
<1>1. 0 \in S
  <2> DEFINE g == [i \in 0 .. 0 |-> Zero]
  <2>1. runs(g, 0)
    <3>1. \A i \in 0 .. 0 : g[i] = step(g, i)
      OBVIOUS
    <3> QED BY <3>1
  <2> QED BY <2>1
<1>2. ASSUME NEW n \in Nat, n \in S PROVE n + 1 \in S
  <2>1. PICK h : runs(h, n)
    BY <1>2
  <2> DEFINE g == [i \in 0 .. n + 1 |-> IF i = n + 1 THEN step(h, n + 1) ELSE h[i]]
  <2>2. ASSUME NEW i \in 0 .. n + 1 PROVE g[i] = step(g, i)
    <3>1. CASE i = 0
      <4>1. i \in 0 .. n /\ i # n + 1
        BY <3>1
      <4>2. h[i] = step(h, i)
        BY <2>1, <4>1
      <4> QED BY <3>1, <4>1, <4>2
    <3>2. CASE i # 0
      <4>1. i - 1 \in 0 .. n + 1 /\ i - 1 # n + 1
        BY <3>2
      <4>2. g[i - 1] = h[i - 1]
        BY <4>1
      <4>3. g[i] = step(h, i)
        <5>1. CASE i = n + 1
          BY <5>1
        <5>2. CASE i # n + 1
          <6>1. i \in 0 .. n
            BY <5>2
          <6>2. h[i] = step(h, i)
            BY <2>1, <6>1
          <6> QED BY <5>2, <6>2
        <5> QED BY <5>1, <5>2
      <4> QED BY <3>2, <4>2, <4>3
    <3> QED BY <3>1, <3>2
  <2>3. g = [i \in 0 .. n + 1 |-> g[i]]
    OBVIOUS
  <2> HIDE DEF g
  <2>4. [i \in 0 .. n + 1 |-> g[i]] = [i \in 0 .. n + 1 |-> step(g, i)]
    BY <2>2
  <2>5. g = [i \in 0 .. n + 1 |-> step(g, i)]
    BY <2>3, <2>4, Zenon
  <2>6. n + 1 \in Nat
    OBVIOUS
  <2> QED BY <2>5, <2>6
<1>3. N \in S
  <2> HIDE DEF S
  <2>1. Nat \subseteq S
    BY <1>1, <1>2, NatBySets
  <2> QED BY <2>1
<1>4. runs(sum, N)
  BY <1>3
<1>5. DecimalSum(values) = sum[N]
  BY DEF DecimalSum
<1> HIDE DEF sum
<1>6. \A i \in 0 .. N : sum[i] = step(sum, i)
  BY <1>4
<1>7. sum[0] = Zero /\ \A i \in 1 .. N : sum[i] = step(sum, i) /\ i # 0
  BY <1>6
<1> QED BY <1>5, <1>7

\* The sum of numbers that are three parts away each, two parts more for each
\* of them, of what they come to without their signs.
LEMMA DecimalSumIsNear ==
  ASSUME NEW n \in Nat, 2 * n + 3 <= Finest, NEW values, Len(values) = n,
         NEW x, x = [i \in 1 .. n |-> x[i]],
         \A i \in 1 .. n : IsWithin(values[i], x[i], Times(Ulps(3), AbsOf(x[i])))
  PROVE  LET size == Total([i \in 1 .. n |-> AbsOf(x[i])])
         IN  /\ IsWithin(DecimalSum(values), Total(x), Times(Ulps(2 * n + 3), size))
             /\ NotBelow(size) /\ Leq(AbsOf(Total(x)), size)
<1>1. PICK h : /\ h[0] = Zero
               /\ \A i \in 1 .. n : h[i] = Decimal(Plus(h[i - 1], values[i]))
               /\ DecimalSum(values) = h[n]
  BY SumRuns
<1> DEFINE upTo(k)  == [i \in 1 .. k |-> x[i]]
           sizes(k) == [i \in 1 .. k |-> AbsOf(x[i])]
           told(k) == /\ IsWithin(h[k], Total(upTo(k)), Times(Ulps(2 * k + 3), Total(sizes(k))))
                      /\ NotBelow(Total(sizes(k)))
                      /\ Leq(AbsOf(Total(upTo(k))), Total(sizes(k)))
           S == {k \in Nat : k <= n => told(k)}
<1>2. \A i \in 1 .. n : x[i] \in Fractions /\ AbsOf(x[i]) \in Fractions
  BY AbsNotBelow DEF IsWithin
<1>3. 0 \in S
  <2>1. DOMAIN upTo(0) = {} /\ DOMAIN sizes(0) = {}
    OBVIOUS
  <2>2. Total(upTo(0)) = Zero /\ Total(sizes(0)) = Zero
    BY <2>1, TotalOfNone
  <2>3. Zero \in Fractions /\ Zero[1] = 0 /\ Zero[2] = 1 /\ AbsOf(Zero) = Zero
    BY ZeroIsFraction DEF AbsOf, Abs, Zero, Whole
  <2>4. NotBelow(Zero) /\ Leq(Zero, Zero)
    BY <2>3 DEF NotBelow, Leq
  <2>5. IsWithin(Zero, Zero, Times(Ulps(3), Zero))
    <3>1. At(Zero, 1, 0)
      BY <2>3 DEF At
    <3>2. At(Times(Ulps(3), Zero), Finest * 1, 3 * 0)
      BY <3>1, UlpsWork, AtTimes
    <3>3. At(Zero, 1 * Finest, 0 * Finest)
      BY <3>1, UlpsWork, AtScales
    <3>4. 1 * Finest = Finest * 1 /\ 0 * Finest = 0 /\ 3 * 0 = 0
      BY UlpsWork
    <3> QED BY <3>2, <3>3, <3>4, NearAt
  <2>6. 2 * 0 + 3 = 3
    OBVIOUS
  <2> HIDE DEF upTo, sizes
  <2>7. told(0)
    BY <1>1, <2>2, <2>3, <2>4, <2>5, <2>6
  <2> QED BY <2>7
<1>4. ASSUME NEW k \in Nat, k \in S PROVE k + 1 \in S
  <2>1. SUFFICES ASSUME k + 1 <= n PROVE told(k + 1)
    OBVIOUS
  <2>2. told(k)
    BY <1>4, <2>1
  <2> DEFINE m == k + 1
  <2>3. m \in 1 .. n /\ m - 1 = k /\ k \in Nat /\ m \notin 1 .. k /\ (1 .. m) \ {m} = 1 .. k
        /\ 1 .. m \subseteq 1 .. n /\ m \in 1 .. m /\ IsFiniteSet(1 .. m)
    <3>1. 1 \in Int /\ m \in Int /\ m \in 1 .. n /\ m - 1 = k /\ m \notin 1 .. k /\ m \in 1 .. m
      BY <2>1
    <3>2. (1 .. m) \ {m} = 1 .. k /\ 1 .. m \subseteq 1 .. n
      BY <2>1
    <3>3. IsFiniteSet(1 .. m)
      <4> HIDE DEF m
      <4> QED BY <3>1, FS_Interval
    <3> QED BY <3>1, <3>2, <3>3
  <2> DEFINE y == x[m]
             a == Total(sizes(k))
             b == Total(upTo(k))
  <2>4. Total(upTo(m)) = Plus(y, b)
    <3>1. \A i \in 1 .. m : upTo(m)[i] \in Fractions
      BY <1>2, <2>3
    <3>2. Without(upTo(m), 1 .. m, m) = upTo(k)
      BY <2>3 DEF Without
    <3>3. upTo(m)[m] = y /\ DOMAIN upTo(m) = 1 .. m
      BY <2>3
    <3> HIDE DEF upTo, m
    <3> QED BY <2>3, <3>1, <3>2, <3>3, TotalTakesAny
  <2>5. Total(sizes(m)) = Plus(AbsOf(y), a)
    <3>1. \A i \in 1 .. m : sizes(m)[i] \in Fractions
      BY <1>2, <2>3
    <3>2. Without(sizes(m), 1 .. m, m) = sizes(k)
      BY <2>3 DEF Without
    <3>3. sizes(m)[m] = AbsOf(y) /\ DOMAIN sizes(m) = 1 .. m
      BY <2>3
    <3> HIDE DEF sizes, m
    <3> QED BY <2>3, <3>1, <3>2, <3>3, TotalTakesAny
  <2>6. h[m] = Decimal(Plus(h[k], values[m]))
    BY <1>1, <2>3
  <2>7. IsWithin(values[m], y, Times(Ulps(3), AbsOf(y)))
    BY <2>3
  <2>8. IsWithin(h[k], b, Times(Ulps(2 * k + 3), a)) /\ NotBelow(a) /\ Leq(AbsOf(b), a)
    BY <2>2
  <2> HIDE DEF a, b, y, upTo, sizes
  <2> DEFINE l == 2 * k + 3
             z == Plus(AbsOf(y), a)
             t == values[m]
  <2>9. l \in Nat /\ 3 <= l /\ l <= Finest /\ l + 2 = 2 * m + 3
    <3>1. Finest \in Nat
      BY UlpsWork
    <3> QED BY <2>1, <3>1
  <2> HIDE DEF l, m, t
  <2>10. /\ IsWithin(Decimal(Plus(h[k], t)), Plus(y, b), Times(Ulps(l + 2), z))
         /\ NotBelow(z) /\ Leq(AbsOf(Plus(y, b)), z)
    BY <2>7, <2>8, <2>9, DecimalOfSum DEF l, t
  <2>11. told(m)
    BY <2>4, <2>5, <2>6, <2>9, <2>10 DEF t
  <2> QED BY <2>11 DEF m
<1>5. told(n)
  <2> HIDE DEF S, told
  <2>1. Nat \subseteq S
    BY <1>3, <1>4, NatBySets
  <2> QED BY <2>1 DEF S
<1>6. upTo(n) = x
  OBVIOUS
<1> QED BY <1>1, <1>5, <1>6

\* What is off by half of itself at most keeps its sign, and half of its size.
LEMMA SignStays ==
  ASSUME NEW l, NEW k, NEW s, IsWithin(l, k, s), Leq(Times(Whole(2), s), AbsOf(k))
  PROVE  /\ Leq(k, Zero) => Leq(l, Zero)
         /\ Above(k) => Above(l) /\ Leq(k, Times(Whole(2), l))
<1>1. l \in Fractions /\ k \in Fractions /\ s \in Fractions
  BY DEF IsWithin
<1>2. PICK d \in Nat \ {0}, x \in Int, y \in Int, z \in Int :
        At(l, d, x) /\ At(k, d, y) /\ At(s, d, z)
  BY <1>1, AtExists
<1>3. x - y <= z /\ y - x <= z
  BY <1>2, NearAt
<1> DEFINE a == IF y < 0 THEN -y ELSE y
<1>4. At(AbsOf(k), d, a) /\ At(Times(Whole(2), s), d, 2 * z)
  <2>1. At(AbsOf(k), d, a)
    BY <1>1, <1>2, AbsWorks
  <2>2. At(Times(Whole(2), s), d, 2 * z)
    BY <1>2, AtMultiple
  <2> QED BY <2>1, <2>2
<1>5. 2 * z <= a
  BY <1>4, AtLeq
<1>6. At(Zero, d, 0)
  BY ZeroIsFraction DEF At
<1>7. ASSUME Leq(k, Zero) PROVE Leq(l, Zero)
  <2>1. y <= 0
    BY <1>2, <1>6, <1>7, AtLeq
  <2>2. x <= 0
    BY <1>3, <1>5, <2>1
  <2> QED BY <1>2, <1>6, <2>2, AtLeq
<1>8. ASSUME Above(k) PROVE Above(l) /\ Leq(k, Times(Whole(2), l))
  <2>1. ~Leq(k, Zero)
    BY <1>8, ZeroIsFraction, FractionParts DEF Above, Leq
  <2>2. y > 0
    BY <1>2, <1>6, <2>1, AtLeq
  <2>3. y <= 2 * x /\ x > 0
    BY <1>3, <1>5, <2>2
  <2>4. At(Times(Whole(2), l), d, 2 * x)
    BY <1>2, AtMultiple
  <2>5. l[1] * d = x * l[2] /\ l[1] \in Int /\ l[2] \in Nat \ {0}
    BY <1>1, <1>2, FractionParts DEF At
  <2>6. x * l[2] > 0
    BY <2>3, <2>5, PositiveProduct
  <2>7. l[1] > 0
    <3>1. CASE l[1] <= 0
      <4>1. l[1] * d <= 0
        BY <2>5, <3>1
      <4> QED BY <2>5, <2>6, <4>1
    <3> QED BY <2>5, <3>1
  <2> QED BY <1>1, <1>2, <2>3, <2>4, <2>7, AtLeq DEF Above
<1> QED BY <1>7, <1>8

\* The quotient of two numbers, by their common denominator.
LEMMA AtQuotient ==
  ASSUME NEW p, NEW q, NEW d, NEW x, NEW y, At(p, d, x), At(q, d, y), y > 0
  PROVE  At(Over(p, q), y, x)
<1>1. Over(p, q) \in Fractions /\ Over(p, q)[1] * y = x * Over(p, q)[2]
  BY AtOver
<1>2. x \in Int /\ y \in Nat \ {0}
  BY DEF At
<1> QED BY <1>1, <1>2 DEF At

\* Quotients by one number, and by one that is half as large at least.
LEMMA NearOver ==
  ASSUME NEW p, NEW q, NEW s, IsWithin(p, q, s), NEW r, Above(r)
  PROVE  IsWithin(Over(p, r), Over(q, r), Over(s, r))
<1>1. p \in Fractions /\ q \in Fractions /\ s \in Fractions /\ r \in Fractions
  BY DEF IsWithin, Above
<1>2. PICK d \in Nat \ {0}, x \in Int, y \in Int, z \in Int, u \in Int, v \in Int, w \in Int :
        SixAt(p, q, s, r, r, r, d, x, y, z, u, v, w)
  BY <1>1, SixExist
<1>3. At(p, d, x) /\ At(q, d, y) /\ At(s, d, z) /\ At(r, d, u)
  BY <1>2 DEF SixAt
<1>4. u > 0
  <2>1. At(Zero, d, 0)
    BY ZeroIsFraction DEF At
  <2>2. ~Leq(r, Zero)
    BY <1>1, ZeroIsFraction, FractionParts DEF Above, Leq
  <2> QED BY <1>3, <2>1, <2>2, AtLeq
<1>5. At(Over(p, r), u, x) /\ At(Over(q, r), u, y) /\ At(Over(s, r), u, z)
  <2>1. At(Over(p, r), u, x)
    BY <1>3, <1>4, AtQuotient
  <2>2. At(Over(q, r), u, y)
    BY <1>3, <1>4, AtQuotient
  <2>3. At(Over(s, r), u, z)
    BY <1>3, <1>4, AtQuotient
  <2> QED BY <2>1, <2>2, <2>3
<1>6. x - y <= z /\ y - x <= z
  BY <1>3, NearAt
<1> QED BY <1>5, <1>6, NearAt

\* A divisor of at least half the size at most doubles a quotient.
LEMMA OverHalf ==
  ASSUME NEW t, NotBelow(t), NEW k, Above(k), NEW l, Above(l), Leq(k, Times(Whole(2), l))
  PROVE  Leq(Over(t, l), Over(Times(Whole(2), t), k))
<1>1. t \in Fractions /\ k \in Fractions /\ l \in Fractions
  BY DEF NotBelow, Above
<1>2. PICK d \in Nat \ {0}, x \in Int, y \in Int, z \in Int :
        At(t, d, x) /\ At(k, d, y) /\ At(l, d, z)
  BY <1>1, AtExists
<1>3. At(Zero, d, 0)
  BY ZeroIsFraction DEF At
<1>4. Leq(Zero, t) /\ ~Leq(k, Zero) /\ ~Leq(l, Zero)
  BY <1>1, ZeroIsFraction, FractionParts DEF NotBelow, Above, Leq
<1>5. x >= 0 /\ y > 0 /\ z > 0
  <2>1. x >= 0
    BY <1>2, <1>3, <1>4, AtLeq
  <2>2. y > 0
    BY <1>2, <1>3, <1>4, AtLeq
  <2>3. z > 0
    BY <1>2, <1>3, <1>4, AtLeq
  <2> QED BY <2>1, <2>2, <2>3
<1>6. At(Times(Whole(2), l), d, 2 * z) /\ At(Times(Whole(2), t), d, 2 * x)
  BY <1>2, AtMultiple
<1>7. y <= 2 * z
  BY <1>2, <1>6, AtLeq
<1>8. At(Over(t, l), z, x)
  BY <1>2, <1>5, AtQuotient
<1>9. At(Over(Times(Whole(2), t), k), y, 2 * x)
  BY <1>2, <1>5, <1>6, AtQuotient
<1>10. At(Over(t, l), z * y, x * y) /\ At(Over(Times(Whole(2), t), k), y * z, (2 * x) * z)
  BY <1>5, <1>8, <1>9, AtScales
<1>11. z * y = y * z /\ x * y <= (2 * x) * z
  <2>1. x * y <= x * (2 * z)
    BY <1>5, <1>7
  <2>2. x * (2 * z) = (2 * x) * z
    OBVIOUS
  <2> QED BY <2>1, <2>2
<1> QED BY <1>10, <1>11, AtLeq

\* A price: the quotient of two sums.
LEMMA DecimalQuotientIsNear ==
  ASSUME NEW n \in Nat, n <= Finest, NEW m \in Nat, m <= n,
         NEW c, NEW c0, NEW a, IsWithin(c0, c, Times(Ulps(n), a)), Leq(AbsOf(c), a),
         NEW k, NEW k0, NEW b, IsWithin(k0, k, Times(Ulps(m), b)),
         NotBelow(a), NotBelow(b), Above(k), Leq(Times(Whole(2), Times(Ulps(m), b)), AbsOf(k))
  PROVE  LET price == Over(c, k)
         IN  IsWithin(Decimal(Over(c0, k0)), price,
                      Times(Ulps(2 * n + 3), Over(Plus(a, Times(AbsOf(price), b)), k)))
<1> DEFINE X == Over(c, k)
           r == Plus(a, Times(AbsOf(X), b))
           q == Over(r, k)
<1>1. /\ c \in Fractions /\ c0 \in Fractions /\ k \in Fractions /\ k0 \in Fractions
      /\ a \in Fractions /\ b \in Fractions /\ k[1] # 0
  BY FractionParts DEF IsWithin, NotBelow, Above
<1>2. Above(k0) /\ Leq(k, Times(Whole(2), k0)) /\ k0[1] # 0
  <2>1. Above(k0) /\ Leq(k, Times(Whole(2), k0))
    BY SignStays
  <2> QED BY <1>1, <2>1, FractionParts DEF Above
<1>3. X \in Fractions /\ NotBelow(AbsOf(X)) /\ Times(X, k) = c
  <2>1. X \in Fractions
    BY <1>1, OverIsFraction
  <2>2. Times(X, k) = c
    BY <1>1, TimesOfQuotient
  <2> QED BY <2>1, <2>2, AbsNotBelow
<1> HIDE DEF X
<1>4. NotBelow(Times(AbsOf(X), b)) /\ NotBelow(r)
  <2>1. NotBelow(Times(AbsOf(X), b))
    BY <1>3, TimesNotBelow
  <2> QED BY <2>1, PlusNotBelow
<1>5. IsWithin(c0, Times(X, k0), Times(Ulps(n), r))
  <2>1. IsWithin(k, k0, Times(Ulps(m), b))
    BY NearSwaps
  <2>2. IsWithin(k, k0, Times(Ulps(n), b))
    BY <1>1, <2>1, UlpsGrow, UlpsOf, NearGrows
  <2>3. IsWithin(Times(k, X), Times(k0, X), Times(Times(Ulps(n), b), AbsOf(X)))
    BY <1>3, <2>2, NearTimes
  <2>4. Ulps(n) \in Fractions /\ AbsOf(X) \in Fractions /\ Times(AbsOf(X), b) \in Fractions
    BY <1>3, <1>4, UlpsWork DEF NotBelow
  <2>5. Times(Times(Ulps(n), b), AbsOf(X)) = Times(Ulps(n), Times(AbsOf(X), b))
    <3>1. Times(Ulps(n), Times(b, AbsOf(X))) = Times(Times(Ulps(n), b), AbsOf(X))
      BY <1>1, <2>4, TimesAssociates
    <3>2. Times(b, AbsOf(X)) = Times(AbsOf(X), b)
      BY <1>1, <2>4, TimesCommutes
    <3> QED BY <3>1, <3>2
  <2>6. Times(k, X) = c /\ Times(k0, X) = Times(X, k0)
    BY <1>1, <1>3, TimesCommutes
  <2>7. IsWithin(c0, Times(X, k0),
                 Plus(Times(Ulps(n), a), Times(Ulps(n), Times(AbsOf(X), b))))
    BY <2>3, <2>5, <2>6, NearChain
  <2>8. Plus(Times(Ulps(n), a), Times(Ulps(n), Times(AbsOf(X), b))) = Times(Ulps(n), r)
    <3> DEFINE e == Times(AbsOf(X), b)
               u == Ulps(n)
    <3>1. e \in Fractions /\ u \in Fractions /\ Plus(a, e) \in Fractions
      BY <1>1, <2>4, PlusIsFraction
    <3> HIDE DEF e, u
    <3>2. Times(Plus(a, e), u) = Plus(Times(a, u), Times(e, u))
      BY <1>1, <3>1, TimesDistributes
    <3>3. Times(Plus(a, e), u) = Times(u, Plus(a, e)) /\ Times(a, u) = Times(u, a)
          /\ Times(e, u) = Times(u, e)
      BY <1>1, <3>1, TimesCommutes
    <3> QED BY <3>2, <3>3 DEF e, u
  <2> QED BY <2>7, <2>8
<1>6. r \in Fractions /\ NotBelow(q)
  BY <1>4, OverNotBelow DEF NotBelow
<1>7. Leq(AbsOf(X), q)
  <2>1. Leq(Times(AbsOf(X), k), Times(q, k))
    <3>1. AbsOf(k) = k
      BY AbsOfAbove
    <3>2. Times(AbsOf(X), k) = AbsOf(c)
      BY <1>1, <1>3, <3>1, AbsOfTimes
    <3>3. Times(q, k) = r
      BY <1>1, <1>6, TimesOfQuotient
    <3>4. Leq(a, r)
      <4> DEFINE e == Times(AbsOf(X), b)
      <4>1. e \in Fractions /\ Leq(Zero, e)
        BY <1>4, ZeroIsFraction, FractionParts DEF NotBelow, Leq
      <4> HIDE DEF e
      <4>2. PICK d \in Nat \ {0}, x \in Int, y \in Int, z \in Int :
              At(a, d, x) /\ At(e, d, y) /\ At(Zero, d, z)
        BY <1>1, <4>1, ZeroIsFraction, AtExists
      <4>3. z = 0
        BY <4>2, ZeroIsFraction DEF At
      <4>4. y >= 0
        BY <4>1, <4>2, <4>3, AtLeq
      <4>5. At(Plus(a, e), d, x + y)
        BY <4>2, AtPlus
      <4>6. x <= x + y
        BY <4>4
      <4> QED BY <4>2, <4>5, <4>6, AtLeq DEF e
    <3>5. AbsOf(c) \in Fractions
      BY <1>1, AbsNotBelow
    <3> QED BY <1>1, <1>6, <3>2, <3>3, <3>4, <3>5, LeqIsAnOrder
  <2> DEFINE e == AbsOf(X)
  <2>2. e \in Fractions /\ q \in Fractions
    BY <1>3, <1>6 DEF NotBelow
  <2> HIDE DEF e, q
  <2>3. NotBelow(Over(Whole(1), k)) /\ Over(Whole(1), k) \in Fractions
    <3>1. NotBelow(Whole(1))
      BY WholeIsFraction DEF NotBelow
    <3> QED BY <3>1, OverNotBelow DEF NotBelow
  <2>4. ASSUME NEW p \in Fractions PROVE Times(Times(p, k), Over(Whole(1), k)) = p
    <3>1. Times(Times(p, k), Over(Whole(1), k)) = Times(p, Times(k, Over(Whole(1), k)))
      BY <1>1, <2>3, TimesAssociates
    <3>2. Times(k, Over(Whole(1), k)) = Whole(1)
      BY <1>1, <2>3, WholeIsFraction, TimesCommutes, TimesOfQuotient
    <3>3. Times(p, Whole(1)) = p
      BY TimesOne, TimesCommutes, WholeIsFraction
    <3> QED BY <3>1, <3>2, <3>3
  <2>5. Times(e, k) \in Fractions /\ Times(q, k) \in Fractions
    BY <1>1, <2>2, TimesIsFraction
  <2> QED BY <2>1, <2>2, <2>3, <2>4, <2>5, TimesKeepsOrder DEF e
<1>8. IsWithin(Over(c0, k0), X, Times(Ulps(2 * n), q))
  <2> DEFINE t == Times(Ulps(n), r)
  <2>1. IsWithin(Over(c0, k0), Over(Times(X, k0), k0), Over(t, k0))
    BY <1>2, <1>5, NearOver
  <2>2. Over(Times(X, k0), k0) = X
    BY <1>1, <1>2, <1>3, TimesCommutes, OverOfTimes
  <2>3. NotBelow(t) /\ t \in Fractions
    BY <1>4, UlpsWork, TimesNotBelow DEF NotBelow
  <2>4. Leq(Over(t, k0), Over(Times(Whole(2), t), k))
    <3> HIDE DEF t
    <3> QED BY <1>2, <2>3, OverHalf
  <2>5. Over(Times(Whole(2), t), k) = Times(Ulps(2 * n), q)
    <3>1. Times(Whole(2), t) = Times(Times(Whole(2), Ulps(n)), r)
      BY <1>6, UlpsWork, WholeIsFraction, TimesAssociates DEF NotBelow
    <3>2. Times(Whole(2), Ulps(n)) = Ulps(2 * n)
      <4> DEFINE j == 2 * n
      <4>1. j \in Nat
        OBVIOUS
      <4>2. At(Times(Whole(2), Ulps(n)), Finest, j)
        BY UlpsWork, AtMultiple
      <4> HIDE DEF j
      <4>3. At(Ulps(j), Finest, j)
        BY <4>1, UlpsWork
      <4> QED BY <4>2, <4>3, AtLeq DEF j
    <3>3. Times(q, k) = r
      BY <1>1, <1>6, TimesOfQuotient
    <3> DEFINE u == Ulps(2 * n)
    <3>4. u \in Fractions /\ q \in Fractions
      <4>1. 2 * n \in Nat
        OBVIOUS
      <4> QED BY <1>6, <4>1, UlpsWork DEF NotBelow
    <3> HIDE DEF q, t, u
    <3>5. Times(u, r) = Times(Times(u, q), k) /\ Times(u, q) \in Fractions
      BY <1>1, <3>3, <3>4, TimesAssociates, TimesIsFraction
    <3>6. Times(Times(u, q), k) = Times(k, Times(u, q))
      BY <1>1, <3>5, TimesCommutes
    <3> QED BY <1>1, <3>1, <3>2, <3>5, <3>6, OverOfTimes DEF u
  <2>6. Times(Ulps(2 * n), q) \in Fractions
    <3>1. 2 * n \in Nat /\ q \in Fractions
      BY <1>6 DEF NotBelow
    <3> QED BY <3>1, UlpsOf
  <2> HIDE DEF t
  <2> QED BY <2>1, <2>2, <2>4, <2>5, <2>6, NearGrows
<1> HIDE DEF q
<1>9. 2 * n \in Nat /\ 2 * n <= 2 * Finest /\ 2 * n + 2 + 1 = 2 * n + 3 /\ 2 \in Nat
  BY UlpsWork
<1> DEFINE j == 2 * n
<1>10. IsWithin(Decimal(Over(c0, k0)), X, Times(Ulps(j + 2 + 1), q))
  <2>1. j \in Nat /\ j <= 2 * Finest
    BY <1>9
  <2>2. IsWithin(Over(c0, k0), X, Times(Ulps(j), q))
    BY <1>8
  <2> HIDE DEF j
  <2> QED BY <1>6, <1>7, <1>9, <2>1, <2>2, DecimalOfNear
<1> QED BY <1>9, <1>10 DEF X, q
==============================================================================
