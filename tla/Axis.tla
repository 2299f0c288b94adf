-------------------------------- MODULE Axis ---------------------------------
(***************************************************************************)
(* The axis domains of src/frontend/src/lib/axis.ts.  A domain is a        *)
(* minimum, a maximum and a step; its ticks are the multiples of the step  *)
(* from one to the other.  The values come as a set; null is none that is  *)
(* finite.                                                                 *)
(***************************************************************************)
EXTENDS Rationals, SequencesExt

Least(values)    == CHOOSE p \in values : \A q \in values : Leq(p, q)
Greatest(values) == CHOOSE p \in values : \A q \in values : Leq(q, p)

\* niceStep: the least of the factors that reaches the rough step.
NiceStep(span, targetTicks) ==
  LET rough     == Over(span, Whole(targetTicks))
      magnitude == Magnitude(rough)
      factor    == Min({f \in {1, 2, 5, 10} : Leq(rough, Times(Whole(f), magnitude))})
  IN  IF Leq(span, Zero) THEN Whole(1) ELSE Times(Whole(factor), magnitude)

Finite(values) == {v \in values : v \in Fractions}

UnitDomain == [min |-> Zero, max |-> Whole(1), step |-> Whole(1)]

\* Mutant: the axis starts at the raw minimum, so every tick is an odd number.
DomainFromRawMinimum(floor, dataMax, step) ==
  LET max == Plus(floor, Times(Whole(Ceil(Over(Minus(dataMax, floor), step))), step))
  IN  [min |-> floor, step |-> step,
       max |-> IF max = floor THEN Plus(floor, step) ELSE max]

\* From the multiple of step below floor to the one above dataMax, and one
\* step higher when the two coincide.
DomainFrom(floor, dataMax, step) ==
  LET min == Times(Whole(Floor(Over(floor, step))), step)
      max == Plus(min, Times(Whole(Ceil(Over(Minus(dataMax, min), step))), step))
  IN  [min |-> min, step |-> step,
       max |-> IF max = min THEN Plus(min, step) ELSE max]

ZeroBasedDomain(values, targetTicks) ==
  LET dataMax == Greatest(Finite(values) \cup {Zero})
      dataMin == Least(Finite(values) \cup {Zero})
  IN  IF Finite(values) = {} THEN UnitDomain
      ELSE DomainFrom(dataMin, dataMax,
                      NiceStep(Minus(dataMax, dataMin), targetTicks))

\* padFraction is 0.015: the floor lies 1.5 % nearer to zero than the data.
PaddedDomain(values, targetTicks) ==
  LET dataMax == Greatest(Finite(values))
      floor   == Times(Least(Finite(values)), Frac(985, 1000))
  IN  IF Finite(values) = {} THEN UnitDomain
      ELSE DomainFrom(floor, dataMax,
                      NiceStep(Minus(dataMax, floor), targetTicks))

SymmetricDomain(values, targetTicks) ==
  LET peak  == Greatest({AbsOf(v) : v \in Finite(values)} \cup {Zero})
      step  == NiceStep(Times(peak, Whole(2)), targetTicks)
      bound == Times(Whole(Ceil(Over(peak, step))), step)
  IN  IF peak = Zero
      THEN [min |-> Whole(-1), max |-> Whole(1), step |-> Whole(1)]
      ELSE [min |-> Minus(Zero, bound), max |-> bound, step |-> step]

\* ticksBetween: the ticks drawn, computed from the first one.
Ticks(domain) ==
  LET count == Nearest(Over(Minus(domain.max, domain.min), domain.step))
  IN  [i \in 1 .. count + 1 |->
         Plus(domain.min, Times(Whole(i - 1), domain.step))]
==============================================================================
