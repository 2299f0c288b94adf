------------------------------- MODULE Metrics -------------------------------
(***************************************************************************)
(* The derived metrics of src/frontend/src/lib/metrics.ts, function by     *)
(* function.                                                               *)
(*                                                                         *)
(* A day is a number and a calendar month is the index of an entry of      *)
(* MonthStart, the first day of every month; the last entry only ends the  *)
(* month before it.  A Date is the local midnight of a day, which lies     *)
(* HoursEast[day] hours before midnight UTC: HoursEast moves with daylight *)
(* saving time.  Money, kWh and prices are fractions (module Rationals),   *)
(* and Null is the null of the API, which is never a zero.                 *)
(***************************************************************************)
EXTENDS Rationals, SequencesExt

CONSTANTS
  Null,
  MonthStart,     \* the first day of every calendar month, in order
  MonthsPerYear,  \* 12 in the code; every window of a year is this long
  HoursEast,      \* the offset of every day's local midnight
  MoneyScale,     \* 10 ** 2: money and kWh are rounded to 1 / MoneyScale
  PriceScale      \* 10 ** 4: prices per kWh are rounded to 1 / PriceScale

CalendarMonths == 1 .. Len(MonthStart) - 1
CalendarDays == MonthStart[1] .. MonthStart[Len(MonthStart)] - 1

ASSUME CalendarAssumption ==
  /\ MonthsPerYear \in Nat \ {0}
  /\ MoneyScale \in Nat \ {0} /\ PriceScale \in Nat \ {0}
  /\ Null \notin Int /\ Null \notin Fractions
  /\ MonthStart \in Seq(Nat) /\ Len(MonthStart) > 1
  /\ \A m \in CalendarMonths : MonthStart[m] < MonthStart[m + 1]

\* "Less than two months on record" is not said of a whole year of them.
ASSUME YearAssumption == MonthsPerYear > 1

\* A zone keeps to its side of the globe: summer time moves a midnight by an
\* hour or two, and never by half a day.  Dates are compared as days because
\* their midnights come in the same order.
ASSUME ZoneAssumption ==
  \A d, e \in CalendarDays :
    HoursEast[d] \in -12 .. 14 /\ HoursEast[d] - HoursEast[e] \in -11 .. 11

(***************************************************************************)
(* Dates                                                                   *)
(***************************************************************************)
LastDay(m)     == MonthStart[m + 1] - 1
DaysInMonth(m) == MonthStart[m + 1] - MonthStart[m]
MonthOf(d)     == CHOOSE m \in CalendarMonths :
                    MonthStart[m] <= d /\ d <= LastDay(m)
YearOf(m)        == (m - 1) \div MonthsPerYear
MonthInYear(m)   == ((m - 1) % MonthsPerYear) + 1

\* parseDate: local midnight, in hours since day 0 UTC.
LocalMidnight(d) == 24 * d - HoursEast[d]

\* Mutant: whole 24-hour days between the midnights, without the rounding.
InclusiveDaysTruncated(start, end) ==
  (LocalMidnight(end) - LocalMidnight(start)) \div 24 + 1

\* inclusiveDays: the rounding is what a 23 or 25 hour day needs.
InclusiveDays(start, end) ==
  Nearest(Frac(LocalMidnight(end) - LocalMidnight(start), 24)) + 1

\* toISOString().slice(0, 10): the UTC day of a local midnight.
PrintedDay(d) == LocalMidnight(d) \div 24

OverlapDays(aStart, aEnd, bStart, bEnd) ==
  LET start == Max({aStart, bStart})
      end   == Min({aEnd, bEnd})
  IN  IF end >= start THEN InclusiveDays(start, end) ELSE 0

(***************************************************************************)
(* Lists, and sums of what is known                                        *)
(***************************************************************************)
\* The numbers of a set, least first, and the part of a list at some indices:
\* sort and filter.
InOrder(numbers) ==
  [k \in 1 .. Cardinality(numbers) |->
     CHOOSE n \in numbers : Cardinality({j \in numbers : j <= n}) = k]
Sublist(list, indices) ==
  [k \in 1 .. Cardinality(indices) |-> list[InOrder(indices)[k]]]

Known(items, field) ==
  Sublist(items, {i \in DOMAIN items : items[i][field] # Null})
Column(items, field) == [i \in DOMAIN items |-> items[i][field]]
TotalOf(items, field) == Total(Column(Known(items, field), field))

RoundedOrNull(p, scale) == IF p = Null THEN Null ELSE Rounded(p, scale)

(***************************************************************************)
(* One bill                                                                *)
(***************************************************************************)
ParseBill(bill) ==
  [id           |-> bill.id,
   periodStart  |-> bill.period_start,
   periodEnd    |-> bill.period_end,
   days         |-> InclusiveDays(bill.period_start, bill.period_end),
   consumption  |-> bill.consumption,
   unitPrice    |-> bill.unit_price,
   fixedCharges |-> bill.fixed_charges,
   taxes        |-> bill.taxes,
   total        |-> bill.total_amount]

\* The list comes newest first; a stable sort makes it oldest first: a bill is
\* behind those that start before it and those above it that start with it.
OldestFirst(bills) ==
  LET start(i) == bills[i].period_start
      place(i) == Cardinality({j \in DOMAIN bills :
                    \/ start(j) < start(i)
                    \/ start(j) = start(i) /\ j <= i})
  IN  [k \in DOMAIN bills |-> bills[CHOOSE i \in DOMAIN bills : place(i) = k]]
ParseBills(bills) ==
  LET ordered == OldestFirst(bills)
  IN  [k \in DOMAIN ordered |-> ParseBill(ordered[k])]

EffectivePrice(bill) ==
  IF bill.consumption = Null THEN Null
  ELSE IF Leq(bill.consumption, Zero) THEN Null
  ELSE Over(bill.total, bill.consumption)

EffectivePriceSeries(bills) ==
  SelectSeq([i \in DOMAIN bills |-> EffectivePrice(bills[i])],
            LAMBDA price : price # Null)

EnergyCharge(bill) ==
  IF bill.consumption = Null \/ bill.unitPrice = Null THEN Null
  ELSE Times(bill.consumption, bill.unitPrice)

CostPerDay(bill) == Over(bill.total, Whole(bill.days))

PctChange(from, to) ==
  IF from = Zero THEN Null
  ELSE Times(Over(Minus(to, from), AbsOf(from)), Whole(100))

(***************************************************************************)
(* Monthly buckets                                                         *)
(***************************************************************************)
Share(bill, m) ==
  Frac(OverlapDays(bill.periodStart, bill.periodEnd, MonthStart[m], LastDay(m)),
       bill.days)

\* Mutant: what no bill of the month tells counts as zero.
ProratedOrZero(bills, m, figures) ==
  Total([i \in DOMAIN bills |-> IF figures[i] = Null THEN Zero
                                ELSE Times(figures[i], Share(bills[i], m))])

\* What a month receives of one figure of its bills: null when none has it.
Prorated(bills, m, figures) ==
  IF ToSet(figures) \subseteq {Null} THEN Null
  ELSE Total([i \in DOMAIN bills |-> IF figures[i] = Null THEN Zero
                                     ELSE Times(figures[i], Share(bills[i], m))])

Bucket(bills, m) ==
  LET part(f)   == Prorated(bills, m, Column(bills, f))
      cost      == part("total")
      kwh       == part("consumption")
      energy    == Prorated(bills, m, [i \in DOMAIN bills |-> EnergyCharge(bills[i])])
      divisible == kwh # Null /\ ~Leq(IF kwh = Null THEN Zero ELSE kwh, Zero)
  IN  [period    |-> m,
       cost      |-> Rounded(cost, MoneyScale),
       kwh       |-> RoundedOrNull(kwh, MoneyScale),
       effective |-> IF divisible THEN Rounded(Over(cost, kwh), PriceScale)
                     ELSE Null,
       unitPrice |-> IF divisible /\ energy # Null
                     THEN Rounded(Over(energy, kwh), PriceScale) ELSE Null,
       energy    |-> RoundedOrNull(energy, MoneyScale),
       fixed     |-> RoundedOrNull(part("fixedCharges"), MoneyScale),
       taxes     |-> RoundedOrNull(part("taxes"), MoneyScale),
       perDay    |-> Rounded(Over(cost, Whole(DaysInMonth(m))), MoneyScale),
       billIds   |-> [i \in DOMAIN bills |-> bills[i].id]]

\* The bills that cover a day of a month, and the months they cover.
Touches(bill, m) ==
  OverlapDays(bill.periodStart, bill.periodEnd, MonthStart[m], LastDay(m)) > 0
Touching(bills, m) ==
  Sublist(bills, {i \in DOMAIN bills : Touches(bills[i], m)})
MonthsOf(bills) ==
  {m \in CalendarMonths : \E i \in DOMAIN bills : Touches(bills[i], m)}

\* Mutant: the months come newest first, as the API sends the bills.
MonthlyBucketsNewestFirst(bills) ==
  LET months == Reverse(InOrder(MonthsOf(bills)))
  IN  [i \in DOMAIN months |-> Bucket(Touching(bills, months[i]), months[i])]

MonthlyBuckets(bills) ==
  LET months == InOrder(MonthsOf(bills))
  IN  [i \in DOMAIN months |-> Bucket(Touching(bills, months[i]), months[i])]

NoBucket == [period |-> Null]
HasMonth(buckets, m) == \E i \in DOMAIN buckets : buckets[i].period = m
FindMonth(buckets, m) ==
  IF HasMonth(buckets, m)
  THEN buckets[CHOOSE i \in DOMAIN buckets : buckets[i].period = m]
  ELSE NoBucket

\* Mutant: the loop ends before it has pushed the last month.
FillMonthsShort(buckets) ==
  IF buckets = <<>> THEN <<>>
  ELSE LET first == buckets[1].period
       IN  [i \in 1 .. Last(buckets).period - first |->
              IF HasMonth(buckets, first + i - 1)
              THEN FindMonth(buckets, first + i - 1) ELSE Null]

\* A contiguous axis; only this function makes up nulls.
FillMonths(buckets) ==
  IF buckets = <<>> THEN <<>>
  ELSE LET first == buckets[1].period
       IN  [i \in 1 .. Last(buckets).period - first + 1 |->
              IF HasMonth(buckets, first + i - 1)
              THEN FindMonth(buckets, first + i - 1) ELSE Null]

\* slice(-n) and slice(-2n, -n).
Trailing(s, n) == SubSeq(s, Max({1, Len(s) - n + 1}), Len(s))
BeforeTrailing(s, n) ==
  SubSeq(s, Max({1, Len(s) - 2 * n + 1}), Len(s) - n)

(***************************************************************************)
(* Derived metrics                                                         *)
(***************************************************************************)
NoDelta == [abs |-> Null, pct |-> Null]
Delta(prior, current) ==
  IF prior = Null \/ current = Null THEN NoDelta
  ELSE [abs |-> Minus(current, prior), pct |-> PctChange(prior, current)]

WindowTotals(buckets) ==
  LET cost  == TotalOf(buckets, "cost")
      known == Known(buckets, "kwh")
      kwh   == TotalOf(known, "kwh")
      days  == Total([i \in DOMAIN buckets |-> Whole(DaysInMonth(buckets[i].period))])
  IN  [months    |-> Len(buckets),
       cost      |-> Rounded(cost, MoneyScale),
       kwh       |-> IF known = <<>> THEN Null ELSE Rounded(kwh, MoneyScale),
       effective |-> IF Leq(kwh, Zero) THEN Null
                     ELSE Rounded(Over(cost, kwh), PriceScale),
       perDay    |-> IF buckets = <<>> THEN Null
                     ELSE Rounded(Over(cost, days), MoneyScale)]

TrailingComparison(buckets) ==
  LET c == WindowTotals(Trailing(buckets, MonthsPerYear))
      p == WindowTotals(BeforeTrailing(buckets, MonthsPerYear))
  IN  [current   |-> c,
       prior     |-> p,
       partial   |-> c.months < MonthsPerYear \/ p.months < MonthsPerYear,
       cost      |-> Delta(p.cost, c.cost),
       kwh       |-> Delta(p.kwh, c.kwh),
       effective |-> Delta(p.effective, c.effective)]

\* Mutant: twelve entries back instead of twelve months back.
YoyDeltaByPosition(buckets, m, field) ==
  LET i == CHOOSE i \in DOMAIN buckets : buckets[i].period = m
  IN  IF ~HasMonth(buckets, m) THEN NoDelta
      ELSE IF i <= MonthsPerYear THEN NoDelta
      ELSE Delta(buckets[i - MonthsPerYear][field], buckets[i][field])

\* The same calendar month of the year before; no counterpart is no delta.
YoyDelta(buckets, m, field) ==
  IF HasMonth(buckets, m) /\ HasMonth(buckets, m - MonthsPerYear)
  THEN Delta(FindMonth(buckets, m - MonthsPerYear)[field],
             FindMonth(buckets, m)[field])
  ELSE NoDelta

Composition(items) ==
  LET total    == Rounded(TotalOf(items, "total"), MoneyScale)
      part     == [f \in {"energy", "fixed", "taxes"} |->
                     IF items = <<>> \/ Known(items, f) # items THEN Null
                     ELSE Rounded(TotalOf(items, f), MoneyScale)]
      known    == \A f \in DOMAIN part : part[f] # Null
  IN  [part        |-> part,
       total       |-> total,
       shares      |-> [f \in DOMAIN part |->
                          IF part[f] = Null \/ total = Zero THEN Null
                          ELSE Times(Over(part[f], total), Whole(100))],
       unexplained |->
         IF ~known THEN Null
         ELSE Rounded(Minus(total, Plus(part.energy,
                                        Plus(part.fixed, part.taxes))),
                      MoneyScale)]

IndexToFirst(values) ==
  LET bases == {i \in DOMAIN values : values[i] \notin {Null, Zero}}
  IN  [i \in DOMAIN values |->
         IF bases = {} \/ values[i] = Null THEN Null
         ELSE Times(Over(values[i], values[Min(bases)]), Whole(100))]

ContractRateChange(bills) ==
  LET priced == Known(bills, "unitPrice")
      first  == IF priced = <<>> THEN Null ELSE Head(priced).unitPrice
      latest == IF priced = <<>> THEN Null ELSE Last(priced).unitPrice
      change == Delta(first, latest)
  IN  [first |-> first, latest |-> latest, abs |-> change.abs, pct |-> change.pct]

\* Mutant: the baseline is the latest price, not the first.
CumulativeExcessOfLatest(buckets) ==
  LET priced     == Known(buckets, "effective")
      excess(b)  == IF b.effective = Null \/ b.kwh = Null THEN Zero
                    ELSE Times(Minus(b.effective, Last(priced).effective), b.kwh)
  IN  IF priced = <<>> THEN <<>>
      ELSE [i \in DOMAIN buckets |->
              [period |-> buckets[i].period,
               value  |-> Rounded(Total([j \in 1 .. i |-> excess(buckets[j])]),
                                  MoneyScale)]]

CumulativeExcess(buckets) ==
  LET priced     == Known(buckets, "effective")
      excess(b)  == IF b.effective = Null \/ b.kwh = Null THEN Zero
                    ELSE Times(Minus(b.effective, Head(priced).effective), b.kwh)
  IN  IF priced = <<>> THEN <<>>
      ELSE [i \in DOMAIN buckets |->
              [period |-> buckets[i].period,
               value  |-> Rounded(Total([j \in 1 .. i |-> excess(buckets[j])]),
                                  MoneyScale)]]

\* The latest price moved on by the drift of the last four priced months,
\* times the consumption of the same month a year ago; stops at the first
\* month that has none.
Forecast(buckets, count) ==
  LET priced  == Known(buckets, "effective")
      window  == Trailing(priced, 4)
      drift   == Over(Minus(Last(window).effective, Head(window).effective),
                      Whole(Len(window) - 1))
      month(i)   == Last(priced).period + i
      twin(i)    == FindMonth(buckets, month(i) - MonthsPerYear)
      reaches(i) == \A j \in 1 .. i :
                      /\ HasMonth(buckets, month(j) - MonthsPerYear)
                      /\ twin(j).kwh # Null
      price(i) == Plus(Last(priced).effective, Times(Whole(i), drift))
  IN  IF Len(priced) < 2 THEN <<>>
      ELSE [i \in 1 .. Cardinality({n \in 1 .. count : reaches(n)}) |->
              [period |-> month(i),
               value  |-> Rounded(Times(price(i), twin(i).kwh), MoneyScale)]]

(***************************************************************************)
(* The headline: which story the two windows tell                          *)
(***************************************************************************)
SameSign(p, q) ==
  (Less(Zero, p) <=> Less(Zero, q)) /\ (Less(p, Zero) <=> Less(q, Zero))

\* Mutant: the first branch asks how far the spend moved, not which way.
HeadlineBySize(comparison) ==
  LET spend == comparison.cost.pct
  IN  IF comparison.current.months < 2 \/ comparison.prior.months = 0
      THEN "insufficient"
      ELSE IF spend = Null THEN "insufficient"
      ELSE IF ~Less(AbsOf(spend), Whole(5)) THEN "savings"
      ELSE "steady"

Headline(comparison) ==
  LET spend == comparison.cost.pct
      use   == comparison.kwh.pct
      moved(p, least) == p # Null /\ ~Less(AbsOf(p), Whole(least))
  IN  IF comparison.current.months < 2 \/ comparison.prior.months = 0
      THEN "insufficient"
      ELSE IF spend = Null THEN "insufficient"
      ELSE IF Leq(spend, Whole(-5)) THEN "savings"
      ELSE IF Less(Whole(5), AbsOf(spend)) /\ use # Null /\ ~moved(use, 3)
      THEN "price"
      ELSE IF moved(use, 3) /\ SameSign(use, spend)
      THEN "consumption"
      ELSE "steady"

(***************************************************************************)
(* The shape of a tariff, and one month against all the others             *)
(***************************************************************************)
\* The value that is k-th when a list is sorted.
Ranked(values, k) ==
  CHOOSE v \in ToSet(values) :
    /\ Cardinality({i \in DOMAIN values : Less(values[i], v)}) < k
    /\ Cardinality({i \in DOMAIN values : Leq(values[i], v)}) >= k

Median(values) ==
  LET mid == (Len(values) \div 2) + 1
  IN  IF values = <<>> THEN Null
      ELSE IF Len(values) % 2 = 1 THEN Ranked(values, mid)
      ELSE Over(Plus(Ranked(values, mid - 1), Ranked(values, mid)), Whole(2))

\* A bill whose taxes have a base, and that base.
TaxBase(bill) == Plus(EnergyCharge(bill), bill.fixedCharges)
IsSplit(bill) == /\ Null \notin {bill.taxes, EnergyCharge(bill), bill.fixedCharges}
                 /\ Less(Zero, TaxBase(bill))

\* Mutant: the taxes as a part of the energy alone.
TariffShapeOfEnergy(bills) ==
  LET split == Sublist(bills, {i \in DOMAIN bills : IsSplit(bills[i])})
      rate  == ContractRateChange(bills)
  IN  [fixedPerBill    |-> Median(Column(Known(bills, "fixedCharges"), "fixedCharges")),
       taxRate         |-> Median([i \in DOMAIN split |->
                                     Over(split[i].taxes, EnergyCharge(split[i]))]),
       firstUnitPrice  |-> rate.first,
       latestUnitPrice |-> rate.latest]

TariffShape(bills) ==
  LET split == Sublist(bills, {i \in DOMAIN bills : IsSplit(bills[i])})
      rate  == ContractRateChange(bills)
  IN  [fixedPerBill    |-> Median(Column(Known(bills, "fixedCharges"), "fixedCharges")),
       taxRate         |-> Median([i \in DOMAIN split |->
                                     Over(split[i].taxes, TaxBase(split[i]))]),
       firstUnitPrice  |-> rate.first,
       latestUnitPrice |-> rate.latest]

NoComparison == [against |-> Null, againstValue |-> Null, delta |-> NoDelta]

\* against: a price beside that of another month.
Against(value, other) ==
  IF other = NoBucket \/ value = Null THEN NoComparison
  ELSE IF other.effective = Null THEN NoComparison
  ELSE [against |-> other.period, againstValue |-> other.effective,
        delta |-> Delta(other.effective, value)]

\* The first of the priced months that have the least price.
Cheapest(priced) ==
  FoldLeft(LAMBDA best, b : IF best = NoBucket THEN b
                            ELSE IF Less(b.effective, best.effective) THEN b
                            ELSE best,
           NoBucket, priced)

BillComparisons(buckets, m) ==
  LET index   == CHOOSE i \in DOMAIN buckets : buckets[i].period = m
      value   == buckets[index].effective
      window  == Known(SubSeq(buckets, Max({1, index - MonthsPerYear}), index - 1),
                       "effective")
      average == Over(TotalOf(window, "effective"), Whole(Len(window)))
      others  == Sublist(buckets, {i \in DOMAIN buckets : buckets[i].period # m})
  IN  IF ~HasMonth(buckets, m)
      THEN [cell \in {"previousMonth", "sameMonthLastYear",
                      "twelveMonthAverage", "cheapestMonth"} |-> NoComparison]
      ELSE [previousMonth |->
              Against(value, IF index > 1 THEN buckets[index - 1] ELSE NoBucket),
            sameMonthLastYear |-> Against(value, FindMonth(buckets, m - MonthsPerYear)),
            twelveMonthAverage |->
              IF window = <<>> \/ value = Null THEN NoComparison
              ELSE [against      |-> Len(window),
                    againstValue |-> Rounded(average, PriceScale),
                    delta        |-> Delta(average, value)],
            cheapestMonth |-> Against(value, Cheapest(Known(others, "effective")))]
==============================================================================
