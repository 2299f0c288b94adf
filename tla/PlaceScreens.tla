---------------------------- MODULE PlaceScreens -----------------------------
(***************************************************************************)
(* The screens that read one place's bills: the dashboard, the comparison, *)
(* one bill and the management page, pages/*.tsx.  The state is what React *)
(* keeps: the answer of the bills query, the months derived from it by     *)
(* useMemo, and the local state of the page that is mounted.  What a page  *)
(* prints is an operator over that state.                                  *)
(***************************************************************************)
EXTENDS Compare, Series

CONSTANTS
  Records,        \* the lists of bills a place may have, as the API sends them
  MetricsClicked  \* bound: the metrics a user clicks, some of MetricIds

\* What the schema of a bill promises: a utility, a period, decimals that may
\* be unknown, and a total.  A credit note has negative ones.
Amounts == Fractions \cup {Null}
IsBill(b) ==
  /\ b.utility_type \in {"electricity", "gas", "water"}
  /\ b.period_start \in CalendarDays /\ b.period_end \in CalendarDays
  /\ b.period_start <= b.period_end
  /\ b.consumption \in Amounts /\ b.unit_price \in Amounts
  /\ b.fixed_charges \in Amounts /\ b.taxes \in Amounts
  /\ b.total_amount \in Fractions

ASSUME RecordsAssumption ==
  /\ MetricsClicked \subseteq MetricIds
  /\ \A r \in Records :
       /\ r \in Seq(ToSet(r)) /\ \A b \in ToSet(r) : IsBill(b)
       /\ \A i, j \in DOMAIN r : r[i].id = r[j].id => i = j

\* No place has so many bills that sums of them outgrow the server's digits.
ASSUME PrecisionAssumption ==
  \A r \in Records : 2 * Len(r) + 3 <= 2 * Ten[Digits - 1]

VARIABLES
  page,           \* the mounted page
  data,           \* the data of the bills query; <<>> while there is none
  buckets,        \* monthlyBuckets(parsed), memoised on the data
  range,          \* useState of the pages below
  granularity,
  metricId,
  modeId,
  sameMonth,
  excludedYears

local == <<range, granularity, metricId, modeId, sameMonth, excludedYears>>
vars  == <<page, data, buckets, local>>

Pages == {"dashboard", "compare", "bill", "manage"}
Ranges == {"12m", "24m", "all"}

(***************************************************************************)
(* What the pages derive                                                   *)
(***************************************************************************)
parsed == ParseBills(data)
Bills  == ToSet(data)

\* What the server's series and summary are about: the bills of the default
\* utility, where the pages have all bills of the place.
Fetched == FetchBills(data, "electricity")

\* RANGE_MONTHS, and the slice it takes of any list of months.
RangeMonths == [r \in Ranges |->
  IF r = "12m" THEN MonthsPerYear ELSE IF r = "24m" THEN 2 * MonthsPerYear ELSE Null]
InRange(list) ==
  IF RangeMonths[range] = Null THEN list ELSE Trailing(list, RangeMonths[range])

\* The month a bill is listed under, on every page.
PeriodOf(bill) == MonthOf(bill.periodEnd)

\* Mutant: the bills of the range by the month they start in.
BillsStartedInRange ==
  IF RangeMonths[range] = Null \/ InRange(buckets) = <<>> THEN parsed
  ELSE Sublist(parsed, {i \in DOMAIN parsed :
                 MonthOf(parsed[i].periodStart) >= InRange(buckets)[1].period})

\* DashboardPage: the bills of the range, by the month they end in.
BillsInRange ==
  IF RangeMonths[range] = Null \/ InRange(buckets) = <<>> THEN parsed
  ELSE Sublist(parsed, {i \in DOMAIN parsed :
                 PeriodOf(parsed[i]) >= InRange(buckets)[1].period})

\* DashboardPage: bills shaped like months, each with its own day.
BillsAsPoints(bills) ==
  [i \in DOMAIN bills |->
     [period    |-> PrintedDay(bills[i].periodEnd),
      cost      |-> bills[i].total,
      kwh       |-> bills[i].consumption,
      effective |-> EffectivePrice(bills[i]),
      unitPrice |-> bills[i].unitPrice,
      energy    |-> EnergyCharge(bills[i]),
      fixed     |-> bills[i].fixedCharges,
      taxes     |-> bills[i].taxes,
      perDay    |-> CostPerDay(bills[i]),
      billIds   |-> <<bills[i].id>>]]

HeroRows ==
  IF granularity = "month" THEN InRange(buckets) ELSE BillsAsPoints(BillsInRange)

\* HeroPriceUse: kWh on the left axis, both prices on the right one; its
\* tooltip looks for the year before among the rows it was given, and a day
\* is never the name of a month.
HeroTip(m, field) ==
  IF granularity = "month" THEN YoyDelta(HeroRows, m, field) ELSE NoDelta
HeroAxes ==
  LET kwh    == {HeroRows[i].kwh : i \in DOMAIN HeroRows}
      prices == {HeroRows[i][field] : i \in DOMAIN HeroRows,
                                      field \in {"effective", "unitPrice"}}
  IN  [left  |-> [values |-> kwh, domain |-> ZeroBasedDomain(kwh, 4)],
       right |-> [values |-> prices, domain |-> PaddedDomain(prices, 4)]]

\* RateEvidence: one dot per bill of the range that has a price per kWh, and
\* the price a tariff implies at a level of use, where the bills tell it.
Dots == Sublist(BillsInRange, {i \in DOMAIN BillsInRange :
                                 EffectivePrice(BillsInRange[i]) # Null})
Curve(tariff, price, kwh) ==
  IF Null \in {price, tariff.fixedPerBill, tariff.taxRate} THEN Null
  ELSE Times(Plus(Whole(1), tariff.taxRate),
             Plus(price, Over(tariff.fixedPerBill, kwh)))

\* The curve at up to this many levels of use, at least one kWh apart.
CurveSamples == 40
Samples(tariff, price, from, to) ==
  LET rough == Over(Minus(to, from), Whole(CurveSamples))
      step  == IF Less(rough, Whole(1)) THEN Whole(1) ELSE rough
  IN  {Curve(tariff, price, Plus(from, Times(Whole(i), step))) :
         i \in 1 .. Floor(Over(Minus(to, from), step))}

\* Its axes, when it has a dot: use, never negative, on a domain that hugs the
\* dots, with those ticks of the zero-based one that lie near them, and prices,
\* of dots and curves.
ScatterAxes(dots, tariff) ==
  LET kwh    == ToSet(Column(dots, "consumption"))
      kMin   == Times(Least(kwh), Frac(9, 10))
      kMax   == Times(Greatest(kwh), Frac(106, 100))
      prices == {EffectivePrice(b) : b \in ToSet(dots)}
                  \cup Samples(tariff, tariff.firstUnitPrice, kMin, kMax)
                  \cup Samples(tariff, tariff.latestUnitPrice, kMin, kMax)
  IN  [use   |-> [values |-> kwh, min |-> Whole(Floor(kMin)), max |-> Whole(Ceil(kMax)),
                  ticks  |-> {t \in ToSet(Ticks(ZeroBasedDomain(kwh, 4))) :
                                Leq(kMin, t) /\ Leq(t, kMax)}],
       price |-> [values |-> prices, domain |-> PaddedDomain(prices, 3)]]

\* "Is the rise real?": the tariff is that of all bills, not of the range.
Evidence ==
  LET tariff == TariffShape(parsed)
  IN  [dots   |-> Dots,
       axes   |-> IF Dots = <<>> THEN Null ELSE ScatterAxes(Dots, tariff),
       tariff |-> tariff,
       rate   |-> ContractRateChange(parsed)]

\* DashboardPage: the KPI row, the headline, and the five newest bills.
LastBillYoy ==
  IF parsed = <<>> THEN Null
  ELSE YoyDelta(buckets, PeriodOf(Last(parsed)), "cost").pct
AllInSince ==
  IF buckets = <<>> THEN Null
  ELSE Delta(buckets[1].effective, Last(buckets).effective).pct
KpisOf(comparison) ==
  [lastTotal   |-> IF parsed = <<>> THEN Null ELSE Last(parsed).total,
   lastBillYoy |-> LastBillYoy,
   perDay      |-> IF parsed = <<>> THEN Null ELSE CostPerDay(Last(parsed)),
   allIn       |-> IF buckets = <<>> THEN Null ELSE Last(buckets).effective,
   allInSince  |-> AllInSince,
   spend       |-> comparison.current.cost,
   spendPct    |-> comparison.cost.pct,
   use         |-> comparison.current.kwh,
   usePct      |-> comparison.kwh.pct]
Kpis == KpisOf(TrailingComparison(buckets))
Finding == Headline(TrailingComparison(buckets))
Recent ==
  LET newest == Reverse(parsed)
      row(b) == [id  |-> b.id, period |-> PeriodOf(b),
                 eff |-> EffectivePrice(b),
                 yoy |-> YoyDelta(buckets, PeriodOf(b), "cost").pct]
  IN  [i \in 1 .. Min({5, Len(parsed)}) |-> row(newest[i])]

\* ComparePage: the year chips, the chart, the tiles and the ribbon.
AvailableYears == Years(InRange(buckets))
SelectedYears  == AvailableYears \ excludedYears
ChartOf(metric, density) ==
  Build(modeId, InRange(buckets), metric, SelectedYears, sameMonth, density)
IsMix == metricId = "mix"
Chart == IF IsMix THEN BuildMix(InRange(buckets)) ELSE ChartOf(metricId, "full")

\* CompareChart: a mark for every value there is, none across a gap, and the
\* yoy band where both years have a value.
CompareChart(chart) ==
  [marks |-> {mark \in (DOMAIN chart.rows) \X chart.series :
                chart.rows[mark[1]].value[mark[2]] # Null},
   band  |-> IF modeId # "yoy" THEN {}
             ELSE {i \in DOMAIN chart.rows :
                     /\ chart.rows[i].value.current # Null
                     /\ chart.rows[i].value.prior # Null}]

\* The tooltip of both charts tells the first row that has the label.
TipRow(chart, x) ==
  chart.rows[Min({i \in DOMAIN chart.rows : chart.rows[i].x = x})]

\* A rate shows its latest month, a quantity the sum over a year, the mix the
\* share of energy, whose change is in points.
SumOver(window, field) ==
  IF Known(window, field) = <<>> THEN Null ELSE TotalOf(window, field)
LatestIn(window, field) ==
  IF Known(window, field) = <<>> THEN Null ELSE Last(Known(window, field))[field]
PartOf(energy, cost) ==
  IF energy = Null \/ cost \in {Null, Zero} THEN Null
  ELSE Times(Over(energy, cost), Whole(100))
FigureOf(metric, window) ==
  IF metric = "mix" THEN PartOf(SumOver(window, "energy"), SumOver(window, "cost"))
  ELSE IF metric \in {"eff", "price", "perDay"} THEN LatestIn(window, FieldOf[metric])
  ELSE SumOver(window, FieldOf[metric])
Tile(metric, now, before) ==
  [value |-> now,
   delta |-> IF Null \in {now, before} THEN Null
             ELSE IF metric = "mix" THEN Minus(now, before)
             ELSE PctChange(before, now)]
TileFigures(metric) ==
  Tile(metric, FigureOf(metric, Trailing(buckets, MonthsPerYear)),
       FigureOf(metric, BeforeTrailing(buckets, MonthsPerYear)))

Ribbon ==
  LET last12 == Trailing(buckets, MonthsPerYear)
      shown  == IF IsMix THEN "total" ELSE metricId
  IN  [i \in DOMAIN last12 |->
         [period |-> last12[i].period,
          pct    |-> YoyDelta(buckets, last12[i].period, FieldOf[shown]).pct]]

\* BillDetailPage, for one bill of the list: its line items, of which a
\* subtotal or a split is printed only when every part of it is known, its
\* place in the run of bills, and the cells that compare its month.
Breakdown(bill) ==
  LET energy == EnergyCharge(bill)
  IN  [energy   |-> energy,
       subtotal |-> IF Null \in {energy, bill.fixedCharges} THEN Null
                    ELSE Plus(energy, bill.fixedCharges),
       split    |-> Null \notin {energy, bill.fixedCharges, bill.taxes}]
BillRun(bill) ==
  LET totals == {parsed[i].total : i \in DOMAIN parsed}
  IN  [values  |-> totals,
       domain  |-> ZeroBasedDomain(totals, 3),
       yearAgo |-> {i \in DOMAIN parsed :
                      PeriodOf(parsed[i]) = PeriodOf(bill) - MonthsPerYear}]
BillScreen(bill) ==
  [period    |-> PeriodOf(bill),
   cells     |-> BillComparisons(buckets, PeriodOf(bill)),
   breakdown |-> Breakdown(bill),
   effective |-> EffectivePrice(bill),
   run       |-> BillRun(bill),
   printed   |-> <<PrintedDay(bill.periodStart), PrintedDay(bill.periodEnd)>>]
BillScreens == {BillScreen(parsed[i]) : i \in DOMAIN parsed}

\* The sentence under the cells: what it compares with.
Reading(screen) ==
  LET yoy == screen.cells["sameMonthLastYear"].delta.pct
      avg == screen.cells["twelveMonthAverage"].delta.pct
      notable(p) == p # Null /\ ~Less(AbsOf(p), Whole(5))
  IN  IF screen.effective = Null THEN "no price"
      ELSE IF yoy = Null /\ avg = Null THEN "start of the record"
      ELSE IF notable(yoy) THEN "against a year ago"
      ELSE IF notable(avg) THEN "against the average"
      ELSE "in line"

\* PlacesPage and PlaceRail: the figures of a row.
PlaceRow ==
  LET spark == EffectivePriceSeries(parsed)
  IN  [allIn   |-> IF parsed = <<>> THEN Null
                   ELSE IF Last(parsed).consumption \in {Null, Zero} THEN Null
                   ELSE Over(Last(parsed).total, Last(parsed).consumption),
       trend   |-> IF Len(spark) > 1 THEN PctChange(spark[1], Last(spark))
                   ELSE Null]

\* monthRows: the server's points on a contiguous axis of months.
RowsBetween(first, last, points) ==
  [i \in 1 .. last - first + 1 |->
     [period |-> first + i - 1, value |-> points[first + i - 1]]]
RowsOf(points, known) ==
  IF known = {} THEN <<>> ELSE RowsBetween(Min(known), Max(known), points)
PointRows(points) == RowsOf(points, {m \in DOMAIN points : points[m] # Null})
MonthRows(metric) == PointRows(MonthlySeries(Fetched, metric))

\* The management page: the server's summary, and a chart per metric, of months
\* without holes or of one point per bill.
SummaryTiles == IF Fetched = <<>> THEN Null ELSE Summary(Fetched)
SeriesChart(metric) ==
  IF granularity = "bill" THEN BillSeries(Fetched, metric) ELSE MonthRows(metric)
PlaceCharts ==
  [metric \in {"cost", "consumption", "unit_price"} |-> SeriesChart(metric)]

(***************************************************************************)
(* The steps                                                               *)
(***************************************************************************)
Init ==
  /\ page = "dashboard" /\ data = <<>> /\ buckets = <<>>
  /\ range \in Ranges       \* seeded from the stored preference
  /\ granularity = "month" /\ metricId = "total" /\ modeId = "yoy"
  /\ sameMonth = 1 /\ excludedYears = {}

\* useMemo: the months of every list of bills there is.
BucketsOf == [r \in Records |-> MonthlyBuckets(ParseBills(r))]

\* A month is an object and never null, by which fillMonths marks a gap.
ASSUME MonthsAssumption == \A r \in Records : Null \notin ToSet(BucketsOf[r])

\* A fetch or a refetch of the place's bills ends.
Answer ==
  /\ \E r \in Records : data' = r /\ buckets' = BucketsOf[r]
  /\ UNCHANGED <<page, local>>

\* The rail leads to another place's dashboard: on the dashboard nothing
\* remounts, so the controls stay where they are.
SwitchPlace ==
  /\ page = "dashboard"
  /\ data' = <<>> /\ buckets' = <<>>
  /\ UNCHANGED <<page, local>>

\* A link to another page of the place: its local state starts afresh.
OpenPage ==
  /\ \E p \in Pages \ {page} :
       /\ page' = p
       /\ range' \in IF p = "dashboard" THEN Ranges ELSE {"24m"}
  /\ granularity' = "month" /\ metricId' = "total" /\ modeId' = "yoy"
  /\ sameMonth' = 1 /\ excludedYears' = {}
  /\ UNCHANGED <<data, buckets>>

PickRange ==
  /\ page \in {"dashboard", "compare"}
  /\ range' \in Ranges
  /\ UNCHANGED <<page, data, buckets, granularity, metricId, modeId,
                 sameMonth, excludedYears>>

PickGranularity ==
  /\ page \in {"dashboard", "manage"}
  /\ granularity' \in {"month", "bill"}
  /\ UNCHANGED <<page, data, buckets, range, metricId, modeId,
                 sameMonth, excludedYears>>

\* A tile or the picker: two views of one state.
PickMetric ==
  /\ page = "compare"
  /\ metricId' \in MetricsClicked
  /\ UNCHANGED <<page, data, buckets, range, granularity, modeId,
                 sameMonth, excludedYears>>

\* The mode control is disabled under mix.
PickMode ==
  /\ page = "compare" /\ ~IsMix
  /\ modeId' \in ModeIds
  /\ UNCHANGED <<page, data, buckets, range, granularity, metricId,
                 sameMonth, excludedYears>>

PickMonth ==
  /\ page = "compare" /\ modeId = "same" /\ ~IsMix
  /\ sameMonth' \in 1 .. MonthsPerYear
  /\ UNCHANGED <<page, data, buckets, range, granularity, metricId,
                 modeId, excludedYears>>

\* Mutant: the last chip can be switched off.
ToggleAnyYear ==
  /\ page = "compare" /\ modeId = "years" /\ ~IsMix
  /\ \E year \in AvailableYears :
       excludedYears' = IF year \in excludedYears
                        THEN excludedYears \ {year}
                        ELSE excludedYears \cup {year}
  /\ UNCHANGED <<page, data, buckets, range, granularity, metricId,
                 modeId, sameMonth>>

\* A year chip; the only one pressed is disabled.
ToggleYear ==
  /\ page = "compare" /\ modeId = "years" /\ ~IsMix
  /\ \E year \in AvailableYears :
       /\ SelectedYears # {year}
       /\ excludedYears' = IF year \in excludedYears
                           THEN excludedYears \ {year}
                           ELSE excludedYears \cup {year}
  /\ UNCHANGED <<page, data, buckets, range, granularity, metricId,
                 modeId, sameMonth>>

Next ==
  \/ Answer \/ SwitchPlace \/ OpenPage
  \/ PickRange \/ PickGranularity \/ PickMetric \/ PickMode \/ PickMonth
  \/ ToggleYear

Spec == Init /\ [][Next]_vars

-----------------------------------------------------------------------------
(***************************************************************************)
(* References: what the figures stand for, said by days                    *)
(***************************************************************************)
DaysIn(b, m) == (b.period_start .. b.period_end) \cap (MonthStart[m] .. LastDay(m))
BillsOf(m)   == {b \in Bills : DaysIn(b, m) # {}}

\* The part of a figure that falls on the days of a set of months, each day
\* of a bill bearing the same part of it.
OnDays(bills, months, field) ==
  Total([b \in bills |->
           Times(b[field], Frac(Cardinality(UNION {DaysIn(b, m) : m \in months}),
                                Cardinality(b.period_start .. b.period_end)))])

Near(p, q, scale) == Leq(AbsOf(Minus(p, q)), Frac(1, 2 * scale))
HalfMoney == Frac(1, 2 * MoneyScale)
HalfPrice == Frac(1, 2 * PriceScale)

Positive(p) == IF p = Null THEN FALSE ELSE Less(Zero, p)
NegativeUse(bill) == bill.consumption # Null /\ Less(bill.consumption, Zero)
AllMetered(bills) == \A b \in bills : Positive(b.consumption)
Gapless == \A i \in 1 .. Len(buckets) - 1 :
             buckets[i + 1].period = buckets[i].period + 1

(***************************************************************************)
(* Properties                                                              *)
(***************************************************************************)
\* The state has the shape the pages rely on, and the memoised months are
\* those of the data, oldest first, no month twice.
TypeOK ==
  /\ page \in Pages
  /\ data \in Records \cup {<<>>}
  /\ \A i \in DOMAIN buckets : buckets[i].period \in CalendarMonths
  /\ \A i, j \in DOMAIN buckets : i < j => buckets[i].period < buckets[j].period
  /\ range \in Ranges /\ granularity \in {"month", "bill"}
  /\ metricId \in MetricIds /\ modeId \in ModeIds
  /\ sameMonth \in 1 .. MonthsPerYear
  /\ excludedYears \subseteq {YearOf(m) : m \in CalendarMonths}

\* What hangs on the bills alone is looked at on the first page: no control
\* changes it, and a page that is opened keeps the bills and their months.
Home == page = "dashboard"

\* Counting day by day gives every month the code shows (monthlyBuckets): a
\* month is there when a bill covers a day of it, its cost and kWh are those
\* of its days although the code multiplies by shares of local midnights
\* that are 23 to 25 hours apart, and, when every bill of the month has kWh,
\* its all-in price is the average of its bills' prices weighted by kWh.
MonthsMatchDays ==
  Home => \A m \in CalendarMonths :
    LET bills   == BillsOf(m)
        metered == {b \in bills : b.consumption # Null}
        shown   == FindMonth(buckets, m)
        kwh     == OnDays(metered, {m}, "consumption")
        weighted == Total([b \in bills |->
                      Times(Over(b.total_amount, b.consumption),
                            OnDays({b}, {m}, "consumption"))])
    IN  /\ HasMonth(buckets, m) <=> bills # {}
        /\ bills # {} =>
             /\ Near(shown.cost, OnDays(bills, {m}, "total_amount"),
                     MoneyScale)
             /\ shown.kwh = Null <=> metered = {}
             /\ metered # {} => Near(shown.kwh, kwh, MoneyScale)
             /\ AllMetered(bills) =>
                  Near(shown.effective, Over(weighted, kwh), PriceScale)

\* Electricity alone is what the server's series and the pages both have.
AllElectric == \A b \in Bills : b.utility_type = "electricity"

\* How far a result of the server's arithmetic is from the exact one, in parts
\* of it; what bills bring to a month, a credit counting like a charge; and how
\* far n of them that are shared out and summed may lead away.
Precision == Frac(1, 2 * Ten[Digits - 1])
Turnover(bills, m, field) ==
  Total([b \in bills |-> AbsOf(OnDays({b}, {m}, field))])
SumSlack(bills, m, field) ==
  Times(Times(Whole(2 * Cardinality(bills) + 3), Precision), Turnover(bills, m, field))

\* The same for the price of a month.
PriceSlack(bills, metered, m) ==
  LET cost == OnDays(bills, {m}, "total_amount")
      kwh  == OnDays(metered, {m}, "consumption")
  IN  Times(Times(Whole(4 * Cardinality(bills) + 9), Precision),
            Over(Plus(Turnover(bills, m, "total_amount"),
                      Times(AbsOf(Over(cost, kwh)), Turnover(metered, m, "consumption"))),
                 kwh))

\* The browser shows the exact figure, rounded half up; so does the server,
\* unless the figure is within its slack of a half.
NearTo(value, exact, slack, scale) ==
  Leq(AbsOf(Minus(value, exact)), Plus(Frac(1, 2 * scale), slack))
Agree(shown, served, exact, slack, scale) ==
  shown = Rounded(exact, scale) /\ NearTo(served, exact, slack, scale)

\* A month of the browser beside the points of the server; the price when the
\* kWh of the month are no rest that rounding leaves of a sum with credits.
MonthAgrees(m, bills, shown, served) ==
  LET metered == {b \in bills : b.consumption # Null}
      cost    == OnDays(bills, {m}, "total_amount")
      kwh     == OnDays(metered, {m}, "consumption")
      costOff == SumSlack(bills, m, "total_amount")
      kwhOff  == SumSlack(metered, m, "consumption")
  IN  IF bills = {} THEN shown = NoBucket /\ \A x \in DOMAIN served : served[x] = Null
      ELSE /\ Agree(shown.cost, served["cost"], cost, costOff, MoneyScale)
           /\ IF metered = {}
              THEN {shown.kwh, shown.effective, served["consumption"],
                    served["unit_price"]} = {Null}
              ELSE /\ Agree(shown.kwh, served["consumption"], kwh, kwhOff, MoneyScale)
                   /\ Leq(Times(Whole(2), kwhOff), AbsOf(kwh)) =>
                        IF Leq(kwh, Zero)
                        THEN shown.effective = Null /\ served["unit_price"] = Null
                        ELSE Agree(shown.effective, served["unit_price"], Over(cost, kwh),
                                   PriceSlack(bills, metered, m), PriceScale)

\* bill_series has a point for every price per kWh there is, and for the
\* negative kWh of a credit, which effectivePrice leaves out.
BillPointsAgree(bills, points) ==
  LET price(b) == EffectivePrice(ParseBill(b))
      priced   == {b \in bills : price(b) # Null}
  IN  /\ {<<p.id, p.period>> : p \in points} =
           {<<b.id, b.period_end>> : b \in priced \cup {x \in bills : NegativeUse(x)}}
      /\ \A p \in points, b \in priced :
           p.id = b.id =>
             NearTo(p.value, price(b), Times(Precision, AbsOf(price(b))), PriceScale)

\* monthlyBuckets, given the bills that /series is about, has the months that
\* /series answers, each with the same cost, kWh and price up to the digits of
\* a Decimal: where the two differ the exact figure is as good as half way
\* between two amounts.  So have the points per bill.
AgreesWithSeries ==
  LET electric == ToSet(Fetched)
      months   == MonthlyBuckets(ParseBills(Fetched))
      series   == [metric \in {"cost", "consumption", "unit_price"} |->
                     MonthlySeries(Fetched, metric)]
  IN  Home =>
      /\ \A m \in CalendarMonths :
           MonthAgrees(m, {b \in electric : DaysIn(b, m) # {}}, FindMonth(months, m),
                       [metric \in DOMAIN series |-> series[metric][m]])
      /\ BillPointsAgree(electric, BillSeries(Fetched, "unit_price"))

\* "This has to agree with backend/app/services/series.py to the digit"
\* (metrics.ts:198), of a place that has electricity bills alone.
ServedCost(m) == MonthlySeries(Fetched, "cost")[m]
AgreesToTheDigit ==
  AllElectric => \A m \in CalendarMonths :
    ServedCost(m) = IF HasMonth(buckets, m) THEN FindMonth(buckets, m).cost ELSE Null

\* An axis holds every value drawn on it, ends on its last tick, has a handful
\* of ticks and only multiples of its step.
Holds(domain, values) ==
  /\ \A v \in values : Leq(domain.min, v) /\ Leq(v, domain.max)
  /\ Last(Ticks(domain)) = domain.max
  /\ Over(domain.min, domain.step)[2] = 1
  /\ Len(Ticks(domain)) \in 2 .. 6
Drawn(values)     == values \ {Null}
BelowZero(values) == \E v \in values : Less(v, Zero)
Marks(chart) == {chart.rows[mark[1]].value[mark[2]] : mark \in CompareChart(chart).marks}

\* The axes of the scatter: its prices as ever; its use lies between the ends
\* of its domain, as do its ticks, which may be few or none.
ScatterHolds(axes) ==
  /\ \A v \in axes.use.values \cup axes.use.ticks :
       Leq(axes.use.min, v) /\ Leq(v, axes.use.max)
  /\ \/ BelowZero(Drawn(axes.price.values))
     \/ Holds(axes.price.domain, Drawn(axes.price.values))

\* Every domain that a page computes with axis.ts holds the data drawn on it
\* ("both of the traps").  A padded axis is claimed for prices from zero up
\* only: below zero its floor lies above the data.
AxisHoldsData ==
  CASE page = "dashboard" ->
         /\ Holds(HeroAxes.left.domain, Drawn(HeroAxes.left.values))
         /\ \/ BelowZero(Drawn(HeroAxes.right.values))
            \/ Holds(HeroAxes.right.domain, Drawn(HeroAxes.right.values))
         /\ Dots # <<>> => ScatterHolds(Evidence.axes)
    [] page = "bill" ->
         \A screen \in BillScreens : Holds(screen.run.domain, Drawn(screen.run.values))
    [] page = "compare" /\ IsMix -> Holds(Chart.domain, Drawn(Chart.totals))
    [] page = "compare" /\ ~IsMix ->
         \A density \in {"full", "mini"} :
           LET chart == ChartOf(metricId, density)
           IN  \/ IsPadded(metricId) /\ modeId # "mom" /\ BelowZero(Marks(chart))
               \/ Holds(chart.domain, Marks(chart))
    [] OTHER -> TRUE

\* The years a chart draws.
DrawnYears == IF SelectedYears = {} THEN AvailableYears ELSE SelectedYears

\* What each mode draws, of the months of a list: a year's months with those of
\* the year before and the band between the two, the months of the years that
\* are drawn, each month after the one before it, one month of every year.
ValueIn(list, m) ==
  IF HasMonth(list, m) THEN Select(metricId, FindMonth(list, m)) ELSE Null
TellsYearOnYear(chart, list, m, i) ==
  /\ chart.rows[i].x = MonthInYear(m)
  /\ chart.rows[i].value =
       [current |-> ValueIn(list, m), prior |-> ValueIn(list, m - MonthsPerYear)]
  /\ i \in CompareChart(chart).band <=>
       Null \notin {ValueIn(list, m), ValueIn(list, m - MonthsPerYear)}
TellsYears(chart, list, drawn) ==
  /\ chart.series = drawn
  /\ \A m \in CalendarMonths :
       YearOf(m) \in drawn =>
         chart.rows[MonthInYear(m)].value[YearOf(m)] = ValueIn(list, m)
TellsOneMonth(chart, list) ==
  {<<r.x, r.value.value>> : r \in ToSet(chart.rows)} =
    {<<YearOf(m), ValueIn(list, m)>> :
       m \in {x \in CalendarMonths : HasMonth(list, x) /\ MonthInYear(x) = sameMonth}}

\* Row i of the chart stands for month Last(list).period - Len(chart.rows) + i.
ChartTells(chart, list) ==
  LET month(i) == Last(list).period - Len(chart.rows) + i
      told == IF modeId = "mom" THEN 1 .. Min({Len(chart.rows), MonthsPerYear})
              ELSE DOMAIN chart.rows
  IN  /\ \A i \in told : TipRow(chart, chart.rows[i].x) = chart.rows[i]
      /\ CASE modeId = "yoy" ->
                Len(list) <= MonthsPerYear \/ Len(list) >= 2 * MonthsPerYear =>
                  \A i \in DOMAIN chart.rows : TellsYearOnYear(chart, list, month(i), i)
           [] modeId = "years" -> TellsYears(chart, list, DrawnYears)
           [] modeId = "mom" ->
                \A i \in DOMAIN chart.rows :
                  chart.rows[i].value.change =
                    Delta(ValueIn(list, month(i) - 1), ValueIn(list, month(i))).pct
           [] modeId = "same" -> TellsOneMonth(chart, list)

\* On a record without gaps, what a comparison chart draws over a label is
\* what that calendar month says: the months a year apart in yoy (on a range
\* that holds both years, or one only) with the band between the two, the
\* months of the pressed years in years, the month and the one before it in
\* mom, one month in same.  The tooltip tells the row that is pointed at
\* except in mom beyond the first year of rows, where its label is a name
\* of a month that an earlier row has too.
ChartTellsItsMonth ==
  page = "compare" /\ ~IsMix /\ Gapless /\ InRange(buckets) # <<>> =>
    ChartTells(Chart, InRange(buckets))

\* The tiles of the comparison and the KPIs of the dashboard.
TilesAgree(kpis, total, use) ==
  /\ total = [value |-> kpis.spend, delta |-> kpis.spendPct]
  /\ use = [value |-> kpis.use, delta |-> kpis.usePct]

\* A bill page and the ribbon; a marked bill of a year ago has a month.
ScreenAgrees(screen) ==
  LET cell == screen.cells["sameMonthLastYear"]
  IN  /\ cell.delta.pct = YoyDelta(buckets, screen.period, "effective").pct
      /\ screen.run.yearAgo # {} /\ AllMetered(Bills) => cell.against # Null

\* The last bill, unless it ends with or before another one: the browser
\* takes the latest start, the server the latest end.  With negative kWh only
\* the places table has a price per kWh.
Overtaken == \E b \in Bills : /\ b.id # Last(parsed).id
                              /\ b.period_end >= Last(parsed).periodEnd
LastBillAgrees(row, kpis) ==
  /\ row.eff = PlaceRow.allIn \/ (NegativeUse(Last(parsed)) /\ row.eff = Null)
  /\ row.yoy = kpis.lastBillYoy
  /\ AllElectric /\ ~Overtaken => SummaryTiles.lastTotal = kpis.lastTotal

\* The charts of the management page, of months and of bills: the months to a
\* unit of the last place, which Decimals may shift.
RowAgrees(row, m, month) ==
  /\ row.period = m
  /\ row.value = Null <=> month = Null
  /\ month # Null =>
       NearTo(row.value, month.cost, Plus(HalfMoney, SumSlack(BillsOf(m), m, "total_amount")),
              MoneyScale)
ChartAgrees(chart, fill) ==
  IF granularity = "month"
  THEN /\ DOMAIN chart = DOMAIN fill
       /\ \A i \in DOMAIN fill : RowAgrees(chart[i], buckets[1].period + i - 1, fill[i])
  ELSE {<<p.id, p.value>> : p \in chart} =
         {<<p.billIds[1], Rounded(p.cost, MoneyScale)>> :
            p \in ToSet(BillsAsPoints(parsed))}

\* One figure has one value on every screen: the compare tiles and the
\* dashboard's KPIs, the bill page's year-ago cell and the ribbon, the last
\* bill's price in the places table and in the recent list, the months of the
\* management page and fillMonths, its points and the dashboard's per bill.
\* A tooltip of the hero chart says what the ribbon says or nothing.
ScreensAgree ==
  /\ Home /\ buckets # <<>> =>
       TilesAgree(Kpis, TileFigures("total"), TileFigures("kwh"))
  /\ Home => \A screen \in BillScreens : ScreenAgrees(screen)
  /\ page = "compare" /\ metricId = "eff" => \A point \in ToSet(Ribbon) :
       point.pct = YoyDelta(buckets, point.period, "effective").pct
  /\ Home => \A row \in ToSet(HeroRows) :
       HeroTip(row.period, "effective").pct
         \in {Null, YoyDelta(buckets, row.period, "effective").pct}
  /\ Home /\ parsed # <<>> => LastBillAgrees(Recent[1], Kpis)
  /\ page = "manage" /\ AllElectric =>
       ChartAgrees(PlaceCharts["cost"], FillMonths(buckets))

\* A window of a year of calendar months.
YearFrom(m) == {x \in CalendarMonths : m <= x /\ x < m + MonthsPerYear}

\* p is more than q, up to the rounding of a year of months.
More(p, q) == Less(Minus(q, Frac(MonthsPerYear, MoneyScale)), p)

\* What a finding claims of the money and the kWh of two years.
FindingHolds(finding, paid, paidBefore, used, usedBefore) ==
  CASE finding = "savings" -> More(paidBefore, paid)
    [] finding = "price" -> More(paid, paidBefore)
    [] finding = "consumption" ->
         \/ More(paid, paidBefore) /\ More(used, usedBefore)
         \/ More(paidBefore, paid) /\ More(usedBefore, used)
    [] finding = "steady" -> TRUE
    [] finding = "insufficient" ->
         Leq(AbsOf(paidBefore), Frac(MonthsPerYear, 2 * MoneyScale))

\* A credit note, of money or of kWh.
IsCredit(b) == NegativeUse(b) \/ Less(b.total_amount, Zero)

\* With two whole years of metered months on record, the headline's finding
\* is what the days of the bills say, up to the rounding of the months:
\* "you spent less" is less, "same energy, more money" is more money, and
\* consumption moved with the spend where the finding says so; nothing is
\* found only when the year before cost nothing.  A bill page of a place
\* without credits calls a bill the start of the record only if none of the
\* months of the year before it has a price.
FindingIsTrue ==
  LET now    == YearFrom(Last(buckets).period - MonthsPerYear + 1)
      before == YearFrom(Last(buckets).period - 2 * MonthsPerYear + 1)
  IN  /\ Home /\ Gapless /\ Len(buckets) >= 2 * MonthsPerYear /\ AllMetered(Bills) =>
           FindingHolds(Finding,
             OnDays(Bills, now, "total_amount"), OnDays(Bills, before, "total_amount"),
             OnDays(Bills, now, "consumption"), OnDays(Bills, before, "consumption"))
      /\ page = "bill" /\ ~(\E b \in Bills : IsCredit(b)) => \A screen \in BillScreens :
           Reading(screen) = "start of the record" =>
             ~\E b \in ToSet(buckets) :
                 /\ b.period < screen.period
                 /\ b.period >= screen.period - MonthsPerYear
                 /\ Positive(b.effective)

\* The dashboard filters bills and months by two different rules (billsInRange
\* by the month a bill ends in, the months by slice): the bills in the range
\* are exactly those that feed one of the months shown, so the scatter, whose
\* dots are those of them with a price, and the chart above it are about the
\* same bills.
DotsMatchMonths ==
  LET shown  == UNION {ToSet(b.billIds) : b \in ToSet(InRange(buckets))}
      priced == {b \in Bills : Positive(b.consumption)}
  IN  Home =>
        /\ {b.id : b \in ToSet(BillsInRange)} = shown
        /\ {b.id : b \in ToSet(Evidence.dots)} = shown \cap {b.id : b \in priced}

\* fillMonths: from the first month to the last one, the months of the record.
FillsTheGaps(fill) ==
  /\ Len(fill) = Last(buckets).period - buckets[1].period + 1
  /\ Sublist(fill, {i \in DOMAIN fill : fill[i] # Null}) = buckets

\* composition: the parts and the unexplained rest are the total.
AddsUp(mix) ==
  mix.unexplained # Null =>
    Plus(mix.unexplained,
         Plus(mix.part.energy, Plus(mix.part.fixed, mix.part.taxes))) = mix.total

\* Money as the schema stores it; and an amount half way between two.
InCents(p) == Rounded(p, MoneyScale) = p
HalfACent(p) == ~InCents(p) /\ InCents(Times(Whole(2), p))

\* The same for one bill, beside the subtotal its page prints: a bill in cents
\* leaves one rest, or two that are a cent apart when its energy is not whole.
RestOf(bill, breakdown, item) ==
  breakdown.split /\ InCents(bill.total) /\ InCents(bill.fixedCharges) /\ InCents(bill.taxes) =>
    LET rest  == Rounded(Minus(bill.total, Plus(breakdown.subtotal, bill.taxes)), MoneyScale)
        apart == Minus(rest, Composition(<<item>>).unexplained)
    IN  \/ apart = Zero
        \/ HalfACent(breakdown.energy) /\ AbsOf(apart) = Frac(1, MoneyScale)

\* The months ahead follow the last priced one until one has no reading a year
\* ago, and a price that took the same step over the last months takes it on.
WalksOn(ahead, priced, count) ==
  LET recent     == Trailing(priced, 4)
      step       == Minus(recent[2].effective, recent[1].effective)
      twin(m)    == FindMonth(buckets, m - MonthsPerYear)
      metered(m) == HasMonth(buckets, m - MonthsPerYear) /\ twin(m).kwh # Null
      next       == Last(priced).period + Len(ahead) + 1
  IN  Len(priced) >= 2 =>
        /\ Len(ahead) < count => ~metered(next)
        /\ \A i \in DOMAIN ahead :
             /\ ahead[i].period = Last(priced).period + i /\ metered(ahead[i].period)
             /\ (\A j \in 2 .. Len(recent) :
                   Minus(recent[j].effective, recent[j - 1].effective) = step) =>
                  ahead[i].value =
                    Rounded(Times(Plus(Last(priced).effective, Times(Whole(i), step)),
                                  twin(ahead[i].period).kwh), MoneyScale)

\* A bill that is nothing but energy, a standing charge and taxes on the two.
Explained(b) ==
  /\ IsSplit(b) /\ Positive(b.consumption)
  /\ b.total = Plus(TaxBase(b), b.taxes)

\* A bill c of the tariff of b, as far as it tells.
SharesTariff(b, c) ==
  /\ c.fixedCharges \in {Null, b.fixedCharges}
  /\ IsSplit(c) => Over(c.taxes, TaxBase(c)) = Over(b.taxes, TaxBase(b))

\* A tariff that all bills share is found (tariffShape), however many of them do
\* not tell theirs, and the curve that RateEvidence draws of it runs through the
\* dots of the bills it explains.
TariffExplains ==
  \A b \in {x \in ToSet(parsed) : Explained(x)} :
    (\A c \in ToSet(parsed) : SharesTariff(b, c)) =>
      Curve(Evidence.tariff, b.unitPrice, b.consumption) = EffectivePrice(b)

\* What the priced months cost above the price of the first one.
PaidAbove(priced) ==
  Total([i \in DOMAIN priced |->
           Minus(priced[i].cost, Times(priced[1].effective, priced[i].kwh))])

\* How far rounding leads away from it: the sum is rounded, and so are of each
\* month the cost, the price, which counts once per kWh, and the kWh, which
\* count at the price.
MonthSlack(b) ==
  Plus(HalfMoney, Plus(Times(Plus(b.kwh, HalfMoney), HalfPrice),
                       Times(HalfMoney, AbsOf(b.effective))))
ExcessSlack(priced) ==
  Plus(HalfMoney, Total([i \in DOMAIN priced |-> MonthSlack(priced[i])]))

\* The excess over the first price that cumulativeExcess ends with is what was
\* paid above that price, up to the rounding of the months it is summed from.
ExcessAddsUp ==
  LET priced == Known(buckets, "effective")
  IN  priced # <<>> =>
        Leq(AbsOf(Minus(Last(CumulativeExcess(buckets)).value, PaidAbove(priced))),
            ExcessSlack(priced))

\* The figures metrics.ts offers beyond the screens: fillMonths makes a
\* contiguous axis; the parts of a composition and its unexplained rest are
\* the total, for all bills and for one beside its printed subtotal; an index
\* is the same for a series and for its double and ends where the KPI "since
\* the first month" says; a forecast walks on month by month from a price that
\* follows the trend of the last ones; a tariff shared by all bills is found and
\* its curve runs through their dots; and the excess adds up to what was paid
\* above the first price.
LibraryFigures ==
  LET items  == [i \in DOMAIN parsed |->
                   [energy |-> EnergyCharge(parsed[i]),
                    fixed |-> parsed[i].fixedCharges,
                    taxes |-> parsed[i].taxes, total |-> parsed[i].total]]
      costs  == Column(buckets, "cost")
  IN  Home =>
      /\ buckets # <<>> => FillsTheGaps(FillMonths(buckets))
      /\ AddsUp(Composition(items))
      /\ \A i \in DOMAIN parsed : RestOf(parsed[i], Breakdown(parsed[i]), items[i])
      /\ IndexToFirst(costs) =
           IndexToFirst([i \in DOMAIN costs |-> Times(Whole(2), costs[i])])
      /\ buckets # <<>> /\ AllInSince # Null /\ Positive(buckets[1].effective) =>
           Last(IndexToFirst(Column(buckets, "effective"))) = Plus(Whole(100), AllInSince)
      /\ WalksOn(Forecast(buckets, 3), Known(buckets, "effective"), 3)
      /\ TariffExplains /\ ExcessAddsUp

\* A click on a year chip adds or removes that one year from the chart while
\* a chip is pressed: it never empties the selection, which would draw them
\* all ("At least one year has to stay on").
ChipDrawsItsYear ==
  [][ToggleYear /\ SelectedYears # {} =>
       Cardinality((DrawnYears' \ DrawnYears) \cup (DrawnYears \ DrawnYears')) = 1]_vars

\* What a user reads on the bill page, billsAsPoints and the places table:
\* the day printed for a bill is the day of the bill.
PrintedDayIsTheBillsDay ==
  \A i \in DOMAIN parsed :
    BillScreen(parsed[i]).printed = <<parsed[i].periodStart, parsed[i].periodEnd>>
==============================================================================
