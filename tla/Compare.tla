------------------------------- MODULE Compare -------------------------------
(***************************************************************************)
(* The compare engine of src/frontend/src/lib/compare.ts: eight metrics    *)
(* against four ways of slicing time.  A chart is its rows, an x label and *)
(* a value per series, the series it draws and the domain of its axis;     *)
(* colours, labels and notes are left out.                                 *)
(***************************************************************************)
EXTENDS Metrics, Axis

MetricIds == {"total", "kwh", "eff", "price", "energy", "taxes", "perDay", "mix"}
ModeIds   == {"yoy", "years", "mom", "same"}

\* METRICS: what every metric selects from a month, and on which axis.
FieldOf ==
  [total |-> "cost", kwh |-> "kwh", eff |-> "effective", price |-> "unitPrice",
   energy |-> "energy", taxes |-> "taxes", perDay |-> "perDay", mix |-> "cost"]
Select(metric, bucket) == bucket[FieldOf[metric]]
IsPadded(metric) == metric \in {"eff", "price"}

DomainFor(metric, values, ticks) ==
  IF IsPadded(metric) THEN PaddedDomain(values, ticks)
  ELSE ZeroBasedDomain(values, ticks)

TicksOf(density) == IF density = "mini" THEN 2 ELSE 4

Years(buckets) == {YearOf(buckets[i].period) : i \in DOMAIN buckets}

\* All values of a chart.
Cells(rows, series) == {rows[i].value[key] : i \in DOMAIN rows, key \in series}

\* Mutant: the first year of the range instead of the one before the last.
BuildYoyFromStart(buckets, metric, density) ==
  LET current == Trailing(buckets, MonthsPerYear)
      prior   == SubSeq(buckets, 1, Min({MonthsPerYear,
                                         Max({0, Len(buckets) - MonthsPerYear})}))
      rows    == [i \in DOMAIN current |->
                    [x     |-> MonthInYear(current[i].period),
                     value |-> [current |-> Select(metric, current[i]),
                                prior   |-> IF i \in DOMAIN prior
                                            THEN Select(metric, prior[i])
                                            ELSE Null]]]
  IN  [rows |-> rows, series |-> {"current", "prior"},
       domain |-> DomainFor(metric, Cells(rows, {"current", "prior"}),
                            TicksOf(density))]

\* The trailing year against the one before, aligned by position.
BuildYoy(buckets, metric, density) ==
  LET current == Trailing(buckets, MonthsPerYear)
      prior   == BeforeTrailing(buckets, MonthsPerYear)
      rows    == [i \in DOMAIN current |->
                    [x     |-> MonthInYear(current[i].period),
                     value |-> [current |-> Select(metric, current[i]),
                                prior   |-> IF i \in DOMAIN prior
                                            THEN Select(metric, prior[i])
                                            ELSE Null]]]
      series  == {"current", "prior"}
  IN  [rows |-> rows, series |-> series,
       domain |-> DomainFor(metric, Cells(rows, series), TicksOf(density))]

\* Every selected year on a shared axis of months; none selected draws all.
BuildYears(buckets, metric, years, density) ==
  LET selected == (IF years = {} THEN Years(buckets) ELSE years)
                    \cap Years(buckets)
      cell(year, month) ==
        LET m == year * MonthsPerYear + month
        IN  IF HasMonth(buckets, m) THEN Select(metric, FindMonth(buckets, m))
            ELSE Null
      rows == [month \in 1 .. MonthsPerYear |->
                 [x |-> month,
                  value |-> [year \in selected |-> cell(year, month)]]]
  IN  [rows |-> rows, series |-> selected,
       domain |-> DomainFor(metric, Cells(rows, selected), TicksOf(density))]

\* Percent change from each month on record to the next one on record.
BuildMom(buckets, metric, density) ==
  LET change(i) ==
        LET previous == Select(metric, buckets[i])
            current  == Select(metric, buckets[i + 1])
        IN  IF previous = Null \/ current = Null THEN Null
            ELSE PctChange(previous, current)
      rows == [i \in 1 .. Max({0, Len(buckets) - 1}) |->
                 [x |-> MonthInYear(buckets[i + 1].period),
                  value |-> [change |-> change(i)]]]
  IN  [rows |-> rows, series |-> {"change"},
       domain |-> SymmetricDomain(Cells(rows, {"change"}),
                                          TicksOf(density))]

\* One month, isolated across every year on record.
BuildSame(buckets, metric, month, density) ==
  LET matching == Sublist(buckets, {i \in DOMAIN buckets :
                                      MonthInYear(buckets[i].period) = month})
      rows     == [i \in DOMAIN matching |->
                     [x |-> YearOf(matching[i].period),
                      value |-> [value |-> Select(metric, matching[i])]]]
  IN  [rows |-> rows, series |-> {"value"},
       domain |-> DomainFor(metric, Cells(rows, {"value"}), TicksOf(density))]

\* mode.build: what the mode's descriptor makes of the caller's input.
Build(mode, buckets, metric, years, month, density) ==
  CASE mode = "yoy"   -> BuildYoy(buckets, metric, density)
    [] mode = "years" -> BuildYears(buckets, metric, years, density)
    [] mode = "mom"   -> BuildMom(buckets, metric, density)
    [] mode = "same"  -> BuildSame(buckets, metric, month, density)

\* The decomposition per kWh; the axis is that of the stacked sums, drawn
\* where the tariff is known.
BuildMix(buckets) ==
  LET perKwh(part, b) ==
        IF part = Null THEN Null ELSE Over(part, b.kwh)
      used(b) == IF b.kwh = Null THEN FALSE ELSE Less(Zero, b.kwh)
      row(b) == [x |-> MonthInYear(b.period),
                 value |->
                   [energy   |-> IF used(b) THEN b.unitPrice ELSE Null,
                    standing |-> IF used(b) THEN perKwh(b.fixed, b) ELSE Null,
                    tax      |-> IF used(b) THEN perKwh(b.taxes, b) ELSE Null]]
      rows  == [i \in DOMAIN buckets |-> row(buckets[i])]
      OrZero(p) == IF p = Null THEN Zero ELSE p
      stacked(r) == IF r.value.energy = Null THEN Null
                    ELSE Plus(r.value.energy, Plus(OrZero(r.value.standing),
                                                   OrZero(r.value.tax)))
      totals == {stacked(rows[i]) : i \in DOMAIN rows}
  IN  [rows |-> rows, totals |-> totals,
       domain |-> ZeroBasedDomain(totals, 4)]
==============================================================================
