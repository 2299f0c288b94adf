------------------------------- MODULE Series --------------------------------
(***************************************************************************)
(* The series the server answers with, src/backend/app/services/series.py  *)
(* and the queries of routers/series.py: the months lib/metrics.ts derives *)
(* too, here from Python dates and Decimals and from the bills of one      *)
(* utility, and the points per bill.                                       *)
(***************************************************************************)
EXTENDS Metrics, Decimals

\* _fetch_bills: the bills of one utility, ORDER BY period_start.  Bills that
\* start on one day come in any order; this is the one parseBills leaves.
FetchBills(bills, utility) ==
  OldestFirst(Sublist(bills, {i \in DOMAIN bills : bills[i].utility_type = utility}))

\* _overlap_days over dates, which have no hours.
SeriesOverlap(bill, m) ==
  LET start == Max({bill.period_start, MonthStart[m]})
      end   == Min({bill.period_end, LastDay(m)})
  IN  IF end >= start THEN end - start + 1 ELSE 0

SeriesShare(bill, m) ==
  Decimal(Frac(SeriesOverlap(bill, m), bill.period_end - bill.period_start + 1))

Accumulated(bills, m, field) ==
  DecimalSum([i \in DOMAIN bills |->
                Decimal(Times(bills[i][field], SeriesShare(bills[i], m)))])

\* monthly_series: the value of a month, Null where the month has no point.
MonthlySeries(bills, metric) ==
  LET in(m)      == Sublist(bills, {i \in DOMAIN bills : SeriesOverlap(bills[i], m) # 0})
      metered(m) == Known(in(m), "consumption")
      cost(m)    == Accumulated(in(m), m, "total_amount")
      kwh(m)     == Accumulated(metered(m), m, "consumption")
      point(m)   ==
        IF metric = "cost"
        THEN IF in(m) = <<>> THEN Null ELSE Rounded(cost(m), MoneyScale)
        ELSE IF metered(m) = <<>> THEN Null
        ELSE IF metric = "consumption" THEN Rounded(kwh(m), MoneyScale)
        ELSE IF Leq(kwh(m), Zero) THEN Null
        ELSE Rounded(Decimal(Over(cost(m), kwh(m))), PriceScale)
  IN  [m \in CalendarMonths |-> point(m)]

\* bill_series: one point per bill, not prorated, at its period_end.
BillSeries(bills, metric) ==
  LET known(b) == metric = "cost" \/ b.consumption # Null
      priced(b) == metric # "unit_price" \/ b.consumption # Zero
      value(b) ==
        IF metric = "cost" THEN Rounded(b.total_amount, MoneyScale)
        ELSE IF metric = "consumption" THEN Rounded(b.consumption, MoneyScale)
        ELSE Rounded(Decimal(Over(b.total_amount, b.consumption)), PriceScale)
  IN  {[id |-> b.id, period |-> b.period_end, value |-> value(b)] :
         b \in {b \in ToSet(bills) : known(b) /\ priced(b)}}

\* place_summary: max() takes the first of the bills that end last.
Summary(bills) ==
  LET metered == Known(bills, "consumption")
      cost    == DecimalSum(Column(bills, "total_amount"))
      kwh     == DecimalSum(Column(metered, "consumption"))
      endsLast(i) == \A j \in DOMAIN bills : bills[j].period_end <= bills[i].period_end
      last    == bills[Min({i \in DOMAIN bills : endsLast(i)})]
  IN  [count     |-> Len(bills),
       cost      |-> cost,
       kwh       |-> IF metered = <<>> THEN Null ELSE kwh,
       average   |-> IF kwh = Zero THEN Null
                     ELSE Rounded(Decimal(Over(cost, kwh)), PriceScale),
       lastTotal |-> last.total_amount]
==============================================================================
