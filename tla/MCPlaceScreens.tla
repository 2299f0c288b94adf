--------------------------- MODULE MCPlaceScreens ----------------------------
(***************************************************************************)
(* PlaceScreens on a small calendar: years of two months of two and three  *)
(* days, a change to summer time and back, and bills that span months,     *)
(* overlap, leave a gap, lack a meter reading, are a credit, of money or   *)
(* of money and kWh, or are for gas.                                       *)
(***************************************************************************)
EXTENDS PlaceScreens

MCMonthStart == <<1, 3, 6, 8, 11, 13, 16, 18>>

\* Summer time from day 4 to day 9 and from day 14 on.
MCHoursEast == [d \in 1 .. 17 |-> IF d \in 4 .. 9 \cup 14 .. 17 THEN 2 ELSE 1]

ABill(id, start, end, kwh, price, fixed, taxes, total) ==
  [id |-> id, utility_type |-> "electricity", period_start |-> start, period_end |-> end,
   consumption |-> kwh, unit_price |-> price, fixed_charges |-> fixed,
   taxes |-> taxes, total_amount |-> total]

b1 == ABill(1, 1, 4, Whole(20), Frac(3, 10), Whole(2), Whole(1), Whole(9))
b2 == ABill(2, 5, 7, Whole(10), Frac(3, 10), Whole(1), Whole(1), Whole(5))
b3 == ABill(3, 8, 12, Whole(10), Frac(1, 2), Whole(1), Null, Whole(9))
b4 == ABill(4, 11, 15, Whole(10), Frac(1, 2), Whole(3), Whole(1), Whole(11))
b5 == ABill(5, 13, 15, Whole(4), Null, Null, Null, Whole(-3))
b6 == ABill(6, 16, 17, Null, Frac(1, 2), Whole(1), Whole(1), Whole(5))
b7 == ABill(7, 16, 17, Whole(20), Frac(1, 2), Whole(2), Whole(3), Whole(15))
b8 == ABill(8, 16, 17, Whole(-3), Frac(1, 2), Null, Null, Whole(-2))
b9 == ABill(9, 1, 17, Whole(10), Frac(71, 200), Frac(27, 10), Frac(5, 2), Whole(8))

\* A bill of another utility that the place has.
Gas(b) == [b EXCEPT !.utility_type = "gas"]

\* No bill, one bill, a gap, a whole record with every kind of last month,
\* a month that two bills share, two bills with one last day, credits, and one bill
\* for all the months, whose price never moves and whose energy is not whole.
MCRecords ==
  {<<>>, <<b1>>, <<b2, b1>>, <<b3, b1>>, <<b3, b2>>, <<b3, b2, b1>>,
   <<b4, b3, b2, b1>>, <<b5, b3, b2, b1>>, <<b6, b4, b3, b2>>,
   <<b7, b4, b3, b2, b1>>, <<b6, b5, b4, b3, b2, b1>>, <<b7, b4, b1>>,
   <<b6, b5>>, <<b5, b4, b2>>, <<b8, b4, b3>>, <<b9>>,
   <<b3, Gas(b2), b1>>}

\* Two months of five and nine days, and a bill for both: five fourteenths of
\* its total are half way between two amounts.
MCHalfMonths == <<1, 6, 15>>
MCHalfHours == [d \in 1 .. 14 |-> 0]
MCHalfRecords ==
  {<<ABill(1, 1, 14, Whole(10), Null, Null, Null, Frac(147, 10))>>}
==============================================================================
