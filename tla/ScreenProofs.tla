----------------------------- MODULE ScreenProofs -----------------------------
(***************************************************************************)
(* Theorems about PlaceScreens, for any record of bills, any calendar,     *)
(* zone and scale of rounding.  The lists that metrics.ts sorts, filters   *)
(* and sums are shown to hold the bills of a set once each; figures are    *)
(* then compared as sums over that set.                                    *)
(***************************************************************************)
EXTENDS PlaceScreens, RationalProofs, Images

(***************************************************************************)
(* Lists                                                                   *)
(***************************************************************************)
\* InOrder lists every number of a set once, least first.
LEMMA InOrderWorks ==
  ASSUME NEW S, S \subseteq Int, IsFiniteSet(S)
  PROVE  /\ InOrder(S) \in [1 .. Cardinality(S) -> S]
         /\ \A n \in S : \E k \in 1 .. Cardinality(S) : InOrder(S)[k] = n
         /\ \A k, l \in 1 .. Cardinality(S) : k < l => InOrder(S)[k] < InOrder(S)[l]
<1> DEFINE c == Cardinality(S)
           R == {p \in S \X S : p[1] <= p[2]}
           place == Places(S, R)
<1>1. \A m, n \in S : m \in Int /\ n \in Int
  OBVIOUS
<1>2. \A m, n \in S : <<m, n>> \in R <=> m <= n
  OBVIOUS
<1> HIDE DEF R
<1>3. IsOrder(S, R)
  <2>1. \A i \in S : <<i, i>> \in R
    BY <1>1, <1>2
  <2>2. \A i, j \in S : <<i, j>> \in R /\ <<j, i>> \in R => i = j
    BY <1>1, <1>2
  <2>3. ASSUME NEW i \in S, NEW j \in S PROVE i <= j \/ j <= i
    <3>1. i \in Int /\ j \in Int
      BY <1>1
    <3> QED BY <3>1
  <2>4. ASSUME NEW i \in S, NEW j \in S, NEW k \in S, i <= j, j <= k
        PROVE  i <= k
    BY <1>1, <2>4
  <2> QED BY <1>2, <2>1, <2>2, <2>3, <2>4 DEF IsOrder
<1>4. ASSUME NEW n \in S PROVE Cardinality({j \in S : j <= n}) = place[n]
  <2>1. {j \in S : j <= n} = {j \in S : <<j, n>> \in R}
    BY <1>2
  <2> QED BY <2>1 DEF Places
<1> HIDE DEF place
<1>5. /\ \A k \in 1 .. c : \E n \in S : place[n] = k
      /\ \A n \in S : place[n] \in 1 .. c
      /\ \A m, n \in S : place[m] = place[n] => m = n
      /\ \A m, n \in S : place[m] <= place[n] => <<m, n>> \in R
  BY <1>3, PlacesWork DEF place
<1>6. ASSUME NEW k \in 1 .. c PROVE InOrder(S)[k] \in S /\ place[InOrder(S)[k]] = k
  <2>1. InOrder(S)[k] = CHOOSE n \in S : Cardinality({j \in S : j <= n}) = k
    BY DEF InOrder
  <2>2. \E n \in S : Cardinality({j \in S : j <= n}) = k
    BY <1>4, <1>5
  <2>3. InOrder(S)[k] \in S /\ Cardinality({j \in S : j <= InOrder(S)[k]}) = k
    BY <2>1, <2>2
  <2> QED BY <1>4, <2>3
<1>7. InOrder(S) \in [1 .. c -> S]
  BY <1>6 DEF InOrder
<1>8. ASSUME NEW n \in S PROVE \E k \in 1 .. c : InOrder(S)[k] = n
  <2>1. place[n] \in 1 .. c
    BY <1>5
  <2>2. InOrder(S)[place[n]] \in S /\ place[InOrder(S)[place[n]]] = place[n]
    BY <1>6, <2>1
  <2> QED BY <1>5, <2>1, <2>2
<1>9. ASSUME NEW k \in 1 .. c, NEW l \in 1 .. c, k < l
      PROVE  InOrder(S)[k] < InOrder(S)[l]
  <2> DEFINE m == InOrder(S)[k]
             n == InOrder(S)[l]
  <2>1. m \in S /\ n \in S /\ place[m] = k /\ place[n] = l
    BY <1>6
  <2> HIDE DEF m, n
  <2>2. m # n /\ k <= l
    BY <1>9, <2>1
  <2>3. m <= n
    BY <1>2, <1>5, <2>1, <2>2
  <2>4. m \in Int /\ n \in Int
    BY <1>1, <2>1
  <2>5. m < n
    BY <2>2, <2>3, <2>4
  <2> QED BY <2>5 DEF m, n
<1> QED BY <1>7, <1>8, <1>9

\* Sublist takes the elements at the given places, each once, in their order.
LEMMA SublistWorks ==
  ASSUME NEW list, NEW S, S \subseteq Int, IsFiniteSet(S)
  PROVE  /\ DOMAIN Sublist(list, S) = 1 .. Cardinality(S)
         /\ \A k \in 1 .. Cardinality(S) :
              /\ InOrder(S)[k] \in S
              /\ Sublist(list, S)[k] = list[InOrder(S)[k]]
         /\ \A i \in S : \E k \in 1 .. Cardinality(S) :
              InOrder(S)[k] = i /\ Sublist(list, S)[k] = list[i]
         /\ \A k, l \in 1 .. Cardinality(S) :
              InOrder(S)[k] = InOrder(S)[l] => k = l
<1>1. \A k \in 1 .. Cardinality(S) : Sublist(list, S)[k] = list[InOrder(S)[k]]
  BY DEF Sublist
<1>2. Cardinality(S) \in Nat
  BY FS_CardinalityType
<1>3. ASSUME NEW k \in 1 .. Cardinality(S), NEW l \in 1 .. Cardinality(S),
             InOrder(S)[k] = InOrder(S)[l]
      PROVE  k = l
  <2> DEFINE a == InOrder(S)[k]
             b == InOrder(S)[l]
  <2>1. a \in Int /\ b \in Int /\ (k < l => a < b) /\ (l < k => b < a)
    BY InOrderWorks
  <2>2. a = b /\ k \in Int /\ l \in Int
    BY <1>3
  <2> HIDE DEF a, b
  <2> QED BY <2>1, <2>2
<1>4. DOMAIN Sublist(list, S) = 1 .. Cardinality(S)
  BY DEF Sublist
<1>5. /\ \A k \in 1 .. Cardinality(S) : InOrder(S)[k] \in S
      /\ \A i \in S : \E k \in 1 .. Cardinality(S) : InOrder(S)[k] = i
  BY InOrderWorks
<1> QED BY <1>1, <1>3, <1>4, <1>5

\* The elements of a list of pairs of its place and itself.
LEMMA SublistMembers ==
  ASSUME NEW list, NEW S, S \subseteq Int, IsFiniteSet(S)
  PROVE  ToSet(Sublist(list, S)) = {list[i] : i \in S}
<1> DEFINE D == DOMAIN Sublist(list, S)
<1>0. D = 1 .. Cardinality(S)
  BY SublistWorks
<1> HIDE DEF D
<1>1. /\ \A k \in D : InOrder(S)[k] \in S /\ Sublist(list, S)[k] = list[InOrder(S)[k]]
      /\ \A i \in S : \E k \in D : Sublist(list, S)[k] = list[i]
  <2>1. \A k \in D : InOrder(S)[k] \in S /\ Sublist(list, S)[k] = list[InOrder(S)[k]]
    BY <1>0, SublistWorks
  <2>2. ASSUME NEW i \in S PROVE \E k \in D : Sublist(list, S)[k] = list[i]
    BY <1>0, SublistWorks
  <2> QED BY <2>1, <2>2
<1>2. ToSet(Sublist(list, S)) = {Sublist(list, S)[k] : k \in D}
  BY DEF ToSet, D
<1> DEFINE s == Sublist(list, S)
<1> HIDE DEF D, s
<1>3. ASSUME NEW k \in D PROVE s[k] \in {list[i] : i \in S}
  BY <1>1 DEF s
<1>4. ASSUME NEW i \in S PROVE list[i] \in {s[k] : k \in D}
  BY <1>1 DEF s
<1> QED BY <1>2, <1>3, <1>4 DEF s

IsPermutation(p, D) ==
  /\ p \in [D -> D]
  /\ \A i \in D : \E k \in D : p[k] = i
  /\ \A k, l \in D : p[k] = p[l] => k = l

\* OldestFirst, and with it ParseBills, lists every bill once, oldest first.
LEMMA ParseBillsWorks ==
  ASSUME NEW list, NEW n \in Nat, DOMAIN list = 1 .. n,
         \A i \in 1 .. n : list[i].period_start \in Int
  PROVE  \E p : /\ IsPermutation(p, 1 .. n)
                /\ OldestFirst(list) = [k \in 1 .. n |-> list[p[k]]]
                /\ ParseBills(list) = [k \in 1 .. n |-> ParseBill(list[p[k]])]
                /\ \A k, l \in 1 .. n :
                     k <= l => list[p[k]].period_start <= list[p[l]].period_start
<1> DEFINE D == 1 .. n
           start == [i \in D |-> list[i].period_start]
           R == {q \in D \X D : \/ start[q[1]] < start[q[2]]
                                \/ start[q[1]] = start[q[2]] /\ q[1] <= q[2]}
           place == Places(D, R)
<1>1. \A i \in D : i \in Int /\ start[i] \in Int
  OBVIOUS
<1>2. \A j, i \in D : <<j, i>> \in R <=> \/ start[j] < start[i]
                                         \/ start[j] = start[i] /\ j <= i
  OBVIOUS
<1>3. ASSUME NEW i \in D, NEW j \in D
      PROVE  Cardinality({x \in D : \/ list[x].period_start < list[i].period_start
                                    \/ list[x].period_start = list[i].period_start /\ x <= i})
               = place[i]
  BY DEF Places
<1>4. IsFiniteSet(D) /\ Cardinality(D) = n
  BY FS_Interval
<1> HIDE DEF R, place
<1>5. IsOrder(D, R)
  <2> HIDE DEF start, D
  <2>1. \A i \in D : <<i, i>> \in R
    BY <1>1, <1>2
  <2>2. ASSUME NEW i \in D, NEW j \in D, <<i, j>> \in R, <<j, i>> \in R PROVE i = j
    <3>1. i \in Int /\ j \in Int /\ start[i] \in Int /\ start[j] \in Int
      BY <1>1
    <3>2. /\ start[i] < start[j] \/ (start[i] = start[j] /\ i <= j)
          /\ start[j] < start[i] \/ (start[j] = start[i] /\ j <= i)
      BY <1>2, <2>2
    <3> QED BY <3>1, <3>2
  <2>3. ASSUME NEW i \in D, NEW j \in D PROVE <<i, j>> \in R \/ <<j, i>> \in R
    <3>1. i \in Int /\ j \in Int /\ start[i] \in Int /\ start[j] \in Int
      BY <1>1
    <3>2. \/ start[i] < start[j] \/ (start[i] = start[j] /\ i <= j)
          \/ start[j] < start[i] \/ (start[j] = start[i] /\ j <= i)
      BY <3>1
    <3> QED BY <1>2, <3>2
  <2>4. ASSUME NEW i \in D, NEW j \in D, NEW k \in D, <<i, j>> \in R, <<j, k>> \in R
        PROVE  <<i, k>> \in R
    <3>1. /\ i \in Int /\ j \in Int /\ k \in Int
          /\ start[i] \in Int /\ start[j] \in Int /\ start[k] \in Int
      BY <1>1
    <3>2. /\ start[i] < start[j] \/ (start[i] = start[j] /\ i <= j)
          /\ start[j] < start[k] \/ (start[j] = start[k] /\ j <= k)
      BY <1>2, <2>4
    <3>3. start[i] < start[k] \/ (start[i] = start[k] /\ i <= k)
      BY <3>1, <3>2
    <3> QED BY <1>2, <3>3
  <2> QED BY <2>1, <2>2, <2>3, <2>4 DEF IsOrder
<1>6. /\ \A k \in D : \E i \in D : place[i] = k
      /\ \A i \in D : place[i] \in D
      /\ \A i, j \in D : place[i] = place[j] => i = j
      /\ \A i, j \in D : place[i] <= place[j] => <<i, j>> \in R
  <2> HIDE DEF D
  <2>1. /\ \A k \in 1 .. Cardinality(D) : \E i \in D : place[i] = k
        /\ \A i \in D : place[i] \in 1 .. Cardinality(D)
        /\ \A i, j \in D : place[i] = place[j] => i = j
        /\ \A i, j \in D : place[i] <= place[j] => <<i, j>> \in R
    BY <1>4, <1>5, PlacesWork DEF place
  <2>2. 1 .. Cardinality(D) = D
    BY <1>4 DEF D
  <2> QED BY <2>1, <2>2
<1> DEFINE p == [k \in D |-> CHOOSE i \in D :
                   Cardinality({x \in D :
                     \/ list[x].period_start < list[i].period_start
                     \/ list[x].period_start = list[i].period_start /\ x <= i}) = k]
<1>7. ASSUME NEW k \in D PROVE p[k] \in D /\ place[p[k]] = k
  <2>1. \E i \in D : Cardinality({x \in D :
                     \/ list[x].period_start < list[i].period_start
                     \/ list[x].period_start = list[i].period_start /\ x <= i}) = k
    <3>1. PICK i \in D : place[i] = k
      BY <1>6
    <3>2. Cardinality({x \in D :
                     \/ list[x].period_start < list[i].period_start
                     \/ list[x].period_start = list[i].period_start /\ x <= i}) = k
      <4> HIDE DEF D, p
      <4> QED BY <1>3, <3>1
    <3> HIDE DEF D, p
    <3> QED BY <3>2
  <2>2. p[k] \in D /\ Cardinality({x \in D :
                     \/ list[x].period_start < list[p[k]].period_start
                     \/ list[x].period_start = list[p[k]].period_start /\ x <= p[k]}) = k
    BY <2>1
  <2> HIDE DEF p
  <2> QED BY <1>3, <2>2
<1>8. IsPermutation(p, D)
  <2>1. p \in [D -> D]
    BY <1>7
  <2>2. ASSUME NEW i \in D PROVE \E k \in D : p[k] = i
    <3>1. place[i] \in D
      BY <1>6
    <3>2. place[p[place[i]]] = place[i] /\ p[place[i]] \in D
      BY <1>7, <3>1
    <3> QED BY <1>6, <3>1, <3>2
  <2>3. ASSUME NEW k \in D, NEW l \in D, p[k] = p[l] PROVE k = l
    BY <1>7, <2>3
  <2> HIDE DEF p
  <2> QED BY <2>1, <2>2, <2>3 DEF IsPermutation
<1>9. /\ OldestFirst(list) = [k \in D |-> list[p[k]]]
      /\ ParseBills(list) = [k \in D |-> ParseBill(list[p[k]])]
  <2>1. OldestFirst(list) = [k \in D |-> list[p[k]]]
    BY DEF OldestFirst
  <2> HIDE DEF p, D
  <2>2. ParseBills(list) = [k \in D |-> ParseBill(list[p[k]])]
    BY <2>1 DEF ParseBills
  <2> QED BY <2>1, <2>2
<1>10. ASSUME NEW k \in D, NEW l \in D, k <= l
       PROVE  list[p[k]].period_start <= list[p[l]].period_start
  <2>1. p[k] \in D /\ p[l] \in D /\ place[p[k]] <= place[p[l]]
    BY <1>7, <1>10
  <2> HIDE DEF p
  <2>2. start[p[k]] < start[p[l]] \/ start[p[k]] = start[p[l]]
    <3> HIDE DEF start, D
    <3> QED BY <1>2, <1>6, <2>1
  <2>3. start[p[k]] \in Int /\ start[p[l]] \in Int
    BY <1>1, <2>1
  <2>4. start[p[k]] <= start[p[l]]
    BY <2>2, <2>3
  <2> QED BY <2>1, <2>4
<1> HIDE DEF p
<1> QED BY <1>8, <1>9, <1>10

(***************************************************************************)
(* The calendar                                                            *)
(***************************************************************************)
Months == Len(MonthStart)

\* Days and months are numbers.
LEMMA CalendarFacts ==
  /\ Months \in Nat /\ Months > 1 /\ CalendarMonths = 1 .. Months - 1
  /\ \A m \in 1 .. Months : MonthStart[m] \in Nat
  /\ \A m \in CalendarMonths : MonthStart[m] < MonthStart[m + 1]
  /\ CalendarDays = MonthStart[1] .. MonthStart[Months] - 1
BY CalendarAssumption DEF Months, CalendarMonths, CalendarDays

\* A later month starts later.
LEMMA MonthsFollow ==
  ASSUME NEW m \in 1 .. Months, NEW n \in 1 .. Months, m < n
  PROVE  MonthStart[m] < MonthStart[n]
<1> DEFINE S == {k \in Nat : \A i \in 1 .. Months :
                   i + k + 1 <= Months => MonthStart[i] < MonthStart[i + k + 1]}
<1>1. 0 \in S
  <2>1. ASSUME NEW i \in 1 .. Months, i + 0 + 1 <= Months
        PROVE  MonthStart[i] < MonthStart[i + 0 + 1]
    <3>1. i \in CalendarMonths /\ i + 0 + 1 = i + 1
      BY <2>1, CalendarFacts
    <3> QED BY <3>1, CalendarFacts
  <2> QED BY <2>1
<1>2. ASSUME NEW k \in Nat, k \in S PROVE k + 1 \in S
  <2>1. ASSUME NEW i \in 1 .. Months, i + (k + 1) + 1 <= Months
        PROVE  MonthStart[i] < MonthStart[i + (k + 1) + 1]
    <3> DEFINE j == i + k + 1
    <3>1. j \in 1 .. Months /\ j + 1 \in 1 .. Months /\ j \in CalendarMonths
      BY <2>1, CalendarFacts
    <3>2. i + (k + 1) + 1 = j + 1
      BY <2>1, CalendarFacts
    <3>3. MonthStart[i] < MonthStart[j]
      BY <1>2, <3>1
    <3> HIDE DEF j
    <3>4. MonthStart[j] < MonthStart[j + 1]
      BY <3>1, CalendarFacts
    <3>5. MonthStart[i] \in Nat /\ MonthStart[j] \in Nat /\ MonthStart[j + 1] \in Nat
      BY <3>1, CalendarFacts
    <3> QED BY <3>2, <3>3, <3>4, <3>5
  <2> QED BY <2>1
<1> HIDE DEF S
<1>3. n - m - 1 \in S
  <2>1. n - m - 1 \in Nat
    BY CalendarFacts
  <2> QED BY <1>1, <1>2, <2>1, NatBySets
<1>4. m + (n - m - 1) + 1 = n /\ m + (n - m - 1) + 1 <= Months
  BY CalendarFacts
<1>5. n - m - 1 \in S => MonthStart[m] < MonthStart[m + (n - m - 1) + 1]
  BY <1>4 DEF S
<1> QED BY <1>3, <1>4, <1>5

\* A month begins and ends on days of the calendar, the day before the next.
LEMMA MonthFacts ==
  ASSUME NEW m \in CalendarMonths
  PROVE  /\ m \in Nat /\ MonthStart[m] \in Nat /\ MonthStart[m + 1] \in Nat
         /\ LastDay(m) \in Nat /\ LastDay(m) = MonthStart[m + 1] - 1
         /\ MonthStart[m] <= LastDay(m)
         /\ MonthStart[m] \in CalendarDays /\ LastDay(m) \in CalendarDays
<1>1. m \in 1 .. Months /\ m + 1 \in 1 .. Months /\ 1 \in 1 .. Months /\ Months \in 1 .. Months
  BY CalendarFacts
<1>2. MonthStart[m] \in Nat /\ MonthStart[m + 1] \in Nat /\ MonthStart[1] \in Nat
      /\ MonthStart[Months] \in Nat /\ MonthStart[m] < MonthStart[m + 1]
  BY <1>1, CalendarFacts
<1>3. MonthStart[1] <= MonthStart[m]
  BY <1>1, <1>2, MonthsFollow
<1>4. MonthStart[m + 1] <= MonthStart[Months]
  BY <1>1, <1>2, MonthsFollow
<1>5. LastDay(m) = MonthStart[m + 1] - 1
  BY DEF LastDay
<1>6. LastDay(m) \in Nat /\ MonthStart[m] <= LastDay(m) /\ LastDay(m) <= MonthStart[Months] - 1
  <2> DEFINE a == MonthStart[m]
             b == MonthStart[m + 1]
             c == MonthStart[Months]
  <2>1. a \in Nat /\ b \in Nat /\ c \in Nat /\ a < b /\ b <= c
    BY <1>2, <1>4
  <2> HIDE DEF a, b, c
  <2>2. b - 1 \in Nat /\ a <= b - 1 /\ b - 1 <= c - 1
    BY <2>1
  <2> QED BY <1>5, <2>2 DEF a, b, c
<1>7. LastDay(m) \in MonthStart[1] .. MonthStart[Months] - 1
  BY <1>2, <1>3, <1>6
<1>8. MonthStart[m] \in MonthStart[1] .. MonthStart[Months] - 1
  BY <1>2, <1>3, <1>6
<1>9. m \in Nat
  BY <1>1
<1> QED BY <1>2, <1>5, <1>6, <1>7, <1>8, <1>9, CalendarFacts

\* Every day is in one month.
LEMMA MonthOfWorks ==
  ASSUME NEW d \in CalendarDays
  PROVE  /\ MonthOf(d) \in CalendarMonths
         /\ MonthStart[MonthOf(d)] <= d /\ d <= LastDay(MonthOf(d))
<1> DEFINE S == {n \in Nat : n + 1 \in 1 .. Months /\ MonthStart[n + 1] > d}
<1>0. d \in Int /\ MonthStart[1] <= d /\ d < MonthStart[Months]
  BY CalendarFacts
<1>1. Months - 1 \in S
  BY <1>0, CalendarFacts
<1>2. PICK n \in S : \A k \in S : n <= k
  BY <1>1, LeastNat
<1>3. n \in Nat /\ n + 1 \in 1 .. Months /\ MonthStart[n + 1] > d
  BY <1>2
<1>4. n # 0
  BY <1>0, <1>3, CalendarFacts
<1>5. n - 1 \notin S
  BY <1>2, <1>3
<1>6. n \in CalendarMonths /\ (n - 1) + 1 = n /\ n - 1 \in Nat /\ n \in 1 .. Months
  BY <1>3, <1>4, CalendarFacts
<1>7. MonthStart[n] <= d
  BY <1>0, <1>5, <1>6, CalendarFacts
<1>8. d <= LastDay(n)
  BY <1>0, <1>3, <1>6, MonthFacts
<1> QED BY <1>6, <1>7, <1>8 DEF MonthOf

\* The rounding takes the hour of summer time out of the days between.
LEMMA InclusiveDaysWorks ==
  ASSUME NEW s \in CalendarDays, NEW e \in CalendarDays
  PROVE  InclusiveDays(s, e) = e - s + 1
<1> DEFINE k == e - s
           x == HoursEast[e] - HoursEast[s]
           D == LocalMidnight(e) - LocalMidnight(s)
           f == Frac(D, 24)
           u == f[1]
           v == f[2]
<1>1. s \in Int /\ e \in Int /\ k \in Int
  BY CalendarFacts
<1>2. HoursEast[e] \in Int /\ HoursEast[s] \in Int /\ x \in -11 .. 11
  BY ZoneAssumption
<1>3. D \in Int /\ D = 24 * k - x
  BY <1>1, <1>2 DEF LocalMidnight
<1> HIDE DEF k, x, D
<1>4. f \in Fractions /\ u * 24 = D * v
  BY <1>3, FracIsFraction
<1>5. u \in Int /\ v \in Nat \ {0}
  BY <1>4, FractionParts
<1>6. InclusiveDays(s, e) = (2 * u + v) \div (2 * v) + 1
  BY DEF InclusiveDays, Nearest, D
<1> HIDE DEF f, u, v
<1>7. (2 * u + v) \div (2 * v) = k
  <2>1. u * 24 = 24 * (k * v) - x * v
    BY <1>1, <1>2, <1>3, <1>4, <1>5
  <2>2. -(11 * v) <= x * v /\ x * v <= 11 * v
    BY <1>2, <1>5
  <2> DEFINE y == k * v
             z == x * v
             w == 2 * v
             q == 2 * u + v
  <2>3. y \in Int /\ z \in Int /\ w \in Nat \ {0} /\ q \in Int /\ w = 2 * v
    BY <1>1, <1>2, <1>5
  <2>4. w * k = 2 * y
    BY <1>1, <1>5
  <2> HIDE DEF y, z
  <2>5. u * 24 = 24 * y - z /\ -(11 * v) <= z /\ z <= 11 * v
    BY <2>1, <2>2 DEF y, z
  <2>6. 2 * y <= q /\ q < 2 * y + w
    BY <1>5, <2>3, <2>5
  <2>7. q = w * k + (q - 2 * y) /\ 0 <= q - 2 * y /\ q - 2 * y < w
    BY <2>3, <2>4, <2>6
  <2> DEFINE r == q - 2 * y
  <2>8. r \in 0 .. w - 1 /\ q = w * k + r
    BY <2>3, <2>7
  <2> HIDE DEF r, w, q
  <2>9. q \div w = k
    BY <1>1, <2>3, <2>8
  <2> QED BY <2>9 DEF q, w
<1> QED BY <1>6, <1>7 DEF k

\* The greater of two numbers ...
LEMMA MaxOfTwo ==
  ASSUME NEW a \in Int, NEW b \in Int
  PROVE  Max({a, b}) = IF a >= b THEN a ELSE b
<1> DEFINE c == IF a >= b THEN a ELSE b
<1>1. c \in {a, b} /\ \A y \in {a, b} : c >= y
  OBVIOUS
<1>2. ASSUME NEW x \in {a, b}, \A y \in {a, b} : x >= y PROVE x = c
  BY <1>2
<1> HIDE DEF c
<1>3. Max({a, b}) \in {a, b} /\ \A y \in {a, b} : Max({a, b}) >= y
  BY <1>1 DEF Max
<1> QED BY <1>2, <1>3 DEF c

\* ... and the lesser.
LEMMA MinOfTwo ==
  ASSUME NEW a \in Int, NEW b \in Int
  PROVE  Min({a, b}) = IF a <= b THEN a ELSE b
<1> DEFINE c == IF a <= b THEN a ELSE b
<1>1. c \in {a, b} /\ \A y \in {a, b} : c <= y
  OBVIOUS
<1>2. ASSUME NEW x \in {a, b}, \A y \in {a, b} : x <= y PROVE x = c
  BY <1>2
<1> HIDE DEF c
<1>3. Min({a, b}) \in {a, b} /\ \A y \in {a, b} : Min({a, b}) <= y
  BY <1>1 DEF Min
<1> QED BY <1>2, <1>3 DEF c

\* The days of a period that fall in a month.
DaysOf(s, e, m) == (s .. e) \cap (MonthStart[m] .. LastDay(m))

\* overlapDays counts the days that a period and a month share.
LEMMA OverlapDaysWorks ==
  ASSUME NEW s \in CalendarDays, NEW e \in CalendarDays, NEW m \in CalendarMonths
  PROVE  LET start == Max({s, MonthStart[m]})
             end   == Min({e, LastDay(m)})
         IN  /\ OverlapDays(s, e, MonthStart[m], LastDay(m)) = Cardinality(DaysOf(s, e, m))
             /\ Cardinality(DaysOf(s, e, m)) = IF end >= start THEN end - start + 1 ELSE 0
             /\ IsFiniteSet(DaysOf(s, e, m)) /\ Cardinality(DaysOf(s, e, m)) \in Nat
<1> DEFINE a == MonthStart[m]
           b == LastDay(m)
           start == Max({s, a})
           end == Min({e, b})
<1>1. s \in Int /\ e \in Int
  BY CalendarFacts
<1>2. a \in Int /\ b \in Int /\ a \in CalendarDays /\ b \in CalendarDays
  BY MonthFacts
<1> HIDE DEF a, b
<1>3. start = (IF s >= a THEN s ELSE a) /\ end = (IF e <= b THEN e ELSE b)
  BY <1>1, <1>2, MaxOfTwo, MinOfTwo
<1>4. start \in Int /\ end \in Int /\ start \in CalendarDays /\ end \in CalendarDays
  BY <1>1, <1>2, <1>3
<1>5. (s .. e) \cap (a .. b) = start .. end
  BY <1>1, <1>2, <1>3
<1>6. IsFiniteSet(start .. end) /\ Cardinality(start .. end) = IF start > end THEN 0 ELSE end - start + 1
  BY <1>4, FS_Interval
<1>7. OverlapDays(s, e, a, b) = IF end >= start THEN end - start + 1 ELSE 0
  BY <1>4, InclusiveDaysWorks DEF OverlapDays
<1>8. OverlapDays(s, e, a, b) = Cardinality(start .. end) /\ Cardinality(start .. end) \in Nat
  BY <1>4, <1>6, <1>7
<1>9. Cardinality(start .. end) = IF end >= start THEN end - start + 1 ELSE 0
  BY <1>4, <1>6
<1> QED BY <1>5, <1>6, <1>8, <1>9 DEF DaysOf, a, b

(***************************************************************************)
(* Lists of bills                                                          *)
(***************************************************************************)
\* A list of parsed bills has each bill of a set once.
Lists(P, B) ==
  /\ \E n \in Nat : DOMAIN P = 1 .. n
  /\ \A b \in B : IsBill(b)
  /\ \A b, c \in B : b.id = c.id => b = c
  /\ \A i \in DOMAIN P : \E b \in B : P[i] = ParseBill(b)
  /\ \A b \in B : \E i \in DOMAIN P : P[i] = ParseBill(b)
  /\ \A i, j \in DOMAIN P : P[i].id = P[j].id => i = j

\* What parseBill keeps of a bill.
LEMMA ParsedFields ==
  ASSUME NEW b, IsBill(b)
  PROVE  LET p == ParseBill(b)
         IN  /\ p.id = b.id /\ p.periodStart = b.period_start /\ p.periodEnd = b.period_end
             /\ p.days = b.period_end - b.period_start + 1 /\ p.days \in Nat \ {0}
             /\ p.consumption = b.consumption /\ p.unitPrice = b.unit_price
             /\ p.fixedCharges = b.fixed_charges /\ p.taxes = b.taxes
             /\ p.total = b.total_amount
<1>1. b.period_start \in CalendarDays /\ b.period_end \in CalendarDays
      /\ b.period_start <= b.period_end
  BY DEF IsBill
<1>2. InclusiveDays(b.period_start, b.period_end) = b.period_end - b.period_start + 1
  BY <1>1, InclusiveDaysWorks
<1>3. b.period_start \in Int /\ b.period_end \in Int
  BY <1>1, CalendarFacts
<1>4. b.period_end - b.period_start + 1 \in Nat \ {0}
  BY <1>1, <1>3
<1> QED BY <1>2, <1>4 DEF ParseBill

\* No two bills parse to the same.
LEMMA SameParsed ==
  ASSUME NEW P, NEW B, Lists(P, B), NEW b \in B, NEW c \in B, ParseBill(b) = ParseBill(c)
  PROVE  b = c
<1>1. b.id = ParseBill(b).id /\ c.id = ParseBill(c).id
  BY DEF ParseBill
<1> QED BY <1>1 DEF Lists

IsRecord(r) ==
  /\ r \in Seq(ToSet(r)) /\ \A b \in ToSet(r) : IsBill(b)
  /\ \A i, j \in DOMAIN r : r[i].id = r[j].id => i = j

\* The data are always the record of some bills.
LEMMA RecordsAreRecords ==
  ASSUME NEW r \in Records \cup {<<>>}
  PROVE  IsRecord(r)
<1>1. CASE r \in Records
  BY <1>1, RecordsAssumption DEF IsRecord
<1>2. CASE r = <<>>
  BY <1>2 DEF IsRecord, ToSet
<1> QED BY <1>1, <1>2

\* parseBills lists the bills of a record.
LEMMA ParseBillsLists ==
  ASSUME NEW r, IsRecord(r)
  PROVE  Lists(ParseBills(r), ToSet(r))
<1> DEFINE n == Len(r)
           B == ToSet(r)
           P == ParseBills(r)
<1>1. n \in Nat /\ DOMAIN r = 1 .. n
  BY DEF IsRecord
<1>2. B = {r[i] : i \in 1 .. n}
  BY <1>1 DEF ToSet
<1> HIDE DEF B, n
<1>3. \A i \in 1 .. n : r[i] \in B /\ IsBill(r[i])
  BY <1>2 DEF IsRecord, B
<1>4. \A i \in 1 .. n : r[i].period_start \in Int
  BY <1>3, CalendarFacts DEF IsBill
<1>5. PICK p : /\ IsPermutation(p, 1 .. n)
               /\ P = [k \in 1 .. n |-> ParseBill(r[p[k]])]
  BY <1>1, <1>4, ParseBillsWorks, SMTT(30)
<1> HIDE DEF P
<1>6. DOMAIN P = 1 .. n
  BY <1>5
<1>7. \A k \in 1 .. n : p[k] \in 1 .. n /\ P[k] = ParseBill(r[p[k]])
  BY <1>5 DEF IsPermutation
<1>8. \A b \in B : IsBill(b)
  BY <1>2, <1>3
<1>9. ASSUME NEW b \in B, NEW c \in B, b.id = c.id PROVE b = c
  <2>1. PICK i \in 1 .. n, j \in 1 .. n : b = r[i] /\ c = r[j]
    BY <1>2
  <2> QED BY <1>1, <1>9, <2>1 DEF IsRecord
<1>10. ASSUME NEW b \in B PROVE \E i \in 1 .. n : P[i] = ParseBill(b)
  <2>1. PICK i \in 1 .. n : b = r[i]
    BY <1>2
  <2>2. PICK k \in 1 .. n : p[k] = i
    BY <1>5 DEF IsPermutation
  <2> QED BY <1>7, <2>1, <2>2
<1>11. ASSUME NEW i \in 1 .. n, NEW j \in 1 .. n, P[i].id = P[j].id PROVE i = j
  <2>1. P[i].id = r[p[i]].id /\ P[j].id = r[p[j]].id
    BY <1>3, <1>7, ParsedFields
  <2>2. p[i] = p[j]
    BY <1>1, <1>7, <1>11, <2>1 DEF IsRecord
  <2> QED BY <1>5, <2>2 DEF IsPermutation
<1>12. \A i \in 1 .. n : \E b \in B : P[i] = ParseBill(b)
  BY <1>3, <1>7
<1> HIDE DEF IsBill
<1> QED BY <1>1, <1>6, <1>8, <1>9, <1>10, <1>11, <1>12 DEF Lists, P, B

\* The bills of a record as a list, each at its own place.
AsParsed(r) == [i \in DOMAIN r |-> ParseBill(r[i])]
LEMMA RecordLists ==
  ASSUME NEW r, IsRecord(r)
  PROVE  /\ Len(r) \in Nat /\ DOMAIN r = 1 .. Len(r) /\ r = [i \in DOMAIN r |-> r[i]]
         /\ Lists(AsParsed(r), ToSet(r)) /\ DOMAIN AsParsed(r) = DOMAIN r
         /\ \A i \in DOMAIN r, b \in ToSet(r) : AsParsed(r)[i] = ParseBill(b) => r[i] = b
         /\ \A i \in DOMAIN r : r[i] \in ToSet(r) /\ IsBill(r[i])
         /\ IsFiniteSet(ToSet(r)) /\ Cardinality(ToSet(r)) = Len(r)
<1> DEFINE n == Len(r)
           B == ToSet(r)
           P == AsParsed(r)
<1>1. n \in Nat /\ DOMAIN r = 1 .. n /\ r = [i \in DOMAIN r |-> r[i]]
  BY DEF IsRecord
<1>2. B = {r[i] : i \in DOMAIN r}
  BY DEF ToSet
<1>3. \A b \in B : IsBill(b)
  BY DEF IsRecord
<1>4. \A i, j \in DOMAIN r : r[i].id = r[j].id => i = j
  BY DEF IsRecord
<1>5. DOMAIN P = DOMAIN r /\ \A i \in DOMAIN r : P[i] = ParseBill(r[i])
  BY DEF AsParsed
<1> HIDE DEF B, P
<1>6. \A i \in DOMAIN r : r[i] \in B /\ IsBill(r[i])
  BY <1>2, <1>3
<1>7. ASSUME NEW b \in B, NEW c \in B, b.id = c.id PROVE b = c
  BY <1>2, <1>4, <1>7
<1>8. \A b : ParseBill(b).id = b.id
  BY DEF ParseBill
<1>9. \A i, j \in DOMAIN P : P[i].id = P[j].id => i = j
  BY <1>4, <1>5, <1>8
<1>10. ASSUME NEW b \in B PROVE \E i \in DOMAIN P : P[i] = ParseBill(b)
  BY <1>2, <1>5
<1>11. \A i \in DOMAIN P : \E b \in B : P[i] = ParseBill(b)
  BY <1>5, <1>6
<1>12. Lists(P, B)
  <2> HIDE DEF IsBill
  <2> QED BY <1>1, <1>3, <1>5, <1>7, <1>9, <1>10, <1>11 DEF Lists
<1>13. \A i \in DOMAIN r, b \in B : P[i] = ParseBill(b) => r[i] = b
  BY <1>5, <1>6, <1>7, <1>8
<1>14. IsFiniteSet(B) /\ Cardinality(B) = n
  <2> DEFINE f == [i \in 1 .. n |-> r[i]]
  <2>1. f \in [1 .. n -> B] /\ \A b \in B : \E i \in 1 .. n : f[i] = b
    BY <1>1, <1>2
  <2>2. \A i, j \in 1 .. n : f[i] = f[j] => i = j
    BY <1>1, <1>4
  <2> HIDE DEF f
  <2>3. f \in Surjection(1 .. n, B) /\ f \in Injection(1 .. n, B)
    BY <2>1, <2>2 DEF Surjection, Injection, IsInjective
  <2>4. f \in Bijection(1 .. n, B)
    BY <2>3 DEF Bijection
  <2> HIDE DEF n
  <2>5. IsFiniteSet(1 .. n) /\ Cardinality(1 .. n) = n
    BY <1>1, FS_Interval
  <2>6. ExistsBijection(1 .. n, B)
    BY <2>4 DEF ExistsBijection
  <2> QED BY <2>5, <2>6, FS_Bijection
<1> QED BY <1>1, <1>5, <1>6, <1>12, <1>13, <1>14 DEF B, P

\* Some bills of a record, and a record that is sorted, are a record.
LEMMA PartOfRecord ==
  ASSUME NEW r, IsRecord(r), NEW S, S \subseteq DOMAIN r
  PROVE  /\ IsRecord(Sublist(r, S)) /\ ToSet(Sublist(r, S)) = {r[i] : i \in S}
         /\ Len(Sublist(r, S)) <= Len(r)
<1> DEFINE Q == Sublist(r, S)
           order == InOrder(S)
           c == Cardinality(S)
<1>1. /\ Len(r) \in Nat /\ DOMAIN r = 1 .. Len(r)
      /\ \A i \in DOMAIN r : r[i] \in ToSet(r) /\ IsBill(r[i])
      /\ \A i, j \in DOMAIN r : r[i].id = r[j].id => i = j
  BY RecordLists DEF IsRecord
<1>2. S \subseteq Int /\ IsFiniteSet(S) /\ c \in Nat /\ c <= Len(r)
  <2>1. IsFiniteSet(1 .. Len(r)) /\ Cardinality(1 .. Len(r)) = Len(r)
    BY <1>1, FS_Interval
  <2>2. S \in SUBSET (1 .. Len(r))
    BY <1>1
  <2>3. IsFiniteSet(S) /\ c <= Len(r)
    BY <2>1, <2>2, FS_Subset
  <2> QED BY <2>2, <2>3, FS_CardinalityType
<1>3. /\ Q = [k \in 1 .. c |-> Q[k]]
      /\ \A k \in 1 .. c : order[k] \in S /\ Q[k] = r[order[k]]
      /\ \A k, l \in 1 .. c : order[k] = order[l] => k = l
  <2>1. Q = [k \in 1 .. c |-> Q[k]]
    BY DEF Sublist
  <2> QED BY <1>2, <2>1, SublistWorks
<1>4. ToSet(Q) = {r[i] : i \in S}
  BY <1>2, SublistMembers
<1> HIDE DEF Q, order, c
<1>5. Q \in Seq(ToSet(Q)) /\ Len(Q) = c
  <2>1. \A k \in 1 .. c : Q[k] \in ToSet(Q)
    BY <1>3, <1>4
  <2>2. Q \in [1 .. c -> ToSet(Q)]
    BY <1>3, <2>1
  <2> QED BY <1>2, <2>2
<1>6. \A b \in ToSet(Q) : IsBill(b)
  BY <1>1, <1>4
<1>7. \A i, j \in DOMAIN Q : Q[i].id = Q[j].id => i = j
  BY <1>1, <1>3
<1> QED BY <1>2, <1>4, <1>5, <1>6, <1>7 DEF IsRecord, Q

\* Sorting a record leaves a record of the same bills.
LEMMA SortedRecord ==
  ASSUME NEW r, IsRecord(r)
  PROVE  LET o == OldestFirst(r)
         IN  /\ IsRecord(o) /\ ToSet(o) = ToSet(r) /\ Len(o) = Len(r)
<1> DEFINE n == Len(r)
           o == OldestFirst(r)
<1>1. /\ n \in Nat /\ DOMAIN r = 1 .. n
      /\ \A i \in 1 .. n : r[i] \in ToSet(r) /\ IsBill(r[i])
      /\ \A i, j \in 1 .. n : r[i].id = r[j].id => i = j
  BY RecordLists DEF IsRecord
<1>2. \A i \in 1 .. n : r[i].period_start \in Int
  BY <1>1, CalendarFacts DEF IsBill
<1>3. PICK p : IsPermutation(p, 1 .. n) /\ o = [k \in 1 .. n |-> r[p[k]]]
  BY <1>1, <1>2, ParseBillsWorks, SMTT(30)
<1>4. ToSet(r) = {r[i] : i \in 1 .. n}
  BY <1>1 DEF ToSet
<1> HIDE DEF n, o
<1>5. \A k \in 1 .. n : p[k] \in 1 .. n /\ o[k] = r[p[k]]
  BY <1>3 DEF IsPermutation
<1>6. ToSet(o) = ToSet(r)
  <2>1. ToSet(o) = {o[k] : k \in 1 .. n}
    BY <1>3 DEF ToSet
  <2>2. \A i \in 1 .. n : \E k \in 1 .. n : p[k] = i
    BY <1>3 DEF IsPermutation
  <2> QED BY <1>4, <1>5, <2>1, <2>2
<1>7. o \in Seq(ToSet(o)) /\ Len(o) = n
  <2>1. o \in [1 .. n -> ToSet(o)]
    BY <1>1, <1>3, <1>5, <1>6
  <2> QED BY <1>1, <2>1 DEF n
<1>8. \A b \in ToSet(o) : IsBill(b)
  BY <1>6 DEF IsRecord
<1>9. \A i, j \in DOMAIN o : o[i].id = o[j].id => i = j
  <2>1. \A i, j \in 1 .. n : p[i] = p[j] => i = j
    BY <1>3 DEF IsPermutation
  <2>2. DOMAIN o = 1 .. n
    BY <1>3
  <2> QED BY <1>1, <1>5, <2>1, <2>2
<1> QED BY <1>6, <1>7, <1>8, <1>9 DEF IsRecord, n, o

\* A filtered list lists the bills that pass.
LEMMA SublistLists ==
  ASSUME NEW P, NEW B, Lists(P, B), NEW C, C \subseteq B, NEW S, S \subseteq DOMAIN P,
         \A i \in DOMAIN P, b \in B : P[i] = ParseBill(b) => (i \in S <=> b \in C)
  PROVE  Lists(Sublist(P, S), C)
<1> DEFINE Q == Sublist(P, S)
           order == InOrder(S)
           c == Cardinality(S)
<1>1. PICK n \in Nat : DOMAIN P = 1 .. n
  BY DEF Lists
<1>2. S \subseteq Int /\ IsFiniteSet(S) /\ c \in Nat
  <2>1. S \in SUBSET (1 .. n) /\ IsFiniteSet(1 .. n)
    BY <1>1, FS_Interval
  <2>2. IsFiniteSet(S)
    BY <2>1, FS_Subset
  <2> QED BY <2>1, <2>2, FS_CardinalityType
<1>3. DOMAIN Q = 1 .. c
  BY <1>2, SublistWorks
<1>4. \A k \in 1 .. c : order[k] \in S /\ Q[k] = P[order[k]]
  BY <1>2, SublistWorks
<1>5. \A i \in S : \E k \in 1 .. c : Q[k] = P[i]
  BY <1>2, SublistWorks
<1>6. \A k, l \in 1 .. c : order[k] = order[l] => k = l
  BY <1>2, SublistWorks
<1> HIDE DEF Q, order, c
<1>7. ASSUME NEW k \in 1 .. c PROVE \E b \in C : Q[k] = ParseBill(b)
  <2>1. order[k] \in S /\ order[k] \in DOMAIN P /\ Q[k] = P[order[k]]
    BY <1>4
  <2>2. PICK b \in B : P[order[k]] = ParseBill(b)
    BY <2>1 DEF Lists
  <2> QED BY <2>1, <2>2
<1>8. ASSUME NEW b \in C PROVE \E k \in 1 .. c : Q[k] = ParseBill(b)
  <2>1. PICK i \in DOMAIN P : P[i] = ParseBill(b)
    BY DEF Lists
  <2>2. i \in S
    BY <2>1
  <2> QED BY <1>5, <2>1, <2>2
<1>9. ASSUME NEW k \in 1 .. c, NEW l \in 1 .. c, Q[k].id = Q[l].id PROVE k = l
  <2>1. /\ order[k] \in DOMAIN P /\ order[l] \in DOMAIN P
        /\ P[order[k]].id = P[order[l]].id
    BY <1>4, <1>9
  <2>2. order[k] = order[l]
    BY <2>1 DEF Lists
  <2> QED BY <1>6, <2>2
<1>10. \A b \in C : IsBill(b)
  BY DEF Lists
<1>11. \A a, b \in C : a.id = b.id => a = b
  BY DEF Lists
<1> HIDE DEF IsBill
<1> QED BY <1>2, <1>3, <1>7, <1>8, <1>9, <1>10, <1>11 DEF Lists, Q

\* A total over a list of bills is the total over the set of them.
LEMMA TotalsOverBills ==
  ASSUME NEW P, NEW B, Lists(P, B), NEW C, C \subseteq B,
         NEW f, DOMAIN f = DOMAIN P, \A i \in DOMAIN P : f[i] \in Fractions,
         NEW g, DOMAIN g = C,
         \A i \in DOMAIN P, b \in B :
           P[i] = ParseBill(b) => f[i] = IF b \in C THEN g[b] ELSE Zero
  PROVE  Total(f) = Total(g) /\ IsFiniteSet(C)
<1> DEFINE D == DOMAIN P
           h == [b \in C |-> CHOOSE i \in D : P[i] = ParseBill(b)]
<1>1. IsFiniteSet(D)
  BY FS_Interval DEF Lists
<1>2. ASSUME NEW b \in C PROVE h[b] \in D /\ P[h[b]] = ParseBill(b)
  BY DEF Lists
<1>3. h \in [C -> D]
  BY <1>2
<1> HIDE DEF h
<1>4. ASSUME NEW b \in C, NEW c \in C, h[b] = h[c] PROVE b = c
  <2>1. ParseBill(b) = ParseBill(c) /\ b \in B /\ c \in B
    BY <1>2, <1>4
  <2> QED BY <2>1, SameParsed
<1>5. h \in Injection(C, D)
  BY <1>3, <1>4 DEF Injection, IsInjective
<1>6. IsFiniteSet(C)
  BY <1>1, <1>5, FS_Injection
<1>7. \A b \in C : g[b] = f[h[b]]
  BY <1>2
<1>8. ASSUME NEW i \in D, \A b \in C : h[b] # i PROVE f[i] = Zero
  <2>1. PICK b \in B : P[i] = ParseBill(b)
    BY DEF Lists
  <2>2. CASE b \in C
    <3>1. P[h[b]] = P[i] /\ h[b] \in D
      BY <1>2, <2>1, <2>2
    <3>2. h[b] = i
      BY <3>1 DEF Lists
    <3> QED BY <1>8, <2>2, <3>2
  <2> QED BY <2>1, <2>2
<1>9. Matches(D, f, C, g, h)
  BY <1>1, <1>3, <1>4, <1>6, <1>7, <1>8 DEF Matches
<1> QED BY <1>6, <1>9, TotalsMatch

(***************************************************************************)
(* The months of a list of bills                                           *)
(***************************************************************************)
Covers(b, m) == DaysIn(b, m) # {}

\* The browser, the server and a count by days agree on the days a bill has in
\* a month.
LEMMA TouchesWhenCovers ==
  ASSUME NEW b, IsBill(b), NEW m \in CalendarMonths
  PROVE  /\ Touches(ParseBill(b), m) <=> Covers(b, m)
         /\ SeriesOverlap(b, m) = Cardinality(DaysIn(b, m))
         /\ SeriesOverlap(b, m) # 0 <=> Covers(b, m)
         /\ IsFiniteSet(DaysIn(b, m)) /\ Cardinality(DaysIn(b, m)) \in Nat
<1> DEFINE s == b.period_start
           e == b.period_end
           days == DaysOf(s, e, m)
<1>1. s \in CalendarDays /\ e \in CalendarDays
  BY DEF IsBill
<1>2. days = DaysIn(b, m)
  BY DEF DaysOf, DaysIn
<1>3. /\ OverlapDays(s, e, MonthStart[m], LastDay(m)) = Cardinality(days)
      /\ IsFiniteSet(days) /\ Cardinality(days) \in Nat
  BY <1>1, OverlapDaysWorks
<1>4. SeriesOverlap(b, m) = Cardinality(days)
  BY <1>1, OverlapDaysWorks DEF SeriesOverlap
<1>5. ParseBill(b).periodStart = s /\ ParseBill(b).periodEnd = e
  BY ParsedFields
<1> HIDE DEF days, s, e
<1>6. Cardinality(days) = 0 <=> days = {}
  BY <1>3, FS_EmptySet
<1>7. Touches(ParseBill(b), m) <=> Cardinality(days) > 0
  BY <1>3, <1>5 DEF Touches
<1> QED BY <1>2, <1>3, <1>4, <1>6, <1>7 DEF Covers

\* The share of a bill that falls in a month, which the server rounds, and what
\* bills come to by their shares.
DayShare(b, m) == Frac(SeriesOverlap(b, m), b.period_end - b.period_start + 1)
ExactSum(B, m, field) == Total([b \in B |-> Times(b[field], DayShare(b, m))])

\* They agree on the share too.
LEMMA ShareWorks ==
  ASSUME NEW b, IsBill(b), NEW m \in CalendarMonths
  PROVE  /\ Share(ParseBill(b), m) = DayShare(b, m)
         /\ DayShare(b, m) \in Fractions
         /\ DayShare(b, m) = Frac(Cardinality(DaysIn(b, m)),
                                     Cardinality(b.period_start .. b.period_end))
         /\ DayShare(b, m)[1] * (b.period_end - b.period_start + 1)
              = Cardinality(DaysIn(b, m)) * DayShare(b, m)[2]
<1> DEFINE s == b.period_start
           e == b.period_end
           k == Cardinality(DaysIn(b, m))
           n == e - s + 1
<1>1. s \in CalendarDays /\ e \in CalendarDays /\ s <= e
  BY DEF IsBill
<1>2. s \in Int /\ e \in Int /\ n \in Nat \ {0}
  BY <1>1, CalendarFacts
<1>3. Cardinality(s .. e) = n
  BY <1>1, <1>2, FS_Interval, SMTT(30)
<1>4. SeriesOverlap(b, m) = k /\ k \in Nat
  BY TouchesWhenCovers
<1>5. OverlapDays(s, e, MonthStart[m], LastDay(m)) = k
  BY <1>1, OverlapDaysWorks DEF DaysOf, DaysIn
<1>6. Share(ParseBill(b), m) = Frac(k, n)
  BY <1>5, ParsedFields DEF Share
<1>7. DayShare(b, m) = Frac(k, n)
  BY <1>4 DEF DayShare
<1> HIDE DEF k, n, s, e
<1>8. Frac(k, n) \in Fractions /\ Frac(k, n)[1] * n = k * Frac(k, n)[2]
  BY <1>2, <1>4, FracIsFraction
<1> QED BY <1>3, <1>6, <1>7, <1>8 DEF k, n, s, e

CoveredBy(B, m) == {b \in B : Covers(b, m)}

\* The bills of a month.
LEMMA TouchingLists ==
  ASSUME NEW P, NEW B, Lists(P, B), NEW m \in CalendarMonths
  PROVE  Lists(Touching(P, m), CoveredBy(B, m))
<1> DEFINE S == {i \in DOMAIN P : Touches(P[i], m)}
<1>1. ASSUME NEW i \in DOMAIN P, NEW b \in B, P[i] = ParseBill(b)
      PROVE  i \in S <=> b \in CoveredBy(B, m)
  <2>1. IsBill(b)
    BY DEF Lists
  <2> QED BY <1>1, <2>1, TouchesWhenCovers DEF CoveredBy
<1>2. S \subseteq DOMAIN P /\ CoveredBy(B, m) \subseteq B
  BY DEF CoveredBy
<1>3. Touching(P, m) = Sublist(P, S)
  BY DEF Touching
<1> HIDE DEF S
<1> QED BY <1>1, <1>2, <1>3, SublistLists

\* The months of a list of bills are those that a bill covers.
LEMMA MonthsOfWorks ==
  ASSUME NEW P, NEW B, Lists(P, B)
  PROVE  /\ MonthsOf(P) = {m \in CalendarMonths : CoveredBy(B, m) # {}}
         /\ MonthsOf(P) \subseteq Int /\ IsFiniteSet(MonthsOf(P))
<1>1. ASSUME NEW m \in CalendarMonths
      PROVE  (\E i \in DOMAIN P : Touches(P[i], m)) <=> CoveredBy(B, m) # {}
  <2>1. ASSUME NEW i \in DOMAIN P, Touches(P[i], m) PROVE CoveredBy(B, m) # {}
    <3>1. PICK b \in B : P[i] = ParseBill(b)
      BY DEF Lists
    <3>2. IsBill(b)
      BY DEF Lists
    <3>3. Covers(b, m)
      BY <2>1, <3>1, <3>2, TouchesWhenCovers
    <3> QED BY <3>3 DEF CoveredBy
  <2>2. ASSUME NEW b \in CoveredBy(B, m) PROVE \E i \in DOMAIN P : Touches(P[i], m)
    <3>1. b \in B /\ Covers(b, m)
      BY DEF CoveredBy
    <3>2. IsBill(b)
      BY <3>1 DEF Lists
    <3>3. PICK i \in DOMAIN P : P[i] = ParseBill(b)
      BY <3>1 DEF Lists
    <3>4. Touches(P[i], m)
      BY <3>1, <3>2, <3>3, TouchesWhenCovers
    <3> QED BY <3>4
  <2> QED BY <2>1, <2>2
<1>2. MonthsOf(P) \in SUBSET CalendarMonths
  BY DEF MonthsOf
<1>3. IsFiniteSet(CalendarMonths) /\ CalendarMonths \subseteq Int
  BY CalendarFacts, FS_Interval
<1>4. IsFiniteSet(MonthsOf(P))
  BY <1>2, <1>3, FS_Subset
<1> QED BY <1>1, <1>2, <1>3, <1>4 DEF MonthsOf

\* A record of a month for every month of a list of bills, in order.
LEMMA MonthlyBucketsWorks ==
  ASSUME NEW P, NEW B, Lists(P, B)
  PROVE  LET L == MonthlyBuckets(P)
             c == Cardinality(MonthsOf(P))
         IN  /\ c \in Nat /\ L = [i \in 1 .. c |-> L[i]]
             /\ \A i \in 1 .. c : L[i].period \in MonthsOf(P)
             /\ \A i \in 1 .. c : L[i] = Bucket(Touching(P, L[i].period), L[i].period)
             /\ \A i, j \in 1 .. c : i < j => L[i].period < L[j].period
             /\ \A m \in MonthsOf(P) : \E i \in 1 .. c : L[i].period = m
<1> DEFINE M == MonthsOf(P)
           L == MonthlyBuckets(P)
           c == Cardinality(M)
           o == InOrder(M)
<1>1. M \subseteq Int /\ IsFiniteSet(M)
  BY MonthsOfWorks
<1> HIDE DEF M
<1>2. /\ o \in [1 .. c -> M]
      /\ \A m \in M : \E k \in 1 .. c : o[k] = m
      /\ \A k, l \in 1 .. c : k < l => o[k] < o[l]
  BY <1>1, InOrderWorks
<1>3. L = [i \in 1 .. c |-> Bucket(Touching(P, o[i]), o[i])]
  BY <1>2 DEF MonthlyBuckets, M
<1>4. c \in Nat
  BY <1>1, FS_CardinalityType
<1> HIDE DEF L, o, c
<1>5. ASSUME NEW i \in 1 .. c PROVE L[i].period = o[i]
  <2>1. L[i] = Bucket(Touching(P, o[i]), o[i])
    BY <1>3
  <2> QED BY <2>1 DEF Bucket
<1>6. \A i \in 1 .. c : L[i] = Bucket(Touching(P, L[i].period), L[i].period)
  BY <1>3, <1>5
<1>7. \A i \in 1 .. c : L[i].period \in M
  BY <1>2, <1>5
<1>8. \A i, j \in 1 .. c : i < j => L[i].period < L[j].period
  BY <1>2, <1>5
<1>9. \A m \in M : \E i \in 1 .. c : L[i].period = m
  BY <1>2, <1>5
<1>10. L = [i \in 1 .. c |-> L[i]]
  BY <1>3
<1> QED BY <1>4, <1>6, <1>7, <1>8, <1>9, <1>10 DEF L, M, c

\* What the list of months has of a month.
LEMMA FindMonthWorks ==
  ASSUME NEW P, NEW B, Lists(P, B), NEW m
  PROVE  /\ HasMonth(MonthlyBuckets(P), m) <=> m \in MonthsOf(P)
         /\ m \in MonthsOf(P) => FindMonth(MonthlyBuckets(P), m) = Bucket(Touching(P, m), m)
<1> DEFINE L == MonthlyBuckets(P)
           c == Cardinality(MonthsOf(P))
<1>1. /\ DOMAIN L = 1 .. c
      /\ \A i \in 1 .. c : L[i].period \in MonthsOf(P)
      /\ \A i \in 1 .. c : L[i] = Bucket(Touching(P, L[i].period), L[i].period)
      /\ \A n \in MonthsOf(P) : \E i \in 1 .. c : L[i].period = n
  BY MonthlyBucketsWorks
<1> HIDE DEF L, c
<1>2. HasMonth(L, m) <=> m \in MonthsOf(P)
  BY <1>1 DEF HasMonth
<1>3. ASSUME m \in MonthsOf(P) PROVE FindMonth(L, m) = Bucket(Touching(P, m), m)
  <2> DEFINE i == CHOOSE i \in DOMAIN L : L[i].period = m
  <2>1. i \in 1 .. c /\ L[i].period = m
    BY <1>1, <1>3
  <2>2. FindMonth(L, m) = L[i]
    BY <1>2, <1>3 DEF FindMonth
  <2> HIDE DEF i
  <2> QED BY <1>1, <2>1, <2>2
<1> QED BY <1>2, <1>3 DEF L

\* Null is no fraction.
LEMMA AmountsAre ==
  /\ \A p \in Fractions : p # Null
  /\ \A p \in Amounts : p # Null => p \in Fractions
BY CalendarAssumption DEF Amounts

\* The parts of a figure of bills that fall in a month.
PartsIn(C, value, m) == [b \in C |-> Times(value[b], DayShare(b, m))]
KnownIn(B, value) == {b \in B : value[b] # Null}

\* The parts of known figures are fractions.
LEMMA PartsAreFractions ==
  ASSUME NEW C, \A b \in C : IsBill(b), NEW value, \A b \in C : value[b] \in Fractions,
         NEW m \in CalendarMonths
  PROVE  DOMAIN PartsIn(C, value, m) = C /\ \A b \in C : PartsIn(C, value, m)[b] \in Fractions
<1>1. ASSUME NEW b \in C PROVE Times(value[b], DayShare(b, m)) \in Fractions
  BY ShareWorks, TimesIsFraction
<1> QED BY <1>1 DEF PartsIn

\* A month's part of a figure, from the list and from the set of bills.
LEMMA ProratedWorks ==
  ASSUME NEW P, NEW B, Lists(P, B), NEW m \in CalendarMonths,
         NEW value, \A b \in B : value[b] \in Amounts,
         NEW figures, DOMAIN figures = DOMAIN P,
         \A i \in DOMAIN P, b \in B : P[i] = ParseBill(b) => figures[i] = value[b]
  PROVE  LET C == KnownIn(B, value)
         IN  /\ C = {} => Prorated(P, m, figures) = Null
             /\ C # {} => Prorated(P, m, figures) = Total(PartsIn(C, value, m))
             /\ Total(PartsIn(C, value, m)) \in Fractions /\ IsFiniteSet(C)
<1> DEFINE C == KnownIn(B, value)
           f == [i \in DOMAIN P |-> IF figures[i] = Null THEN Zero
                                    ELSE Times(figures[i], Share(P[i], m))]
           g == PartsIn(C, value, m)
<1>1. C \subseteq B /\ \A b \in B : b \in C <=> value[b] # Null
  BY DEF KnownIn
<1>2. \A b \in B : IsBill(b)
  BY DEF Lists
<1> HIDE DEF C, IsBill
<1>3. \A b \in C : value[b] \in Fractions
  BY <1>1, AmountsAre
<1>4. DOMAIN g = C /\ \A b \in C : g[b] \in Fractions
  BY <1>1, <1>2, <1>3, PartsAreFractions
<1>5. ASSUME NEW i \in DOMAIN P, NEW b \in B, P[i] = ParseBill(b)
      PROVE  f[i] = IF b \in C THEN g[b] ELSE Zero
  <2>1. figures[i] = value[b] /\ Share(P[i], m) = DayShare(b, m)
    BY <1>2, <1>5, ShareWorks
  <2>2. CASE b \in C
    <3>1. f[i] = Times(value[b], DayShare(b, m))
      BY <1>1, <2>1, <2>2
    <3> QED BY <2>2, <3>1 DEF PartsIn
  <2>3. CASE b \notin C
    BY <1>1, <2>1, <2>3
  <2> QED BY <2>2, <2>3
<1>6. ASSUME NEW i \in DOMAIN P PROVE f[i] \in Fractions
  <2>1. PICK b \in B : P[i] = ParseBill(b)
    BY DEF Lists
  <2>2. f[i] = IF b \in C THEN g[b] ELSE Zero
    BY <1>5, <2>1
  <2> QED BY <1>4, <2>2, ZeroIsFraction
<1>7. ASSUME C = {} PROVE Prorated(P, m, figures) = Null
  <2>1. ASSUME NEW i \in DOMAIN P PROVE figures[i] = Null
    <3>1. PICK b \in B : P[i] = ParseBill(b)
      BY DEF Lists
    <3> QED BY <1>1, <1>7, <3>1
  <2>2. ToSet(figures) \subseteq {Null}
    BY <2>1 DEF ToSet
  <2> QED BY <2>2 DEF Prorated
<1>8. ASSUME NEW b \in C PROVE Prorated(P, m, figures) = Total(f)
  <2>1. PICK i \in DOMAIN P : P[i] = ParseBill(b)
    BY <1>1 DEF Lists
  <2>2. figures[i] # Null
    BY <1>1, <2>1
  <2>3. ~(ToSet(figures) \subseteq {Null})
    BY <2>2 DEF ToSet
  <2> QED BY <2>3 DEF Prorated
<1>9. DOMAIN f = DOMAIN P
  OBVIOUS
<1> HIDE DEF f, g
<1>10. Total(f) = Total(g) /\ IsFiniteSet(C)
  BY <1>1, <1>4, <1>5, <1>6, <1>9, TotalsOverBills
<1>11. Total(g) \in Fractions
  BY <1>4, <1>10, TotalIsFraction
<1> QED BY <1>7, <1>8, <1>10, <1>11 DEF C, g

Metered(B) == {b \in B : b.consumption # Null}
Cost(B, m) == ExactSum(B, m, "total_amount")
Kwh(B, m) == ExactSum(Metered(B), m, "consumption")

\* What a month shows, said by sums over the bills.
ShowsMonth(month, B, m) ==
  LET cost == Cost(B, m)
      kwh  == Kwh(B, m)
  IN  /\ cost \in Fractions /\ kwh \in Fractions
      /\ IsFiniteSet(B) /\ IsFiniteSet(Metered(B))
      /\ month.period = m
      /\ month.cost = Rounded(cost, MoneyScale)
      /\ Metered(B) = {} => month.kwh = Null
      /\ Metered(B) # {} => month.kwh = Rounded(kwh, MoneyScale)
      /\ month.effective = IF Metered(B) # {} /\ ~Leq(kwh, Zero)
                           THEN Rounded(Over(cost, kwh), PriceScale) ELSE Null

\* A month shows the sums over its bills.
LEMMA BucketWorks ==
  ASSUME NEW P, NEW B, Lists(P, B), B # {}, NEW m \in CalendarMonths
  PROVE  /\ ShowsMonth(Bucket(P, m), B, m)
         /\ Bucket(P, m).billIds = [i \in DOMAIN P |-> P[i].id]
<1> DEFINE paid == [b \in B |-> b.total_amount]
           used == [b \in B |-> b.consumption]
           costs == Column(P, "total")
           kwhs == Column(P, "consumption")
<1>1. \A b \in B : IsBill(b)
  BY DEF Lists
<1>2. \A b \in B : paid[b] \in Amounts /\ paid[b] # Null /\ used[b] \in Amounts
  BY <1>1, AmountsAre DEF IsBill, Amounts
<1>3. DOMAIN costs = DOMAIN P /\ DOMAIN kwhs = DOMAIN P
  BY DEF Column
<1>4. ASSUME NEW i \in DOMAIN P, NEW b \in B, P[i] = ParseBill(b)
      PROVE  costs[i] = paid[b] /\ kwhs[i] = used[b]
  <2>1. P[i].total = b.total_amount /\ P[i].consumption = b.consumption
    BY <1>1, <1>4, ParsedFields
  <2> QED BY <2>1 DEF Column
<1>5. KnownIn(B, paid) = B /\ KnownIn(B, used) = Metered(B)
  BY <1>2 DEF KnownIn, Metered
<1>6. PartsIn(B, paid, m) = [b \in B |-> Times(b["total_amount"], DayShare(b, m))]
  BY DEF PartsIn
<1>7. PartsIn(Metered(B), used, m)
        = [b \in Metered(B) |-> Times(b["consumption"], DayShare(b, m))]
  BY DEF PartsIn, Metered
<1>8. Total(PartsIn(B, paid, m)) = Cost(B, m)
  BY <1>6 DEF Cost, ExactSum
<1>9. Total(PartsIn(Metered(B), used, m)) = Kwh(B, m)
  BY <1>7 DEF Kwh, ExactSum
<1> DEFINE cost == Prorated(P, m, costs)
           kwh == Prorated(P, m, kwhs)
<1> HIDE DEF paid, used, costs, kwhs
<1>10. cost = Cost(B, m) /\ Cost(B, m) \in Fractions /\ IsFiniteSet(B)
  BY <1>2, <1>3, <1>4, <1>5, <1>8, ProratedWorks
<1>11. /\ Metered(B) = {} => kwh = Null
       /\ Metered(B) # {} => kwh = Kwh(B, m)
       /\ Kwh(B, m) \in Fractions /\ IsFiniteSet(Metered(B))
  BY <1>2, <1>3, <1>4, <1>5, <1>9, ProratedWorks
<1>12. Bucket(P, m).period = m /\ Bucket(P, m).billIds = [i \in DOMAIN P |-> P[i].id]
  BY DEF Bucket
<1>13. Bucket(P, m).cost = Rounded(cost, MoneyScale)
  BY DEF Bucket, costs
<1>14. Bucket(P, m).kwh = RoundedOrNull(kwh, MoneyScale)
  BY DEF Bucket, kwhs
<1>15. Bucket(P, m).effective =
         IF kwh # Null /\ ~Leq(IF kwh = Null THEN Zero ELSE kwh, Zero)
         THEN Rounded(Over(cost, kwh), PriceScale) ELSE Null
  BY DEF Bucket, costs, kwhs
<1> HIDE DEF cost, kwh
<1>16. Kwh(B, m) # Null
  BY <1>11, AmountsAre
<1> QED BY <1>10, <1>11, <1>12, <1>13, <1>14, <1>15, <1>16 DEF RoundedOrNull, ShowsMonth

\* What bills turn over by their shares.
Sizes(B, m, field) == Total([b \in B |-> AbsOf(Times(b[field], DayShare(b, m)))])

\* The server's sum over a list of bills is the exact one, up to two parts of
\* what they turn over for each of them and three more.
LEMMA AccumulatedIsNear ==
  ASSUME NEW r, IsRecord(r), NEW m \in CalendarMonths, NEW field,
         \A b \in ToSet(r) : b[field] \in Fractions, 2 * Len(r) + 3 <= Finest
  PROVE  LET B == ToSet(r)
         IN  /\ IsWithin(Accumulated(r, m, field), ExactSum(B, m, field),
                         Times(Ulps(2 * Cardinality(B) + 3), Sizes(B, m, field)))
             /\ NotBelow(Sizes(B, m, field))
             /\ Leq(AbsOf(ExactSum(B, m, field)), Sizes(B, m, field))
<1> DEFINE B == ToSet(r)
           n == Len(r)
           P == AsParsed(r)
           values == [i \in DOMAIN r |-> Decimal(Times(r[i][field], SeriesShare(r[i], m)))]
           x == [i \in 1 .. n |-> Times(r[i][field], DayShare(r[i], m))]
           size == [i \in 1 .. n |-> AbsOf(x[i])]
           part(b) == Times(b[field], DayShare(b, m))
<1>1. /\ n \in Nat /\ DOMAIN r = 1 .. n /\ Lists(P, B) /\ DOMAIN P = 1 .. n
      /\ \A i \in 1 .. n, b \in B : P[i] = ParseBill(b) => r[i] = b
      /\ \A i \in 1 .. n : r[i] \in B /\ IsBill(r[i])
      /\ Cardinality(B) = n
  BY RecordLists
<1>2. ASSUME NEW i \in 1 .. n
      PROVE  /\ IsWithin(values[i], x[i], Times(Ulps(3), AbsOf(x[i])))
             /\ x[i] \in Fractions /\ AbsOf(x[i]) \in Fractions
  <2> DEFINE v == r[i][field]
             s == DayShare(r[i], m)
  <2>1. v \in Fractions /\ s \in Fractions
    BY <1>1, ShareWorks
  <2>2. SeriesShare(r[i], m) = Decimal(s)
    BY DEF SeriesShare, DayShare
  <2> HIDE DEF v, s
  <2>3. IsWithin(Decimal(Times(v, Decimal(s))), Times(v, s), Times(Ulps(3), AbsOf(Times(v, s))))
        /\ Times(v, s) \in Fractions /\ AbsOf(Times(v, s)) \in Fractions
    BY <2>1, DecimalOfProduct, TimesIsFraction, AbsNotBelow
  <2> QED BY <1>1, <2>2, <2>3 DEF v, s
<1>3. Len(values) = n /\ x = [i \in 1 .. n |-> x[i]]
  BY <1>1
<1>4. Total(x) = ExactSum(B, m, field)
  <2> DEFINE g == [b \in B |-> part(b)]
  <2>1. DOMAIN g = B /\ ExactSum(B, m, field) = Total(g)
    BY DEF ExactSum
  <2>2. ASSUME NEW i \in 1 .. n, NEW b \in B, P[i] = ParseBill(b)
        PROVE  x[i] = IF b \in B THEN g[b] ELSE Zero
    BY <1>1, <2>2
  <2>3. DOMAIN x = 1 .. n
    OBVIOUS
  <2> HIDE DEF x, g, B, P, n
  <2> QED BY <1>1, <1>2, <2>1, <2>2, <2>3, TotalsOverBills
<1>5. Total(size) = Sizes(B, m, field)
  <2> DEFINE g == [b \in B |-> AbsOf(part(b))]
  <2>1. DOMAIN g = B /\ Sizes(B, m, field) = Total(g)
    BY DEF Sizes
  <2>2. ASSUME NEW i \in 1 .. n, NEW b \in B, P[i] = ParseBill(b)
        PROVE  size[i] = IF b \in B THEN g[b] ELSE Zero
    BY <1>1, <2>2
  <2>3. DOMAIN size = 1 .. n /\ \A i \in 1 .. n : size[i] \in Fractions
    BY <1>2
  <2> HIDE DEF size, g, B, P, n
  <2> QED BY <1>1, <2>1, <2>2, <2>3, TotalsOverBills
<1>6. Accumulated(r, m, field) = DecimalSum(values)
  BY DEF Accumulated
<1>7. 2 * n + 3 <= Finest
  OBVIOUS
<1>8. size = [i \in 1 .. n |-> AbsOf(x[i])]
  OBVIOUS
<1> HIDE DEF values, x, n, size
<1>9. /\ IsWithin(DecimalSum(values), Total(x), Times(Ulps(2 * n + 3), Total(size)))
      /\ NotBelow(Total(size)) /\ Leq(AbsOf(Total(x)), Total(size))
  BY <1>1, <1>2, <1>3, <1>7, <1>8, DecimalSumIsNear
<1> QED BY <1>1, <1>4, <1>5, <1>6, <1>9

\* Counting by days comes to the same sums.
LEMMA OnDaysWorks ==
  ASSUME NEW B, \A b \in B : IsBill(b), NEW m \in CalendarMonths, NEW field
  PROVE  OnDays(B, {m}, field) = ExactSum(B, m, field)
<1> DEFINE on(b) == Times(b[field], Frac(Cardinality(UNION {DaysIn(b, n) : n \in {m}}),
                                         Cardinality(b.period_start .. b.period_end)))
<1>1. ASSUME NEW b \in B PROVE on(b) = Times(b[field], DayShare(b, m))
  <2>1. UNION {DaysIn(b, n) : n \in {m}} = DaysIn(b, m)
    OBVIOUS
  <2> QED BY <2>1, ShareWorks
<1>2. [b \in B |-> on(b)] = [b \in B |-> Times(b[field], DayShare(b, m))]
  BY <1>1
<1> QED BY <1>2 DEF OnDays, ExactSum

(***************************************************************************)
(* The server's months are near the exact ones                             *)
(***************************************************************************)
\* Its slack, by the bills of a month.
LEMMA SlackIs ==
  ASSUME NEW C, \A b \in C : IsBill(b), IsFiniteSet(C), NEW m \in CalendarMonths,
         NEW field, \A b \in C : b[field] \in Fractions
  PROVE  /\ Turnover(C, m, field) = Sizes(C, m, field)
         /\ Precision = Ulps(1)
         /\ SumSlack(C, m, field) = Times(Ulps(2 * Cardinality(C) + 3), Sizes(C, m, field))
<1>1. ASSUME NEW b \in C
      PROVE  OnDays({b}, {m}, field) = Times(b[field], DayShare(b, m))
  <2> DEFINE f == [x \in {b} |-> Times(x[field], DayShare(x, m))]
  <2>1. OnDays({b}, {m}, field) = Total(f)
    BY OnDaysWorks DEF ExactSum
  <2>2. DOMAIN f = {b} /\ f[b] = Times(b[field], DayShare(b, m))
    OBVIOUS
  <2>3. f[b] \in Fractions
    BY <2>2, ShareWorks, TimesIsFraction
  <2> HIDE DEF f
  <2> QED BY <2>1, <2>2, <2>3, TotalOfOne
<1>2. Turnover(C, m, field) = Sizes(C, m, field)
  <2>1. [b \in C |-> AbsOf(OnDays({b}, {m}, field))]
          = [b \in C |-> AbsOf(Times(b[field], DayShare(b, m)))]
    BY <1>1
  <2> QED BY <2>1 DEF Turnover, Sizes
<1>3. Precision = Ulps(1)
  BY DEF Precision, Ulps, Finest
<1>4. Cardinality(C) \in Nat
  BY FS_CardinalityType
<1> DEFINE k == 2 * Cardinality(C) + 3
<1>5. k \in Nat
  BY <1>4
<1>6. SumSlack(C, m, field) = Times(Times(Whole(k), Precision), Turnover(C, m, field))
  BY DEF SumSlack
<1> HIDE DEF k
<1>7. Times(Whole(k), Ulps(1)) = Ulps(k)
  BY <1>5, UlpsWork
<1> QED BY <1>2, <1>3, <1>6, <1>7 DEF k

\* What is rounded to show is half a unit further away.
LEMMA RoundedNearTo ==
  ASSUME NEW s, NEW exact, NEW slack, IsWithin(s, exact, slack), NEW scale \in Nat \ {0}
  PROVE  Rounded(s, scale) \in Fractions /\ NearTo(Rounded(s, scale), exact, slack, scale)
<1>1. s \in Fractions
  BY DEF IsWithin
<1>2. Frac(1, 2 * scale) \in Fractions
  BY HalfIsAbove DEF HalfOf
<1>3. IsWithin(Rounded(s, scale), s, Frac(1, 2 * scale))
  BY <1>1, <1>2, RoundedIsNear DEF IsWithin
<1>4. IsWithin(Rounded(s, scale), exact, Plus(Frac(1, 2 * scale), slack))
  BY <1>3, NearChain
<1> QED BY <1>4 DEF IsWithin, NearTo

\* The bills that the server sums for a month, and what it makes of them.
LEMMA MonthlySeriesWorks ==
  ASSUME NEW r, IsRecord(r), NEW m \in CalendarMonths
  PROVE  LET C == CoveredBy(ToSet(r), m)
         IN  \E in, metered :
               LET cost == Accumulated(in, m, "total_amount")
                   kwh  == Accumulated(metered, m, "consumption")
               IN  /\ IsRecord(in) /\ ToSet(in) = C /\ Len(in) <= Len(r)
                   /\ IsRecord(metered) /\ ToSet(metered) = Metered(C)
                   /\ Len(metered) <= Len(in)
                   /\ MonthlySeries(r, "cost")[m] =
                        IF C = {} THEN Null ELSE Rounded(cost, MoneyScale)
                   /\ MonthlySeries(r, "consumption")[m] =
                        IF Metered(C) = {} THEN Null ELSE Rounded(kwh, MoneyScale)
                   /\ MonthlySeries(r, "unit_price")[m] =
                        IF Metered(C) = {} \/ Leq(kwh, Zero) THEN Null
                        ELSE Rounded(Decimal(Over(cost, kwh)), PriceScale)
<1> DEFINE C == CoveredBy(ToSet(r), m)
           S == {i \in DOMAIN r : SeriesOverlap(r[i], m) # 0}
           in == Sublist(r, S)
           T == {i \in DOMAIN in : in[i]["consumption"] # Null}
           metered == Sublist(in, T)
           cost == Accumulated(in, m, "total_amount")
           kwh == Accumulated(metered, m, "consumption")
<1>1. /\ \A i \in DOMAIN r : r[i] \in ToSet(r) /\ IsBill(r[i])
      /\ ToSet(r) = {r[i] : i \in DOMAIN r}
  BY RecordLists DEF ToSet
<1>2. IsRecord(in) /\ ToSet(in) = {r[i] : i \in S} /\ Len(in) <= Len(r)
  <2>1. S \subseteq DOMAIN r
    OBVIOUS
  <2> HIDE DEF S
  <2> QED BY <2>1, PartOfRecord
<1>3. ToSet(in) = C
  <2>1. \A b \in ToSet(r) : SeriesOverlap(b, m) # 0 <=> Covers(b, m)
    BY <1>1, TouchesWhenCovers
  <2> QED BY <1>1, <1>2, <2>1 DEF CoveredBy
<1> HIDE DEF in
<1>4. IsRecord(metered) /\ ToSet(metered) = {in[i] : i \in T} /\ Len(metered) <= Len(in)
  <2>1. T \subseteq DOMAIN in
    OBVIOUS
  <2> HIDE DEF T
  <2> QED BY <1>2, <2>1, PartOfRecord
<1>5. ToSet(metered) = Metered(C)
  <2>1. C = {in[i] : i \in DOMAIN in}
    BY <1>3 DEF ToSet
  <2> HIDE DEF C
  <2> QED BY <1>4, <2>1 DEF Metered
<1>6. metered = Known(in, "consumption")
  BY DEF Known
<1>7. \A q : IsRecord(q) => (q = <<>> <=> ToSet(q) = {})
  <2> SUFFICES ASSUME NEW q, IsRecord(q) PROVE q = <<>> <=> ToSet(q) = {}
    OBVIOUS
  <2>1. Len(q) \in Nat /\ DOMAIN q = 1 .. Len(q) /\ q \in Seq(ToSet(q))
    BY RecordLists DEF IsRecord
  <2>2. ASSUME q = <<>> PROVE ToSet(q) = {}
    BY <2>2 DEF ToSet
  <2>3. ASSUME ToSet(q) = {} PROVE q = <<>>
    <3>1. 1 \notin DOMAIN q
      BY <2>3 DEF ToSet
    <3>2. Len(q) = 0
      BY <2>1, <3>1
    <3> QED BY <2>1, <3>2
  <2> QED BY <2>2, <2>3
<1>8. (in = <<>> <=> C = {}) /\ (metered = <<>> <=> Metered(C) = {})
  BY <1>2, <1>3, <1>4, <1>5, <1>7
<1> HIDE DEF metered, C
<1>9. /\ MonthlySeries(r, "cost")[m] = IF in = <<>> THEN Null ELSE Rounded(cost, MoneyScale)
      /\ MonthlySeries(r, "consumption")[m] =
           IF metered = <<>> THEN Null ELSE Rounded(kwh, MoneyScale)
      /\ MonthlySeries(r, "unit_price")[m] =
           IF metered = <<>> \/ Leq(kwh, Zero) THEN Null
           ELSE Rounded(Decimal(Over(cost, kwh)), PriceScale)
  BY <1>6 DEF MonthlySeries, in, S
<1> HIDE DEF cost, kwh
<1> QED BY <1>2, <1>3, <1>4, <1>5, <1>8, <1>9 DEF C, cost, kwh

\* A month that the server answers is within its slack of the exact figures.
LEMMA ServedMonth ==
  ASSUME NEW r, IsRecord(r), 2 * Len(r) + 3 <= Finest, NEW m \in CalendarMonths,
         CoveredBy(ToSet(r), m) # {}
  PROVE  LET C       == CoveredBy(ToSet(r), m)
             Q       == Metered(C)
             cost    == Cost(C, m)
             kwh     == Kwh(C, m)
             served(metric) == MonthlySeries(r, metric)[m]
         IN  /\ served("cost") \in Fractions /\ SumSlack(C, m, "total_amount") \in Fractions
             /\ NearTo(served("cost"), cost, SumSlack(C, m, "total_amount"), MoneyScale)
             /\ Q = {} => served("consumption") = Null /\ served("unit_price") = Null
             /\ Q # {} =>
                  /\ NearTo(served("consumption"), kwh, SumSlack(Q, m, "consumption"), MoneyScale)
                  /\ Leq(Times(Whole(2), SumSlack(Q, m, "consumption")), AbsOf(kwh)) =>
                       IF Leq(kwh, Zero) THEN served("unit_price") = Null
                       ELSE NearTo(served("unit_price"), Over(cost, kwh),
                                   PriceSlack(C, Q, m), PriceScale)
<1> DEFINE C == CoveredBy(ToSet(r), m)
           Q == Metered(C)
           exact == Cost(C, m)
           used  == Kwh(C, m)
           paidSize == Sizes(C, m, "total_amount")
           usedSize == Sizes(Q, m, "consumption")
           n == 2 * Cardinality(C) + 3
           l == 2 * Cardinality(Q) + 3
<1>1. PICK in, metered :
        LET cost == Accumulated(in, m, "total_amount")
            kwh  == Accumulated(metered, m, "consumption")
        IN  /\ IsRecord(in) /\ ToSet(in) = C /\ Len(in) <= Len(r)
            /\ IsRecord(metered) /\ ToSet(metered) = Q
            /\ Len(metered) <= Len(in)
            /\ MonthlySeries(r, "cost")[m] =
                 IF C = {} THEN Null ELSE Rounded(cost, MoneyScale)
            /\ MonthlySeries(r, "consumption")[m] =
                 IF Q = {} THEN Null ELSE Rounded(kwh, MoneyScale)
            /\ MonthlySeries(r, "unit_price")[m] =
                 IF Q = {} \/ Leq(kwh, Zero) THEN Null
                 ELSE Rounded(Decimal(Over(cost, kwh)), PriceScale)
  BY MonthlySeriesWorks
<1> DEFINE cost == Accumulated(in, m, "total_amount")
           kwh  == Accumulated(metered, m, "consumption")
<1>2. /\ Len(in) \in Nat /\ Len(metered) \in Nat /\ Len(r) \in Nat
      /\ Cardinality(C) = Len(in) /\ Cardinality(Q) = Len(metered)
      /\ IsFiniteSet(C) /\ IsFiniteSet(Q)
  BY <1>1, RecordLists
<1>3. /\ 2 * Len(in) + 3 <= Finest /\ 2 * Len(metered) + 3 <= Finest
      /\ n \in Nat /\ l \in Nat /\ l <= n /\ n <= Finest
  <2>1. Finest \in Nat
    BY UlpsWork
  <2> QED BY <1>1, <1>2, <2>1
<1>4. \A b \in C : IsBill(b) /\ b["total_amount"] \in Fractions
  BY <1>1 DEF IsRecord, IsBill
<1>5. \A b \in Q : IsBill(b) /\ b["consumption"] \in Fractions
  <2>1. \A b \in Q : b \in C /\ b.consumption # Null
    BY DEF Metered
  <2> QED BY <1>4, <2>1, AmountsAre DEF IsBill
<1>6. /\ exact = ExactSum(C, m, "total_amount") /\ used = ExactSum(Q, m, "consumption")
  BY DEF Cost, Kwh
<1>7. /\ SumSlack(C, m, "total_amount") = Times(Ulps(n), paidSize)
      /\ SumSlack(Q, m, "consumption") = Times(Ulps(l), usedSize)
      /\ Precision = Ulps(1)
      /\ Turnover(C, m, "total_amount") = paidSize
      /\ Turnover(Q, m, "consumption") = usedSize
  BY <1>2, <1>4, <1>5, SlackIs
<1>8. /\ IsWithin(cost, exact, Times(Ulps(n), paidSize))
      /\ NotBelow(paidSize) /\ Leq(AbsOf(exact), paidSize)
  BY <1>1, <1>3, <1>4, <1>6, AccumulatedIsNear
<1>9. /\ IsWithin(kwh, used, Times(Ulps(l), usedSize))
      /\ NotBelow(usedSize) /\ Leq(AbsOf(used), usedSize)
  BY <1>1, <1>3, <1>5, <1>6, AccumulatedIsNear
<1>10. /\ MonthlySeries(r, "cost")[m] = Rounded(cost, MoneyScale)
       /\ Q = {} => MonthlySeries(r, "consumption")[m] = Null
                    /\ MonthlySeries(r, "unit_price")[m] = Null
       /\ Q # {} => MonthlySeries(r, "consumption")[m] = Rounded(kwh, MoneyScale)
       /\ Q # {} => MonthlySeries(r, "unit_price")[m] =
                      IF Leq(kwh, Zero) THEN Null
                      ELSE Rounded(Decimal(Over(cost, kwh)), PriceScale)
  BY <1>1
<1>11. PriceSlack(C, Q, m) =
         Times(Ulps(2 * n + 3),
               Over(Plus(paidSize, Times(AbsOf(Over(exact, used)), usedSize)), used))
  <2>1. OnDays(C, {m}, "total_amount") = exact /\ OnDays(Q, {m}, "consumption") = used
    BY <1>4, <1>5, <1>6, OnDaysWorks
  <2> DEFINE k == 4 * Cardinality(C) + 9
  <2>2. k \in Nat /\ k = 2 * n + 3
    BY <1>2
  <2>3. PriceSlack(C, Q, m) =
          Times(Times(Whole(k), Precision),
                Over(Plus(paidSize, Times(AbsOf(Over(exact, used)), usedSize)), used))
    BY <1>7, <2>1 DEF PriceSlack
  <2> HIDE DEF k
  <2>4. Times(Whole(k), Ulps(1)) = Ulps(k)
    BY <2>2, UlpsWork
  <2> QED BY <1>7, <2>2, <2>3, <2>4
<1> HIDE DEF C, Q, exact, used, paidSize, usedSize, n, l, cost, kwh
<1>12. MoneyScale \in Nat \ {0} /\ PriceScale \in Nat \ {0}
  BY CalendarAssumption
<1>13. /\ NearTo(MonthlySeries(r, "cost")[m], exact, Times(Ulps(n), paidSize), MoneyScale)
       /\ MonthlySeries(r, "cost")[m] \in Fractions /\ Times(Ulps(n), paidSize) \in Fractions
  BY <1>8, <1>10, <1>12, RoundedNearTo DEF IsWithin
<1>14. Q # {} => NearTo(MonthlySeries(r, "consumption")[m], used,
                        Times(Ulps(l), usedSize), MoneyScale)
  BY <1>9, <1>10, <1>12, RoundedNearTo
<1>15. ASSUME Q # {}, Leq(Times(Whole(2), Times(Ulps(l), usedSize)), AbsOf(used))
       PROVE  IF Leq(used, Zero) THEN MonthlySeries(r, "unit_price")[m] = Null
              ELSE NearTo(MonthlySeries(r, "unit_price")[m], Over(exact, used),
                          PriceSlack(C, Q, m), PriceScale)
  <2>1. Leq(used, Zero) => Leq(kwh, Zero)
    BY <1>9, <1>15, SignStays
  <2>2. ASSUME ~Leq(used, Zero)
        PROVE  NearTo(MonthlySeries(r, "unit_price")[m], Over(exact, used),
                      PriceSlack(C, Q, m), PriceScale)
    <3>1. Above(used)
      <4>1. used \in Fractions /\ used[1] \in Int /\ used[2] \in Nat \ {0}
        BY <1>9, FractionParts DEF IsWithin
      <4> QED BY <2>2, <4>1, ZeroIsFraction DEF Above, Leq
    <3>2. Above(kwh)
      BY <1>9, <1>15, <3>1, SignStays
    <3>3. ~Leq(kwh, Zero)
      <4>1. kwh[1] > 0 /\ kwh[1] \in Int /\ kwh[2] \in Nat \ {0}
        BY <3>2, FractionParts DEF Above
      <4> QED BY <4>1, ZeroIsFraction DEF Leq
    <3>4. IsWithin(Decimal(Over(cost, kwh)), Over(exact, used), PriceSlack(C, Q, m))
      BY <1>3, <1>8, <1>9, <1>11, <1>15, <3>1, DecimalQuotientIsNear
    <3>5. MonthlySeries(r, "unit_price")[m] = Rounded(Decimal(Over(cost, kwh)), PriceScale)
      BY <1>10, <1>15, <3>3
    <3> QED BY <1>12, <3>4, <3>5, RoundedNearTo
  <2> QED BY <1>10, <1>15, <2>1, <2>2
<1> QED BY <1>7, <1>10, <1>13, <1>14, <1>15 DEF C, Q, exact, used

(***************************************************************************)
(* The state: the months are those of the data                             *)
(***************************************************************************)
DataInv ==
  /\ data \in Records \cup {<<>>}
  /\ buckets = MonthlyBuckets(ParseBills(data))
ControlsInv ==
  /\ page \in Pages
  /\ range \in Ranges /\ granularity \in {"month", "bill"}
  /\ metricId \in MetricIds /\ modeId \in ModeIds
  /\ sameMonth \in 1 .. MonthsPerYear
  /\ excludedYears \subseteq {YearOf(m) : m \in CalendarMonths}
Inv == DataInv /\ ControlsInv

\* The list of months a state shows.
LEMMA BucketsFacts ==
  ASSUME DataInv
  PROVE  /\ Lists(parsed, Bills)
         /\ \E c \in Nat :
              /\ buckets = [i \in 1 .. c |-> buckets[i]]
              /\ \A i \in 1 .. c :
                   /\ buckets[i].period \in MonthsOf(parsed)
                   /\ buckets[i].period \in CalendarMonths
                   /\ buckets[i] = Bucket(Touching(parsed, buckets[i].period),
                                          buckets[i].period)
              /\ \A i, j \in 1 .. c : i < j => buckets[i].period < buckets[j].period
              /\ \A m \in MonthsOf(parsed) : \E i \in 1 .. c : buckets[i].period = m
<1>1. Lists(parsed, Bills)
  BY RecordsAreRecords, ParseBillsLists DEF DataInv, parsed, Bills
<1>2. buckets = MonthlyBuckets(parsed)
  BY DEF DataInv, parsed
<1> DEFINE P == parsed
           c == Cardinality(MonthsOf(P))
<1>3. /\ c \in Nat /\ buckets = [i \in 1 .. c |-> buckets[i]]
      /\ \A i \in 1 .. c : buckets[i].period \in MonthsOf(P)
      /\ \A i \in 1 .. c :
           buckets[i] = Bucket(Touching(P, buckets[i].period), buckets[i].period)
      /\ \A i, j \in 1 .. c : i < j => buckets[i].period < buckets[j].period
      /\ \A m \in MonthsOf(P) : \E i \in 1 .. c : buckets[i].period = m
  BY <1>1, <1>2, MonthlyBucketsWorks
<1>4. MonthsOf(P) \subseteq CalendarMonths
  BY DEF MonthsOf
<1> HIDE DEF P, c
<1>5. \A i \in 1 .. c : buckets[i].period \in CalendarMonths
  BY <1>3, <1>4
<1> QED BY <1>1, <1>3, <1>5 DEF P

\* Without bills there are no months.
LEMMA NoBillsNoMonths == MonthlyBuckets(ParseBills(<<>>)) = <<>>
<1> DEFINE P == ParseBills(<<>>)
           c == Cardinality(MonthsOf(P))
           L == MonthlyBuckets(P)
<1>1. ToSet(<<>>) = {}
  BY DEF ToSet
<1>2. Lists(P, {})
  BY <1>1, RecordsAreRecords, ParseBillsLists
<1>3. MonthsOf(P) = {}
  BY <1>2, MonthsOfWorks DEF CoveredBy
<1>4. c = 0
  BY <1>3, FS_EmptySet
<1>5. L = [i \in 1 .. c |-> L[i]]
  BY <1>2, MonthlyBucketsWorks
<1> HIDE DEF L, c
<1> QED BY <1>4, <1>5 DEF L

IsList(list, n) == list = [i \in 1 .. n |-> list[i]]

\* A part of a list of months, from after place a on.
PartOfList(window, list, a, k) == window = [i \in 1 .. k |-> list[a + i]]

\* The last n months, as far as there are any.
LEMMA TrailingWorks ==
  ASSUME NEW c \in Nat, NEW list, IsList(list, c), NEW n \in Nat \ {0}
  PROVE  LET k == IF c <= n THEN c ELSE n
         IN  /\ k \in 0 .. c /\ (c # 0 => k # 0)
             /\ PartOfList(Trailing(list, n), list, c - k, k)
<1>1. Len(list) = c
  BY DEF IsList
<1>2. \A a \in Int, b \in Int : SubSeq(list, a, b) = [i \in 1 .. b - a + 1 |-> list[a + i - 1]]
  OBVIOUS
<1> DEFINE k == IF c <= n THEN c ELSE n
           d == c - n + 1
<1>3. d \in Int /\ 1 \in Int
  OBVIOUS
<1>4. Max({1, d}) = IF 1 >= d THEN 1 ELSE d
  <2> HIDE DEF d
  <2> QED BY <1>3, MaxOfTwo
<1>5. Max({1, d}) = c - k + 1
  BY <1>4
<1>6. k \in 0 .. c /\ (c # 0 => k # 0)
  OBVIOUS
<1>7. Trailing(list, n) = SubSeq(list, c - k + 1, c)
  BY <1>1, <1>5 DEF Trailing
<1> HIDE DEF k
<1>8. c - k + 1 \in Int /\ c \in Int
  BY <1>6
<1>9. Trailing(list, n) = [i \in 1 .. c - (c - k + 1) + 1 |-> list[(c - k + 1) + i - 1]]
  BY <1>2, <1>7, <1>8
<1>10. c - (c - k + 1) + 1 = k /\ \A i \in 1 .. k : (c - k + 1) + i - 1 = (c - k) + i
  BY <1>6
<1>11. PartOfList(Trailing(list, n), list, c - k, k)
  BY <1>9, <1>10 DEF PartOfList
<1> QED BY <1>6, <1>11 DEF k

\* The n months before them.
LEMMA BeforeTrailingWorks ==
  ASSUME NEW c \in Nat, NEW list, IsList(list, c), NEW n \in Nat \ {0}
  PROVE  \E k \in Nat, a \in Nat : /\ PartOfList(BeforeTrailing(list, n), list, a, k)
                                   /\ a + k <= c
                                   /\ c <= n => k = 0
                                   /\ c >= 2 * n => k = n /\ a = c - 2 * n
<1>1. Len(list) = c
  BY DEF IsList
<1>2. \A a \in Int, b \in Int : SubSeq(list, a, b) = [i \in 1 .. b - a + 1 |-> list[a + i - 1]]
  OBVIOUS
<1> DEFINE d == c - 2 * n + 1
           a == IF 1 >= d THEN 0 ELSE c - 2 * n
           k == IF c - n - a >= 0 THEN c - n - a ELSE 0
<1>3. d \in Int /\ 1 \in Int
  OBVIOUS
<1>4. Max({1, d}) = IF 1 >= d THEN 1 ELSE d
  <2> HIDE DEF d
  <2> QED BY <1>3, MaxOfTwo
<1>5. Max({1, d}) = a + 1
  BY <1>4
<1>6. BeforeTrailing(list, n) = SubSeq(list, a + 1, c - n)
  BY <1>1, <1>5 DEF BeforeTrailing
<1>7. /\ a \in Nat /\ k \in Nat /\ a + k <= c
      /\ c <= n => k = 0
      /\ c >= 2 * n => k = n /\ a = c - 2 * n
  OBVIOUS
<1>8. a + 1 \in Int /\ c - n \in Int
  OBVIOUS
<1>9. (c - n) - (a + 1) + 1 = c - n - a
  BY <1>7
<1>10. 1 .. (c - n) - (a + 1) + 1 = 1 .. k
  BY <1>7
<1> HIDE DEF a, k, d
<1>11. BeforeTrailing(list, n) = [i \in 1 .. (c - n) - (a + 1) + 1 |-> list[(a + 1) + i - 1]]
  BY <1>2, <1>6, <1>8
<1>12. \A i \in 1 .. k : (a + 1) + i - 1 = a + i
  BY <1>7
<1>13. PartOfList(BeforeTrailing(list, n), list, a, k)
  BY <1>10, <1>11, <1>12 DEF PartOfList
<1> QED BY <1>7, <1>13

\* A range is a list of the last months there are, or all of them.
LEMMA InRangeWorks ==
  ASSUME range \in Ranges, NEW c \in Nat, NEW list, IsList(list, c)
  PROVE  \E k \in 0 .. c :
           /\ InRange(list) = [i \in 1 .. k |-> list[c - k + i]]
           /\ RangeMonths[range] = Null => k = c
           /\ c # 0 => k # 0
<1>1. CASE RangeMonths[range] = Null
  <2>1. InRange(list) = list
    BY <1>1 DEF InRange
  <2>2. list = [i \in 1 .. c |-> list[c - c + i]]
    <3>1. \A i \in 1 .. c : c - c + i = i
      OBVIOUS
    <3> QED BY <3>1 DEF IsList
  <2>3. c \in 0 .. c
    OBVIOUS
  <2> WITNESS c \in 0 .. c
  <2> QED BY <2>1, <2>2
<1>2. CASE RangeMonths[range] # Null
  <2> DEFINE n == RangeMonths[range]
  <2>1. n \in Nat \ {0}
    BY <1>2, CalendarAssumption DEF RangeMonths, Ranges
  <2>2. InRange(list) = Trailing(list, n)
    BY <1>2 DEF InRange
  <2> HIDE DEF n
  <2> DEFINE k == IF c <= n THEN c ELSE n
  <2>3. /\ k \in 0 .. c /\ (c # 0 => k # 0)
        /\ PartOfList(Trailing(list, n), list, c - k, k)
    BY <2>1, TrailingWorks
  <2> HIDE DEF k
  <2> QED BY <1>2, <2>2, <2>3 DEF PartOfList, n
<1> QED BY <1>1, <1>2

\* The chips of the comparison are years of the calendar.
LEMMA YearsAreCalendarYears ==
  ASSUME Inv
  PROVE  AvailableYears \subseteq {YearOf(m) : m \in CalendarMonths}
<1>1. PICK c \in Nat : /\ buckets = [i \in 1 .. c |-> buckets[i]]
                       /\ \A i \in 1 .. c : buckets[i].period \in CalendarMonths
  BY BucketsFacts DEF Inv
<1>2. PICK k \in 0 .. c :
        /\ InRange(buckets) = [i \in 1 .. k |-> buckets[c - k + i]]
        /\ RangeMonths[range] = Null => k = c
        /\ c # 0 => k # 0
  <2>1. range \in Ranges
    BY DEF Inv, ControlsInv
  <2>2. IsList(buckets, c)
    BY <1>1 DEF IsList
  <2> QED BY <2>1, <2>2, InRangeWorks
<1> DEFINE shown == InRange(buckets)
<1> HIDE DEF shown
<1>3. ASSUME NEW i \in DOMAIN shown PROVE shown[i].period \in CalendarMonths
  <2>1. shown = [j \in 1 .. k |-> buckets[c - k + j]]
    BY <1>2 DEF shown
  <2>2. i \in 1 .. k /\ shown[i] = buckets[c - k + i] /\ c - k + i \in 1 .. c
    BY <2>1
  <2> QED BY <1>1, <2>2
<1>4. AvailableYears = {YearOf(shown[i].period) : i \in DOMAIN shown}
  BY DEF AvailableYears, Years, shown
<1> QED BY <1>3, <1>4

\* The invariant holds at first ...
LEMMA InitInv == Init => Inv
<1> SUFFICES ASSUME Init PROVE Inv
  OBVIOUS
<1>1. DataInv
  BY NoBillsNoMonths DEF Init, DataInv
<1>2. ControlsInv
  <2>1. 1 \in 1 .. MonthsPerYear
    BY CalendarAssumption
  <2> QED BY <2>1 DEF Init, ControlsInv, Pages, MetricIds, ModeIds
<1> QED BY <1>1, <1>2 DEF Inv

\* ... and every step keeps it.
LEMMA NextInv == Inv /\ [Next]_vars => Inv'
<1> SUFFICES ASSUME Inv, [Next]_vars PROVE Inv'
  OBVIOUS
<1> USE DEF Inv
<1>1. CASE Answer
  <2>1. PICK r \in Records : data' = r /\ buckets' = MonthlyBuckets(ParseBills(r))
    BY <1>1 DEF Answer, BucketsOf
  <2> QED BY <1>1, <2>1 DEF Answer, DataInv, ControlsInv, local
<1>2. CASE SwitchPlace
  BY <1>2, NoBillsNoMonths DEF SwitchPlace, DataInv, ControlsInv, local
<1>3. CASE OpenPage
  <2>1. 1 \in 1 .. MonthsPerYear
    BY CalendarAssumption
  <2>2. page' \in Pages /\ range' \in Ranges
    BY <1>3 DEF OpenPage, Ranges
  <2> QED BY <1>3, <2>1, <2>2 DEF OpenPage, DataInv, ControlsInv, MetricIds, ModeIds
<1>4. CASE PickRange
  BY <1>4 DEF PickRange, DataInv, ControlsInv
<1>5. CASE PickGranularity
  BY <1>5 DEF PickGranularity, DataInv, ControlsInv
<1>6. CASE PickMetric
  BY <1>6, RecordsAssumption DEF PickMetric, DataInv, ControlsInv
<1>7. CASE PickMode
  BY <1>7 DEF PickMode, DataInv, ControlsInv
<1>8. CASE PickMonth
  BY <1>8 DEF PickMonth, DataInv, ControlsInv
<1>9. CASE ToggleYear
  <2>1. AvailableYears \subseteq {YearOf(m) : m \in CalendarMonths}
    BY YearsAreCalendarYears
  <2>2. excludedYears' \subseteq {YearOf(m) : m \in CalendarMonths}
    BY <1>9, <2>1 DEF ToggleYear, ControlsInv
  <2> QED BY <1>9, <2>2 DEF ToggleYear, DataInv, ControlsInv
<1>10. CASE UNCHANGED vars
  BY <1>10 DEF vars, local, DataInv, ControlsInv
<1> QED BY <1>1, <1>2, <1>3, <1>4, <1>5, <1>6, <1>7, <1>8, <1>9, <1>10 DEF Next

\* The months on every page are those of the data the page has, and the
\* controls keep their ranges: whatever answer of the bills query arrives in
\* whatever state of the page (DashboardPage, ComparePage, useMemo).
THEOREM Invariant == Spec => []Inv
BY InitInv, NextInv, PTL DEF Spec

\* The types follow from it.
LEMMA InvTypes == Inv => TypeOK
<1> SUFFICES ASSUME Inv PROVE TypeOK
  OBVIOUS
<1>1. PICK c \in Nat :
        /\ buckets = [i \in 1 .. c |-> buckets[i]]
        /\ \A i \in 1 .. c : buckets[i].period \in CalendarMonths
        /\ \A i, j \in 1 .. c : i < j => buckets[i].period < buckets[j].period
  BY BucketsFacts DEF Inv
<1>2. DOMAIN buckets = 1 .. c
  BY <1>1
<1> QED BY <1>1, <1>2 DEF TypeOK, Inv, DataInv, ControlsInv

\* The state of every page keeps its types, and monthlyBuckets lists the months
\* in order, none twice, for any record of bills.
THEOREM TypesHold == Spec => []TypeOK
BY Invariant, InvTypes, PTL

\* A chip that is not the last one adds or takes one year.
LEMMA ToggleDrawsItsYear ==
  ASSUME ToggleYear, SelectedYears # {}
  PROVE  Cardinality((DrawnYears' \ DrawnYears) \cup (DrawnYears \ DrawnYears')) = 1
<1> DEFINE avail == AvailableYears
           old == avail \ excludedYears
           new == avail \ excludedYears'
<1>1. PICK year \in avail :
        /\ old # {year}
        /\ excludedYears' = IF year \in excludedYears THEN excludedYears \ {year}
                            ELSE excludedYears \cup {year}
  BY DEF ToggleYear, SelectedYears
<1>2. AvailableYears' = avail
  BY DEF ToggleYear, AvailableYears, InRange
<1>3. SelectedYears = old /\ SelectedYears' = new
  BY <1>2 DEF SelectedYears
<1> HIDE DEF avail
<1>4. old # {}
  BY <1>3
<1>5. new # {}
  BY <1>1, <1>4
<1>6. DrawnYears = old /\ DrawnYears' = new
  BY <1>3, <1>4, <1>5 DEF DrawnYears
<1>7. (new \ old) \cup (old \ new) = {year}
  BY <1>1
<1> QED BY <1>6, <1>7, FS_Singleton

\* A click on a year chip of ComparePage changes one year of those the chart
\* draws, for any range, record and set of years taken off before.
THEOREM ChipsDrawTheirYear == Spec => ChipDrawsItsYear
<1>1. [Next]_vars => [ToggleYear /\ SelectedYears # {} =>
         Cardinality((DrawnYears' \ DrawnYears) \cup (DrawnYears \ DrawnYears')) = 1]_vars
  BY ToggleDrawsItsYear
<1> QED BY <1>1, PTL DEF Spec, ChipDrawsItsYear

(***************************************************************************)
(* The months and the points of the browser are those of the server        *)
(***************************************************************************)
\* What the server fetches, of any record.
LEMMA FetchedWorks ==
  ASSUME DataInv
  PROVE  /\ IsRecord(Fetched) /\ Lists(ParseBills(Fetched), ToSet(Fetched))
         /\ ToSet(Fetched) = {b \in Bills : b.utility_type = "electricity"}
         /\ ToSet(Fetched) # {} => 2 * Len(Fetched) + 3 <= Finest
<1> DEFINE S == {i \in DOMAIN data : data[i].utility_type = "electricity"}
           part == Sublist(data, S)
<1>1. IsRecord(data)
  BY RecordsAreRecords DEF DataInv
<1>2. Fetched = OldestFirst(part)
  BY DEF Fetched, FetchBills
<1>3. IsRecord(part) /\ ToSet(part) = {data[i] : i \in S} /\ Len(part) <= Len(data)
  <2>1. S \subseteq DOMAIN data
    OBVIOUS
  <2> HIDE DEF S
  <2> QED BY <1>1, <2>1, PartOfRecord
<1> HIDE DEF part
<1>4. IsRecord(Fetched) /\ ToSet(Fetched) = ToSet(part) /\ Len(Fetched) = Len(part)
  BY <1>2, <1>3, SortedRecord
<1>5. ToSet(Fetched) = {b \in Bills : b.utility_type = "electricity"}
  <2>1. Bills = {data[i] : i \in DOMAIN data}
    BY DEF Bills, ToSet
  <2> QED BY <1>3, <1>4, <2>1
<1>6. Lists(ParseBills(Fetched), ToSet(Fetched))
  BY <1>4, ParseBillsLists
<1>7. ASSUME ToSet(Fetched) # {} PROVE 2 * Len(Fetched) + 3 <= Finest
  <2>1. Bills # {}
    BY <1>5, <1>7
  <2>2. data # <<>>
    BY <2>1 DEF Bills, ToSet
  <2>3. data \in Records
    BY <2>2 DEF DataInv
  <2>4. 2 * Len(data) + 3 <= Finest
    BY <2>3, PrecisionAssumption DEF Finest
  <2>5. Len(data) \in Nat /\ Len(Fetched) \in Nat /\ Finest \in Nat
    BY <1>1, <1>4, RecordLists, UlpsWork
  <2> QED BY <1>3, <1>4, <2>4, <2>5
<1> QED BY <1>4, <1>5, <1>6, <1>7

\* A month that the browser derives from them beside the server's.
LEMMA MonthsAgree ==
  ASSUME DataInv, NEW m \in CalendarMonths
  PROVE  LET served == [metric \in {"cost", "consumption", "unit_price"} |->
                          MonthlySeries(Fetched, metric)[m]]
         IN  MonthAgrees(m, CoveredBy(ToSet(Fetched), m),
                         FindMonth(MonthlyBuckets(ParseBills(Fetched)), m), served)
<1> DEFINE r == Fetched
           P == ParseBills(r)
           B == ToSet(r)
           C == CoveredBy(B, m)
           Q == Metered(C)
           shown == FindMonth(MonthlyBuckets(P), m)
           served == [metric \in {"cost", "consumption", "unit_price"} |->
                        MonthlySeries(r, metric)[m]]
<1>1. IsRecord(r) /\ Lists(P, B) /\ (B # {} => 2 * Len(r) + 3 <= Finest)
  BY FetchedWorks
<1>2. served["cost"] = MonthlySeries(r, "cost")[m]
      /\ served["consumption"] = MonthlySeries(r, "consumption")[m]
      /\ served["unit_price"] = MonthlySeries(r, "unit_price")[m]
      /\ DOMAIN served = {"cost", "consumption", "unit_price"}
  OBVIOUS
<1>3. \A b \in C : IsBill(b) /\ b \in B
  BY <1>1 DEF Lists, CoveredBy
<1>4. m \in MonthsOf(P) <=> C # {}
  BY <1>1, MonthsOfWorks
<1> HIDE DEF r, P, B, served
<1>5. CASE C = {}
  <2>1. Q = {}
    BY <1>5 DEF Metered
  <2>2. MonthlySeries(r, "cost")[m] = Null /\ MonthlySeries(r, "consumption")[m] = Null
        /\ MonthlySeries(r, "unit_price")[m] = Null
    <3> DEFINE K == CoveredBy(ToSet(r), m)
    <3>1. PICK in, metered :
            LET cost == Accumulated(in, m, "total_amount")
                kwh  == Accumulated(metered, m, "consumption")
            IN  /\ IsRecord(in) /\ ToSet(in) = K /\ Len(in) <= Len(r)
                /\ IsRecord(metered) /\ ToSet(metered) = Metered(K)
                /\ Len(metered) <= Len(in)
                /\ MonthlySeries(r, "cost")[m] =
                     IF K = {} THEN Null ELSE Rounded(cost, MoneyScale)
                /\ MonthlySeries(r, "consumption")[m] =
                     IF Metered(K) = {} THEN Null ELSE Rounded(kwh, MoneyScale)
                /\ MonthlySeries(r, "unit_price")[m] =
                     IF Metered(K) = {} \/ Leq(kwh, Zero) THEN Null
                     ELSE Rounded(Decimal(Over(cost, kwh)), PriceScale)
      BY <1>1, MonthlySeriesWorks
    <3>2. K = C /\ Metered(K) = Q
      BY DEF B
    <3> HIDE DEF C, Q, K
    <3> QED BY <1>5, <2>1, <3>1, <3>2
  <2>3. shown = NoBucket
    BY <1>1, <1>4, <1>5, FindMonthWorks DEF FindMonth
  <2>4. \A x \in DOMAIN served : served[x] = Null
    BY <1>2, <2>2
  <2> HIDE DEF C, shown
  <2> QED BY <1>5, <2>3, <2>4 DEF MonthAgrees, C, shown, B, P, r, served
<1>6. CASE C # {}
  <2>1. ShowsMonth(shown, C, m)
    <3>1. Lists(Touching(P, m), C)
      BY <1>1, TouchingLists
    <3>2. shown = Bucket(Touching(P, m), m)
      BY <1>1, <1>4, <1>6, FindMonthWorks
    <3> HIDE DEF C, shown
    <3> QED BY <1>6, <3>1, <3>2, BucketWorks
  <2> DEFINE cost == OnDays(C, {m}, "total_amount")
             kwh == OnDays(Q, {m}, "consumption")
  <2>2. cost = Cost(C, m) /\ kwh = Kwh(C, m)
    <3>1. \A b \in Q : IsBill(b)
      BY <1>3 DEF Metered
    <3> HIDE DEF C, Q
    <3>2. cost = ExactSum(C, m, "total_amount")
      BY <1>3, OnDaysWorks
    <3>3. kwh = ExactSum(Q, m, "consumption")
      BY <3>1, OnDaysWorks
    <3> QED BY <3>2, <3>3 DEF Cost, Kwh, Q
  <2>3. /\ shown.cost = Rounded(cost, MoneyScale)
        /\ Q = {} => shown.kwh = Null
        /\ Q # {} => shown.kwh = Rounded(kwh, MoneyScale)
        /\ shown.effective = IF Q # {} /\ ~Leq(kwh, Zero)
                             THEN Rounded(Over(cost, kwh), PriceScale) ELSE Null
    <3> HIDE DEF C, Q, shown, cost, kwh
    <3> QED BY <2>1, <2>2 DEF ShowsMonth, Q
  <2>4. B # {}
    BY <1>3, <1>6
  <2>5. /\ NearTo(served["cost"], cost, SumSlack(C, m, "total_amount"), MoneyScale)
        /\ Q = {} => served["consumption"] = Null /\ served["unit_price"] = Null
        /\ Q # {} =>
             /\ NearTo(served["consumption"], kwh, SumSlack(Q, m, "consumption"), MoneyScale)
             /\ Leq(Times(Whole(2), SumSlack(Q, m, "consumption")), AbsOf(kwh)) =>
                  IF Leq(kwh, Zero) THEN served["unit_price"] = Null
                  ELSE NearTo(served["unit_price"], Over(cost, kwh),
                              PriceSlack(C, Q, m), PriceScale)
    <3> HIDE DEF cost, kwh
    <3> QED BY <1>1, <1>2, <1>6, <2>2, <2>4, ServedMonth DEF B
  <2>6. Q = {b \in C : b.consumption # Null}
    BY DEF Metered
  <2> HIDE DEF C, Q, shown
  <2>7. Agree(shown.cost, served["cost"], cost, SumSlack(C, m, "total_amount"), MoneyScale)
    BY <2>3, <2>5 DEF Agree
  <2>8. CASE Q = {}
    <3>1. {shown.kwh, shown.effective, served["consumption"], served["unit_price"]} = {Null}
      BY <2>3, <2>5, <2>8
    <3> QED BY <1>6, <2>6, <2>7, <2>8, <3>1 DEF MonthAgrees, C, shown, B, P, r, served
  <2>9. CASE Q # {}
    <3>1. Agree(shown.kwh, served["consumption"], kwh, SumSlack(Q, m, "consumption"), MoneyScale)
      BY <2>3, <2>5, <2>9 DEF Agree
    <3>2. ASSUME Leq(Times(Whole(2), SumSlack(Q, m, "consumption")), AbsOf(kwh))
          PROVE  IF Leq(kwh, Zero)
                 THEN shown.effective = Null /\ served["unit_price"] = Null
                 ELSE Agree(shown.effective, served["unit_price"], Over(cost, kwh),
                            PriceSlack(C, Q, m), PriceScale)
      BY <2>3, <2>5, <2>9, <3>2 DEF Agree
    <3> QED BY <1>6, <2>6, <2>7, <2>9, <3>1, <3>2 DEF MonthAgrees, C, shown, B, P, r, served
  <2> QED BY <2>8, <2>9
<1> QED BY <1>5, <1>6

\* The price of a bill is the same in the browser and in the server's points.
LEMMA PricesAgree ==
  ASSUME NEW b, IsBill(b), ~NegativeUse(b)
  PROVE  /\ EffectivePrice(ParseBill(b)) # Null
              <=> b.consumption # Null /\ b.consumption # Zero
         /\ EffectivePrice(ParseBill(b)) # Null =>
              EffectivePrice(ParseBill(b)) = Over(b.total_amount, b.consumption)
<1> DEFINE kwh == b.consumption
           cost == b.total_amount
           price == EffectivePrice(ParseBill(b))
<1>1. kwh \in Amounts /\ cost \in Fractions
  BY DEF IsBill
<1>2. ParseBill(b).consumption = kwh /\ ParseBill(b).total = cost
  BY ParsedFields
<1>3. price = IF kwh = Null THEN Null ELSE IF Leq(kwh, Zero) THEN Null ELSE Over(cost, kwh)
  BY <1>2 DEF EffectivePrice
<1>4. CASE kwh = Null
  BY <1>3, <1>4
<1>5. CASE kwh # Null
  <2>1. kwh \in Fractions /\ kwh[1] \in Int /\ kwh[2] \in Nat \ {0}
    BY <1>1, <1>5, AmountsAre, FractionParts
  <2>2. ~Less(kwh, Zero)
    BY <1>5 DEF NegativeUse
  <2> HIDE DEF kwh, cost, price
  <2>3. kwh[1] >= 0
    BY <2>1, <2>2, ZeroIsFraction DEF Less
  <2>4. Leq(kwh, Zero) <=> kwh[1] = 0
    BY <2>1, <2>3, ZeroIsFraction DEF Leq
  <2>5. kwh[1] = 0 <=> kwh = Zero
    <3>1. kwh[1] = 0 => kwh[1] * Zero[2] = Zero[1] * kwh[2]
      BY <2>1, ZeroIsFraction
    <3> QED BY <2>1, <3>1, ZeroIsFraction, FractionsEqual
  <2>6. CASE kwh = Zero
    BY <1>3, <1>5, <2>4, <2>5, <2>6 DEF kwh, price
  <2>7. CASE kwh # Zero
    <3>1. Over(cost, kwh) \in Fractions
      BY <1>1, <2>1, <2>5, <2>7, OverIsFraction
    <3>2. Over(cost, kwh) # Null
      BY <3>1, AmountsAre
    <3> QED BY <1>3, <1>5, <2>4, <2>5, <2>7, <3>2 DEF kwh, price, cost
  <2> QED BY <2>6, <2>7
<1> QED BY <1>4, <1>5

\* A bill that has kWh has a price, or they are negative.
LEMMA PriceKinds ==
  ASSUME NEW b, IsBill(b)
  PROVE  LET price == EffectivePrice(ParseBill(b))
         IN  /\ b.consumption # Null /\ b.consumption # Zero <=> price # Null \/ NegativeUse(b)
             /\ price # Null => price = Over(b.total_amount, b.consumption)
                                /\ price \in Fractions
<1> DEFINE kwh == b.consumption
           price == EffectivePrice(ParseBill(b))
<1>1. kwh \in Amounts /\ b.total_amount \in Fractions
  BY DEF IsBill
<1>2. price = IF kwh = Null THEN Null
              ELSE IF Leq(kwh, Zero) THEN Null ELSE Over(b.total_amount, kwh)
  <2>1. ParseBill(b).consumption = kwh /\ ParseBill(b).total = b.total_amount
    BY ParsedFields
  <2> QED BY <2>1 DEF EffectivePrice
<1>3. CASE NegativeUse(b)
  <2>1. kwh # Null /\ Less(kwh, Zero)
    BY <1>3 DEF NegativeUse
  <2>2. kwh \in Fractions
    BY <1>1, <2>1, AmountsAre
  <2> HIDE DEF kwh
  <2>3. kwh[1] < 0 /\ kwh[1] \in Int /\ kwh[2] \in Nat \ {0}
    BY <2>1, <2>2, FractionParts, ZeroIsFraction DEF Less
  <2>4. Leq(kwh, Zero) /\ kwh # Zero
    BY <2>3, ZeroIsFraction DEF Leq
  <2>5. price = Null
    BY <1>2, <2>1, <2>4 DEF kwh
  <2> HIDE DEF price
  <2> QED BY <1>3, <2>1, <2>4, <2>5 DEF kwh, price
<1>4. CASE ~NegativeUse(b)
  <2>1. price # Null <=> kwh # Null /\ kwh # Zero
    BY <1>4, PricesAgree
  <2>2. ASSUME price # Null PROVE price = Over(b.total_amount, kwh) /\ price \in Fractions
    <3>1. price = Over(b.total_amount, kwh)
      BY <1>4, <2>2, PricesAgree
    <3>2. kwh \in Fractions /\ kwh # Zero
      BY <1>1, <2>1, <2>2, AmountsAre
    <3>3. kwh[1] # 0
      BY <3>2, ZeroNumerator
    <3>4. Over(b.total_amount, kwh) \in Fractions
      BY <1>1, <3>2, <3>3, OverIsFraction
    <3> QED BY <3>1, <3>4
  <2> QED BY <1>4, <2>1, <2>2
<1> QED BY <1>3, <1>4

\* A point per bill is that bill's price, up to a digit.
LEMMA PointsAgree ==
  ASSUME NEW r, IsRecord(r)
  PROVE  BillPointsAgree(ToSet(r), BillSeries(r, "unit_price"))
<1> DEFINE B == ToSet(r)
           points == BillSeries(r, "unit_price")
           A == {b \in B : b.consumption # Null /\ b.consumption # Zero}
           point(b) == [id |-> b.id, period |-> b.period_end,
                        value |-> Rounded(Decimal(Over(b.total_amount, b.consumption)),
                                          PriceScale)]
           price(b) == EffectivePrice(ParseBill(b))
           priced   == {b \in B : price(b) # Null}
<1>1. points = {point(b) : b \in A}
  BY DEF BillSeries
<1>2. \A b \in B : IsBill(b)
  BY DEF IsRecord
<1>3. \A b, c \in B : b.id = c.id => b = c
  BY RecordLists DEF Lists
<1> HIDE DEF B, points
<1>4. A = priced \cup {x \in B : NegativeUse(x)}
  BY <1>2, PriceKinds
<1>5. {<<p.id, p.period>> : p \in points} = {<<b.id, b.period_end>> : b \in A}
  <2>1. {<<p.id, p.period>> : p \in {point(b) : b \in A}}
          = {<<point(b).id, point(b).period>> : b \in A}
    OBVIOUS
  <2>2. \A b \in A : <<point(b).id, point(b).period>> = <<b.id, b.period_end>>
    OBVIOUS
  <2> HIDE DEF A
  <2> QED BY <1>1, <2>1, <2>2
<1>6. ASSUME NEW p \in points, NEW b \in priced, p.id = b.id
      PROVE  NearTo(p.value, price(b), Times(Precision, AbsOf(price(b))), PriceScale)
  <2>1. PICK x \in A : p = point(x)
    BY <1>1
  <2>2. x = b /\ b \in B
    BY <1>3, <1>6, <2>1
  <2>3. price(b) = Over(b.total_amount, b.consumption) /\ price(b) \in Fractions
    BY <1>2, <1>6, PriceKinds
  <2> DEFINE e == price(b)
  <2>4. p.value = Rounded(Decimal(e), PriceScale) /\ e \in Fractions
    BY <2>1, <2>2, <2>3
  <2> HIDE DEF e
  <2>5. IsWithin(Decimal(e), e, Times(Ulps(1), AbsOf(e)))
    BY <2>4, DecimalIsNear
  <2>6. PriceScale \in Nat \ {0} /\ Precision = Ulps(1)
    BY CalendarAssumption DEF Precision, Ulps, Finest
  <2> QED BY <2>4, <2>5, <2>6, RoundedNearTo DEF e
<1> HIDE DEF A
<1>7. {<<p.id, p.period>> : p \in points}
        = {<<b.id, b.period_end>> : b \in priced \cup {x \in B : NegativeUse(x)}}
  BY <1>4, <1>5
<1> QED BY <1>6, <1>7 DEF BillPointsAgree, B, points

\* Both together.
LEMMA InvAgrees == Inv => AgreesWithSeries
<1> SUFFICES ASSUME Inv PROVE AgreesWithSeries
  OBVIOUS
<1> DEFINE series == [metric \in {"cost", "consumption", "unit_price"} |->
                        MonthlySeries(Fetched, metric)]
           months == MonthlyBuckets(ParseBills(Fetched))
<1>1. DataInv
  BY DEF Inv
<1>2. ASSUME NEW m \in CalendarMonths
      PROVE  MonthAgrees(m, {b \in ToSet(Fetched) : DaysIn(b, m) # {}}, FindMonth(months, m),
                         [metric \in DOMAIN series |-> series[metric][m]])
  <2>1. [metric \in DOMAIN series |-> series[metric][m]]
          = [metric \in {"cost", "consumption", "unit_price"} |->
               MonthlySeries(Fetched, metric)[m]]
    OBVIOUS
  <2>2. {b \in ToSet(Fetched) : DaysIn(b, m) # {}} = CoveredBy(ToSet(Fetched), m)
    BY DEF CoveredBy, Covers
  <2> HIDE DEF series, months
  <2> QED BY <1>1, <2>1, <2>2, MonthsAgree DEF months
<1>3. BillPointsAgree(ToSet(Fetched), BillSeries(Fetched, "unit_price"))
  BY <1>1, FetchedWorks, PointsAgree
<1> HIDE DEF series, months
<1> QED BY <1>2, <1>3 DEF AgreesWithSeries, series, months

\* Given the same bills, the months that monthlyBuckets derives are the months
\* that monthly_series answers with, and the points of bill_series are the
\* prices of the bills, for any bills and calendar and any number of digits
\* that leaves room for that many bills: the browser shows the exact figure
\* rounded, the server one that is off by what its Decimals may lose.
THEOREM BrowserAgreesWithServer == Spec => []AgreesWithSeries
BY Invariant, InvAgrees, PTL

(***************************************************************************)
(* The bills of a range are those of its months                            *)
(***************************************************************************)
LEMMA ListsIds ==
  ASSUME NEW P, NEW B, Lists(P, B)
  PROVE  /\ {p.id : p \in ToSet(P)} = {b.id : b \in B}
         /\ ToSet([i \in DOMAIN P |-> P[i].id]) = {b.id : b \in B}
<1>1. ASSUME NEW i \in DOMAIN P PROVE P[i].id \in {b.id : b \in B}
  <2>1. PICK b \in B : P[i] = ParseBill(b)
    BY DEF Lists
  <2>2. P[i].id = b.id
    BY <2>1, ParsedFields DEF Lists
  <2> QED BY <2>2
<1>2. ASSUME NEW b \in B PROVE \E i \in DOMAIN P : P[i].id = b.id
  <2>1. PICK i \in DOMAIN P : P[i] = ParseBill(b)
    BY DEF Lists
  <2>2. P[i].id = b.id
    BY <2>1, ParsedFields DEF Lists
  <2> QED BY <2>2
<1>3. {p.id : p \in ToSet(P)} = {P[i].id : i \in DOMAIN P}
  BY DEF ToSet
<1>4. ToSet([i \in DOMAIN P |-> P[i].id]) = {P[i].id : i \in DOMAIN P}
  BY DEF ToSet
<1>5. {P[i].id : i \in DOMAIN P} = {b.id : b \in B}
  <2>1. {P[i].id : i \in DOMAIN P} \subseteq {b.id : b \in B}
    BY <1>1
  <2>2. ASSUME NEW b \in B PROVE b.id \in {P[i].id : i \in DOMAIN P}
    BY <1>2
  <2> QED BY <2>1, <2>2
<1> QED BY <1>3, <1>4, <1>5

\* A bill covers the month it ends in, and no later one.
LEMMA LastMonthWorks ==
  ASSUME NEW b, IsBill(b)
  PROVE  /\ MonthOf(b.period_end) \in CalendarMonths
         /\ Covers(b, MonthOf(b.period_end))
         /\ \A m \in CalendarMonths : Covers(b, m) => m <= MonthOf(b.period_end)
<1> DEFINE s == b.period_start
           e == b.period_end
           n == MonthOf(e)
<1>1. s \in CalendarDays /\ e \in CalendarDays /\ s <= e
  BY DEF IsBill
<1>2. s \in Int /\ e \in Int
  BY <1>1, CalendarFacts
<1>3. n \in CalendarMonths /\ MonthStart[n] <= e /\ e <= LastDay(n)
  BY <1>1, MonthOfWorks
<1> HIDE DEF n
<1>4. MonthStart[n] \in Int /\ LastDay(n) \in Int
  BY <1>3, MonthFacts
<1>5. e \in DaysIn(b, n)
  BY <1>1, <1>2, <1>3, <1>4 DEF DaysIn
<1>6. ASSUME NEW m \in CalendarMonths, Covers(b, m) PROVE m <= n
  <2>1. PICK d : d \in s .. e /\ d \in MonthStart[m] .. LastDay(m)
    BY <1>6 DEF Covers, DaysIn
  <2>2. MonthStart[m] \in Int /\ LastDay(m) \in Int /\ m \in Int /\ n \in Int
    BY <1>3, MonthFacts
  <2>3. MonthStart[m] <= e
    BY <1>2, <2>1, <2>2
  <2>4. CASE n < m
    <3>1. n + 1 \in 1 .. Months /\ m \in 1 .. Months /\ n + 1 <= m
      BY <1>3, <2>2, <2>4, CalendarFacts
    <3>2. MonthStart[n + 1] <= MonthStart[m]
      <4>1. CASE n + 1 = m
        BY <2>2, <4>1
      <4>2. CASE n + 1 < m
        <5>1. MonthStart[n + 1] < MonthStart[m]
          BY <3>1, <4>2, MonthsFollow
        <5> QED BY <2>2, <3>1, <5>1, CalendarFacts
      <4> QED BY <2>2, <3>1, <4>1, <4>2
    <3>3. LastDay(n) = MonthStart[n + 1] - 1 /\ MonthStart[n + 1] \in Int
      BY <1>3, MonthFacts
    <3> QED BY <1>2, <1>3, <2>2, <2>3, <3>2, <3>3
  <2> QED BY <2>2, <2>4
<1> QED BY <1>3, <1>5, <1>6 DEF Covers, n

\* A bill has a price when it has kWh above zero.
LEMMA PricedWhenPositive ==
  ASSUME NEW b, IsBill(b)
  PROVE  EffectivePrice(ParseBill(b)) # Null <=> Positive(b.consumption)
<1> DEFINE kwh == b.consumption
           cost == b.total_amount
<1>1. kwh \in Amounts /\ cost \in Fractions
  BY DEF IsBill
<1>2. ParseBill(b).consumption = kwh /\ ParseBill(b).total = cost
  BY ParsedFields
<1>3. EffectivePrice(ParseBill(b)) =
        IF kwh = Null THEN Null ELSE IF Leq(kwh, Zero) THEN Null ELSE Over(cost, kwh)
  BY <1>2 DEF EffectivePrice
<1>4. Positive(kwh) <=> kwh # Null /\ Less(Zero, kwh)
  BY DEF Positive
<1>5. CASE kwh = Null
  BY <1>3, <1>4, <1>5
<1>6. CASE kwh # Null
  <2>1. kwh \in Fractions /\ kwh[1] \in Int /\ kwh[2] \in Nat \ {0}
    BY <1>1, <1>6, AmountsAre, FractionParts
  <2> HIDE DEF kwh, cost
  <2>2. Leq(kwh, Zero) <=> kwh[1] <= 0
    BY <2>1, ZeroIsFraction DEF Leq
  <2>3. Less(Zero, kwh) <=> 0 < kwh[1]
    BY <2>1, ZeroIsFraction DEF Less
  <2>4. CASE 0 < kwh[1]
    <3>1. Over(cost, kwh) \in Fractions
      BY <1>1, <2>1, <2>4, OverIsFraction
    <3>2. Over(cost, kwh) # Null
      BY <3>1, AmountsAre
    <3> QED BY <1>3, <1>4, <1>6, <2>1, <2>2, <2>3, <2>4, <3>2 DEF kwh
  <2>5. CASE kwh[1] <= 0
    BY <1>3, <1>4, <1>6, <2>1, <2>2, <2>3, <2>5 DEF kwh
  <2> QED BY <2>1, <2>4, <2>5
<1> QED BY <1>5, <1>6

\* The bills that cover a month of the range.
ShownBills == {b \in Bills : \E i \in DOMAIN InRange(buckets) :
                               Covers(b, InRange(buckets)[i].period)}

\* The bills of the months shown are those that cover one of them.
LEMMA ShownIds ==
  ASSUME Inv
  PROVE  UNION {ToSet(b.billIds) : b \in ToSet(InRange(buckets))}
           = {b.id : b \in ShownBills}
<1> DEFINE P == parsed
           B == Bills
           shown == InRange(buckets)
<1>0. Lists(P, B)
  BY BucketsFacts DEF Inv
<1>1. PICK c \in Nat :
        /\ buckets = [i \in 1 .. c |-> buckets[i]]
        /\ \A i \in 1 .. c :
             /\ buckets[i].period \in MonthsOf(P)
             /\ buckets[i].period \in CalendarMonths
             /\ buckets[i] = Bucket(Touching(P, buckets[i].period), buckets[i].period)
  BY BucketsFacts DEF Inv
<1>2. PICK k \in 0 .. c :
        /\ shown = [i \in 1 .. k |-> buckets[c - k + i]]
        /\ RangeMonths[range] = Null => k = c
        /\ c # 0 => k # 0
  <2>1. range \in Ranges
    BY DEF Inv, ControlsInv
  <2>2. IsList(buckets, c)
    BY <1>1 DEF IsList
  <2> QED BY <2>1, <2>2, InRangeWorks
<1> HIDE DEF P, B, shown
<1>3. ASSUME NEW i \in DOMAIN shown
      PROVE  ToSet(shown[i].billIds) = {b.id : b \in CoveredBy(B, shown[i].period)}
  <2> DEFINE m == shown[i].period
             Q == Touching(P, m)
             C == CoveredBy(B, m)
  <2>1. shown[i] = buckets[c - k + i] /\ c - k + i \in 1 .. c
    BY <1>2
  <2>2. m \in MonthsOf(P) /\ m \in CalendarMonths /\ shown[i] = Bucket(Q, m)
    BY <1>1, <2>1
  <2>3. C # {}
    BY <1>0, <2>2, MonthsOfWorks
  <2>4. Lists(Q, C)
    BY <1>0, <2>2, TouchingLists
  <2> HIDE DEF m, Q, C
  <2>5. Bucket(Q, m).billIds = [j \in DOMAIN Q |-> Q[j].id]
    BY <2>2, <2>3, <2>4, BucketWorks
  <2>6. ToSet([j \in DOMAIN Q |-> Q[j].id]) = {b.id : b \in C}
    BY <2>4, ListsIds
  <2> QED BY <2>2, <2>5, <2>6 DEF C, m
<1>4. ShownBills = {b \in B : \E i \in DOMAIN shown : b \in CoveredBy(B, shown[i].period)}
  BY DEF ShownBills, CoveredBy, B, shown
<1>5. UNION {ToSet(b.billIds) : b \in ToSet(shown)}
        = UNION {ToSet(shown[i].billIds) : i \in DOMAIN shown}
  BY DEF ToSet
<1>6. ASSUME NEW x \in {b.id : b \in ShownBills}
      PROVE  x \in UNION {ToSet(shown[i].billIds) : i \in DOMAIN shown}
  <2>1. PICK b \in ShownBills : x = b.id
    OBVIOUS
  <2>2. PICK i \in DOMAIN shown : b \in CoveredBy(B, shown[i].period)
    BY <1>4, <2>1
  <2>3. x \in ToSet(shown[i].billIds)
    BY <1>3, <2>1, <2>2
  <2> QED BY <2>3
<1>7. ASSUME NEW x \in UNION {ToSet(shown[i].billIds) : i \in DOMAIN shown}
      PROVE  x \in {b.id : b \in ShownBills}
  <2>1. PICK i \in DOMAIN shown : x \in ToSet(shown[i].billIds)
    OBVIOUS
  <2>2. PICK b \in CoveredBy(B, shown[i].period) : x = b.id
    BY <1>3, <2>1
  <2>3. b \in ShownBills
    BY <1>4, <2>2 DEF CoveredBy
  <2> QED BY <2>2, <2>3
<1> QED BY <1>5, <1>6, <1>7 DEF shown

\* So are the bills of the range, which are filtered by the month they end in.
LEMMA RangeLists ==
  ASSUME Inv
  PROVE  Lists(BillsInRange, ShownBills)
<1> DEFINE P == parsed
           B == Bills
           shown == InRange(buckets)
<1>0. Lists(P, B)
  BY BucketsFacts DEF Inv
<1>1. PICK c \in Nat :
        /\ buckets = [i \in 1 .. c |-> buckets[i]]
        /\ \A i \in 1 .. c : buckets[i].period \in CalendarMonths
        /\ \A i, j \in 1 .. c : i < j => buckets[i].period < buckets[j].period
        /\ \A m \in MonthsOf(P) : \E i \in 1 .. c : buckets[i].period = m
  BY BucketsFacts DEF Inv
<1>2. PICK k \in 0 .. c :
        /\ shown = [i \in 1 .. k |-> buckets[c - k + i]]
        /\ RangeMonths[range] = Null => k = c
        /\ c # 0 => k # 0
  <2>1. range \in Ranges
    BY DEF Inv, ControlsInv
  <2>2. IsList(buckets, c)
    BY <1>1 DEF IsList
  <2> QED BY <2>1, <2>2, InRangeWorks
<1>3. BillsInRange =
        IF RangeMonths[range] = Null \/ shown = <<>> THEN P
        ELSE Sublist(P, {i \in DOMAIN P : PeriodOf(P[i]) >= shown[1].period})
  BY DEF BillsInRange
<1>4. ShownBills = {b \in B : \E i \in DOMAIN shown : Covers(b, shown[i].period)}
  BY DEF ShownBills
<1>5. ASSUME NEW b \in B
      PROVE  \E i \in 1 .. c : buckets[i].period = MonthOf(b.period_end)
  <2>1. IsBill(b)
    BY <1>0 DEF Lists
  <2>2. MonthOf(b.period_end) \in CalendarMonths /\ Covers(b, MonthOf(b.period_end))
    BY <2>1, LastMonthWorks
  <2>3. b \in CoveredBy(B, MonthOf(b.period_end))
    BY <2>2 DEF CoveredBy
  <2>4. MonthOf(b.period_end) \in MonthsOf(P)
    BY <1>0, <2>2, <2>3, MonthsOfWorks
  <2> QED BY <1>1, <2>4
<1> HIDE DEF P, B, shown, IsBill
<1>6. CASE k = c
  <2>1. \A i \in 1 .. c : i \in DOMAIN shown /\ shown[i] = buckets[i]
    BY <1>2, <1>6
  <2>2. ASSUME NEW b \in B PROVE b \in ShownBills
    <3>1. PICK i \in 1 .. c : buckets[i].period = MonthOf(b.period_end)
      BY <1>5
    <3>2. IsBill(b)
      BY <1>0 DEF Lists
    <3>3. Covers(b, shown[i].period)
      BY <2>1, <3>1, <3>2, LastMonthWorks
    <3> QED BY <1>4, <2>1, <3>3
  <2>3. ShownBills = B
    BY <1>4, <2>2
  <2>4. CASE RangeMonths[range] = Null \/ shown = <<>>
    BY <1>0, <1>3, <2>3, <2>4
  <2>5. CASE ~(RangeMonths[range] = Null \/ shown = <<>>)
    <3> DEFINE S == {i \in DOMAIN P : PeriodOf(P[i]) >= shown[1].period}
    <3>1. k # 0
      BY <1>2, <2>5
    <3>2. shown[1] = buckets[1] /\ 1 \in 1 .. c
      BY <1>6, <2>1, <3>1
    <3>3. ASSUME NEW i \in DOMAIN P, NEW b \in B, P[i] = ParseBill(b)
          PROVE  i \in S <=> b \in B
      <4>1. IsBill(b)
        BY <1>0 DEF Lists
      <4>2. PeriodOf(P[i]) = MonthOf(b.period_end)
        BY <3>3, <4>1, ParsedFields DEF PeriodOf
      <4>3. PICK j \in 1 .. c : buckets[j].period = MonthOf(b.period_end)
        BY <1>5
      <4>4. buckets[1].period \in Int /\ buckets[j].period \in Int
        BY <1>1, <3>2, CalendarFacts
      <4>5. buckets[1].period <= buckets[j].period
        <5>1. CASE j = 1
          BY <4>4, <5>1
        <5>2. CASE 1 < j
          <6>1. buckets[1].period < buckets[j].period
            BY <1>1, <3>2, <5>2
          <6> QED BY <4>4, <6>1
        <5> QED BY <5>1, <5>2
      <4> QED BY <3>2, <4>2, <4>3, <4>4, <4>5
    <3>4. S \subseteq DOMAIN P /\ B \subseteq B
      OBVIOUS
    <3>5. BillsInRange = Sublist(P, S)
      BY <1>3, <2>5
    <3> HIDE DEF S
    <3>6. Lists(Sublist(P, S), B)
      BY <1>0, <3>3, <3>4, SublistLists
    <3> QED BY <2>3, <3>5, <3>6
  <2> QED BY <2>4, <2>5
<1>7. CASE k # c
  <2> DEFINE first == shown[1].period
             S == {i \in DOMAIN P : PeriodOf(P[i]) >= first}
  <2>1. k \in 1 .. c /\ 1 \in 1 .. k /\ c - k + 1 \in 1 .. c
    BY <1>2, <1>7
  <2>2. DOMAIN shown = 1 .. k /\ \A i \in 1 .. k : shown[i] = buckets[c - k + i]
    BY <1>2
  <2>3. shown # <<>> /\ RangeMonths[range] # Null
    <3>1. 1 \in DOMAIN shown
      BY <2>1, <2>2
    <3>2. shown # <<>>
      BY <3>1
    <3> QED BY <1>2, <1>7, <3>2
  <2>4. BillsInRange = Sublist(P, S)
    BY <1>3, <2>3
  <2>5. first = buckets[c - k + 1].period
    BY <2>1, <2>2
  <2>6. first \in Int
    BY <1>1, <2>1, <2>5, CalendarFacts
  <2> HIDE DEF first
  <2>7. ASSUME NEW j \in 1 .. c PROVE buckets[j].period >= first <=> j >= c - k + 1
    <3>1. buckets[j].period \in Int
      BY <1>1, CalendarFacts
    <3>2. CASE j < c - k + 1
      <4>1. buckets[j].period < first
        BY <1>1, <2>1, <2>5, <3>2
      <4> QED BY <2>6, <3>1, <3>2, <4>1
    <3>3. CASE j = c - k + 1
      BY <2>5, <2>6, <3>3
    <3>4. CASE c - k + 1 < j
      <4>1. first < buckets[j].period
        BY <1>1, <2>1, <2>5, <3>4
      <4> QED BY <2>6, <3>1, <3>4, <4>1
    <3> QED BY <3>2, <3>3, <3>4
  <2>8. ASSUME NEW b \in B
        PROVE  MonthOf(b.period_end) >= first <=> b \in ShownBills
    <3> DEFINE n == MonthOf(b.period_end)
    <3>1. IsBill(b)
      BY <1>0 DEF Lists
    <3>2. /\ n \in CalendarMonths /\ Covers(b, n)
          /\ \A m \in CalendarMonths : Covers(b, m) => m <= n
      BY <3>1, LastMonthWorks
    <3>3. n \in Int
      BY <3>2, CalendarFacts
    <3>4. PICK j \in 1 .. c : buckets[j].period = n
      BY <1>5
    <3> HIDE DEF n
    <3>5. ASSUME n >= first PROVE b \in ShownBills
      <4>1. j >= c - k + 1
        BY <2>7, <3>4, <3>5
      <4> DEFINE i == j - (c - k)
      <4>2. i \in 1 .. k /\ c - k + i = j
        BY <2>1, <4>1
      <4> HIDE DEF i
      <4>3. shown[i].period = n /\ i \in DOMAIN shown
        BY <2>2, <3>4, <4>2
      <4> QED BY <1>4, <3>2, <4>3
    <3>6. ASSUME b \in ShownBills PROVE n >= first
      <4>1. PICK i \in 1 .. k : Covers(b, shown[i].period)
        BY <1>4, <2>2, <3>6
      <4>2. c - k + i \in 1 .. c /\ c - k + i >= c - k + 1
        BY <2>1
      <4>3. shown[i].period = buckets[c - k + i].period
        BY <2>2
      <4>4. buckets[c - k + i].period >= first /\ buckets[c - k + i].period \in CalendarMonths
        BY <1>1, <2>7, <4>2
      <4>5. shown[i].period >= first /\ shown[i].period \in CalendarMonths
        BY <4>3, <4>4
      <4>6. shown[i].period \in Int /\ shown[i].period <= n
        BY <3>2, <4>1, <4>5, CalendarFacts
      <4> QED BY <2>6, <3>3, <4>5, <4>6
    <3> QED BY <3>5, <3>6 DEF n
  <2>9. ASSUME NEW i \in DOMAIN P, NEW b \in B, P[i] = ParseBill(b)
        PROVE  i \in S <=> b \in ShownBills
    <3>1. IsBill(b)
      BY <1>0 DEF Lists
    <3>2. PeriodOf(P[i]) = MonthOf(b.period_end)
      BY <2>9, <3>1, ParsedFields DEF PeriodOf
    <3> QED BY <2>8, <3>2
  <2>10. S \subseteq DOMAIN P /\ ShownBills \subseteq B
    BY <1>4
  <2> HIDE DEF S
  <2> QED BY <1>0, <2>4, <2>9, <2>10, SublistLists
<1> QED BY <1>6, <1>7

\* The dots are the bills of the range that have used something.
LEMMA DotsList ==
  ASSUME Inv
  PROVE  Lists(Dots, {b \in ShownBills : Positive(b.consumption)})
<1> DEFINE B == ShownBills
           Q == BillsInRange
           A == {b \in B : Positive(b.consumption)}
           S == {i \in DOMAIN Q : EffectivePrice(Q[i]) # Null}
<1>1. Lists(Q, B)
  BY RangeLists
<1>2. Dots = Sublist(Q, S)
  BY DEF Dots
<1> HIDE DEF B, Q, IsBill
<1>3. ASSUME NEW i \in DOMAIN Q, NEW b \in B, Q[i] = ParseBill(b)
      PROVE  i \in S <=> b \in A
  <2>1. IsBill(b)
    BY <1>1 DEF Lists
  <2> QED BY <1>3, <2>1, PricedWhenPositive
<1>4. S \subseteq DOMAIN Q /\ A \subseteq B
  OBVIOUS
<1> HIDE DEF S
<1>5. Lists(Sublist(Q, S), A)
  BY <1>1, <1>3, <1>4, SublistLists
<1> QED BY <1>2, <1>5 DEF A, B

\* Both together, and the dots among them.
LEMMA InvMatches == Inv => DotsMatchMonths
<1> SUFFICES ASSUME Inv PROVE DotsMatchMonths
  OBVIOUS
<1> DEFINE B == ShownBills
           A == {b \in B : Positive(b.consumption)}
           shown == {b.id : b \in B}
<1>1. {b.id : b \in ToSet(BillsInRange)} = shown
  BY RangeLists, ListsIds
<1>2. UNION {ToSet(b.billIds) : b \in ToSet(InRange(buckets))} = shown
  BY ShownIds
<1>3. B \subseteq Bills /\ \A b, c \in Bills : b.id = c.id => b = c
  <2>1. Lists(parsed, Bills)
    BY BucketsFacts DEF Inv
  <2> QED BY <2>1 DEF Lists, ShownBills
<1>4. Evidence.dots = Dots /\ Lists(Dots, A)
  BY DotsList DEF Evidence
<1> HIDE DEF B, A
<1>5. {b.id : b \in ToSet(Evidence.dots)} = {b.id : b \in A}
  BY <1>4, ListsIds
<1>6. {b.id : b \in A}
         = shown \cap {b.id : b \in {x \in Bills : Positive(x.consumption)}}
  BY <1>3 DEF A
<1> QED BY <1>1, <1>2, <1>5, <1>6 DEF DotsMatchMonths, B

\* The bills that DashboardPage takes for a range, by the month they end in, are
\* those that feed the months it takes for it by slice, and the dots of
\* RateEvidence are those of them with a price, for any record and range.
THEOREM DotsAreOfTheMonths == Spec => []DotsMatchMonths
BY Invariant, InvMatches, PTL

(***************************************************************************)
(* What a month shows is what its days say                                 *)
(***************************************************************************)
\* Positive says that an amount is known and above zero.
LEMMA PositiveIsAbove ==
  ASSUME NEW p \in Amounts
  PROVE  Positive(p) <=> p # Null /\ Above(p)
<1>1. CASE p = Null
  BY <1>1 DEF Positive
<1>2. CASE p # Null
  <2>1. p \in Fractions /\ p[1] \in Int /\ p[2] \in Nat \ {0}
    BY <1>2, AmountsAre, FractionParts
  <2>2. Less(Zero, p) <=> 0 < p[1]
    BY <2>1, ZeroIsFraction DEF Less
  <2> QED BY <1>2, <2>1, <2>2 DEF Positive, Above
<1> QED BY <1>1, <1>2

\* A bill that covers a month has a share in it.
LEMMA ShareIsAbove ==
  ASSUME NEW b, IsBill(b), NEW m \in CalendarMonths, Covers(b, m)
  PROVE  Above(DayShare(b, m))
<1> DEFINE k == Cardinality(DaysIn(b, m))
           n == b.period_end - b.period_start + 1
<1>1. k \in Nat /\ SeriesOverlap(b, m) = k /\ k # 0
  BY TouchesWhenCovers
<1>2. b.period_start \in Int /\ b.period_end \in Int
  BY CalendarFacts DEF IsBill
<1>3. n \in Nat \ {0}
  BY <1>2 DEF IsBill
<1>4. DayShare(b, m) = Frac(k, n)
  BY <1>1 DEF DayShare
<1> HIDE DEF k, n
<1> QED BY <1>1, <1>3, <1>4, FracIsAbove

\* The kWh of metered bills are positive, and the prices of the bills weighted
\* by them are what the bills cost.
LEMMA MeteredWorks ==
  ASSUME NEW C, C # {}, IsFiniteSet(C), NEW m \in CalendarMonths,
         \A b \in C : IsBill(b) /\ Covers(b, m), AllMetered(C)
  PROVE  /\ Metered(C) = C
         /\ Above(Kwh(C, m))
         /\ Total([b \in C |-> Times(Over(b.total_amount, b.consumption),
                                     OnDays({b}, {m}, "consumption"))]) = Cost(C, m)
<1> DEFINE part == [b \in C |-> Times(b["consumption"], DayShare(b, m))]
<1>1. ASSUME NEW b \in C
      PROVE  /\ b.consumption # Null /\ Above(b.consumption)
             /\ b.total_amount \in Fractions /\ Above(DayShare(b, m))
  <2>1. Positive(b.consumption)
    BY DEF AllMetered
  <2>2. b.consumption \in Amounts /\ b.total_amount \in Fractions
    BY DEF IsBill
  <2> QED BY <2>1, <2>2, PositiveIsAbove, ShareIsAbove
<1> HIDE DEF IsBill
<1>2. Metered(C) = C
  BY <1>1 DEF Metered
<1>3. \A b \in C : Above(part[b])
  BY <1>1, TimesIsAbove
<1>4. Total(part) = Kwh(C, m)
  BY <1>2 DEF Kwh, ExactSum
<1>5. Above(Total(part))
  <2> HIDE DEF part
  <2>1. DOMAIN part = C
    BY DEF part
  <2> QED BY <1>3, <2>1, TotalIsAbove
<1>6. ASSUME NEW b \in C
      PROVE  Times(Over(b.total_amount, b.consumption), OnDays({b}, {m}, "consumption"))
               = Times(b["total_amount"], DayShare(b, m))
  <2> DEFINE f == [x \in {b} |-> Times(x["consumption"], DayShare(x, m))]
             u == Times(b.consumption, DayShare(b, m))
  <2>1. OnDays({b}, {m}, "consumption") = Total(f)
    <3>1. \A x \in {b} : IsBill(x)
      OBVIOUS
    <3> QED BY <3>1, OnDaysWorks DEF ExactSum
  <2>2. DOMAIN f = {b} /\ f[b] = u
    OBVIOUS
  <2>3. u \in Fractions
    BY <1>1, TimesIsFraction DEF Above
  <2> HIDE DEF f, u
  <2>4. Total(f) = u
    BY <2>2, <2>3, TotalOfOne
  <2>5. b.consumption[1] # 0
    BY <1>1, FractionParts DEF Above
  <2>6. Times(Over(b.total_amount, b.consumption), Times(b.consumption, DayShare(b, m)))
          = Times(b.total_amount, DayShare(b, m))
    BY <1>1, <2>5, TimesOfOver DEF Above
  <2> QED BY <2>1, <2>4, <2>6 DEF u
<1>7. Total([b \in C |-> Times(Over(b.total_amount, b.consumption),
                               OnDays({b}, {m}, "consumption"))])
        = Total([b \in C |-> Times(b["total_amount"], DayShare(b, m))])
  <2>1. [b \in C |-> Times(Over(b.total_amount, b.consumption),
                           OnDays({b}, {m}, "consumption"))]
          = [b \in C |-> Times(b["total_amount"], DayShare(b, m))]
    BY <1>6
  <2> QED BY <2>1
<1> QED BY <1>2, <1>4, <1>5, <1>7 DEF Cost, ExactSum

MonthMatches(m) ==
  LET bills   == BillsOf(m)
      metered == {b \in bills : b.consumption # Null}
      shown   == FindMonth(buckets, m)
      kwh     == OnDays(metered, {m}, "consumption")
      weighted == Total([b \in bills |->
                    Times(Over(b.total_amount, b.consumption),
                          OnDays({b}, {m}, "consumption"))])
  IN  /\ HasMonth(buckets, m) <=> bills # {}
      /\ bills # {} =>
           /\ Near(shown.cost, OnDays(bills, {m}, "total_amount"), MoneyScale)
           /\ shown.kwh = Null <=> metered = {}
           /\ metered # {} => Near(shown.kwh, kwh, MoneyScale)
           /\ AllMetered(bills) => Near(shown.effective, Over(weighted, kwh), PriceScale)

\* One month.
LEMMA MonthsMatch ==
  ASSUME DataInv, NEW m \in CalendarMonths
  PROVE  MonthMatches(m)
<1> DEFINE P == parsed
           B == Bills
           C == CoveredBy(B, m)
           Q == Touching(P, m)
           shown == FindMonth(buckets, m)
           weighted == Total([b \in C |->
                         Times(Over(b.total_amount, b.consumption),
                               OnDays({b}, {m}, "consumption"))])
<1>1. Lists(P, B) /\ buckets = MonthlyBuckets(P)
  BY BucketsFacts DEF DataInv, parsed
<1>2. \A b \in B : IsBill(b)
  BY <1>1 DEF Lists
<1>3. BillsOf(m) = C
  BY DEF BillsOf, CoveredBy, Covers
<1> HIDE DEF P, B, IsBill
<1>4. Lists(Q, C)
  BY <1>1, TouchingLists
<1>5. /\ HasMonth(buckets, m) <=> C # {}
      /\ C # {} => shown = Bucket(Q, m)
  BY <1>1, MonthsOfWorks, FindMonthWorks
<1>6. \A b \in C : IsBill(b) /\ Covers(b, m)
  BY <1>2 DEF CoveredBy
<1> HIDE DEF C, Q, shown
<1>7. {b \in C : b.consumption # Null} = Metered(C)
  BY DEF Metered
<1>8. OnDays(C, {m}, "total_amount") = Cost(C, m)
  BY <1>6, OnDaysWorks DEF Cost
<1>9. OnDays(Metered(C), {m}, "consumption") = Kwh(C, m)
  <2>1. \A b \in Metered(C) : IsBill(b)
    BY <1>6 DEF Metered
  <2> QED BY <2>1, OnDaysWorks DEF Kwh
<1>10. ASSUME C # {}
       PROVE  /\ Near(shown.cost, Cost(C, m), MoneyScale)
              /\ shown.kwh = Null <=> Metered(C) = {}
              /\ Metered(C) # {} => Near(shown.kwh, Kwh(C, m), MoneyScale)
              /\ AllMetered(C) => Near(shown.effective, Over(weighted, Kwh(C, m)), PriceScale)
  <2>1. ShowsMonth(shown, C, m)
    BY <1>4, <1>5, <1>10, BucketWorks
  <2>2. /\ Cost(C, m) \in Fractions /\ Kwh(C, m) \in Fractions /\ IsFiniteSet(C)
        /\ shown.cost = Rounded(Cost(C, m), MoneyScale)
        /\ Metered(C) = {} => shown.kwh = Null
        /\ Metered(C) # {} => shown.kwh = Rounded(Kwh(C, m), MoneyScale)
        /\ shown.effective = IF Metered(C) # {} /\ ~Leq(Kwh(C, m), Zero)
                             THEN Rounded(Over(Cost(C, m), Kwh(C, m)), PriceScale) ELSE Null
    BY <2>1 DEF ShowsMonth
  <2>3. MoneyScale \in Nat \ {0} /\ PriceScale \in Nat \ {0}
    BY CalendarAssumption
  <2>4. Near(shown.cost, Cost(C, m), MoneyScale)
    BY <2>2, <2>3, RoundedIsNear DEF Near
  <2>5. /\ Rounded(Kwh(C, m), MoneyScale) \in Fractions
        /\ Near(Rounded(Kwh(C, m), MoneyScale), Kwh(C, m), MoneyScale)
    BY <2>2, <2>3, RoundedIsNear DEF Near
  <2>6. Rounded(Kwh(C, m), MoneyScale) # Null
    BY <2>5, AmountsAre
  <2>7. ASSUME AllMetered(C)
        PROVE  Near(shown.effective, Over(weighted, Kwh(C, m)), PriceScale)
    <3>1. Metered(C) = C /\ Above(Kwh(C, m)) /\ weighted = Cost(C, m)
      BY <1>6, <1>10, <2>2, <2>7, MeteredWorks
    <3> DEFINE k == Kwh(C, m)
               o == Over(Cost(C, m), k)
    <3> HIDE DEF k, o, weighted
    <3>2. k \in Fractions /\ k[1] \in Int /\ k[1] > 0 /\ k[2] \in Int
      BY <3>1, FractionParts DEF Above, k
    <3>3. ~Leq(k, Zero)
      BY <3>2, ZeroIsFraction DEF Leq
    <3>4. o \in Fractions
      BY <2>2, <3>2, OverIsFraction DEF o
    <3>5. shown.effective = Rounded(o, PriceScale)
      BY <1>10, <2>2, <3>1, <3>3 DEF k, o
    <3>6. Near(Rounded(o, PriceScale), o, PriceScale)
      BY <2>3, <3>4, RoundedIsNear DEF Near
    <3> QED BY <3>1, <3>5, <3>6 DEF k, o
  <2> QED BY <2>2, <2>4, <2>5, <2>6, <2>7
<1> QED BY <1>3, <1>5, <1>7, <1>8, <1>9, <1>10 DEF MonthMatches, shown

\* All months.
LEMMA InvCounts == Inv => MonthsMatchDays
<1>1. ASSUME Inv, NEW m \in CalendarMonths PROVE MonthMatches(m)
  BY <1>1, MonthsMatch DEF Inv
<1> QED BY <1>1 DEF MonthsMatchDays, MonthMatches

\* Every month of monthlyBuckets shows what a count by days of its bills says,
\* whatever summer time does to the midnights between, for any record,
\* calendar and scale of rounding.
THEOREM MonthsAreTheirDays == Spec => []MonthsMatchDays
BY Invariant, InvCounts, PTL

(***************************************************************************)
(* The screens agree: windows of months and their sums                     *)
(***************************************************************************)
\* The numbers from 1 to n are in order.
LEMMA InOrderOfAll ==
  ASSUME NEW n \in Nat
  PROVE  InOrder(1 .. n) = [k \in 1 .. n |-> k]
<1>1. Cardinality(1 .. n) = n
  BY FS_Interval
<1>2. ASSUME NEW k \in 1 .. n
      PROVE  (CHOOSE i \in 1 .. n : Cardinality({j \in 1 .. n : j <= i}) = k) = k
  <2>1. ASSUME NEW i \in 1 .. n PROVE Cardinality({j \in 1 .. n : j <= i}) = i
    <3>1. {j \in 1 .. n : j <= i} = 1 .. i
      OBVIOUS
    <3>2. Cardinality(1 .. i) = i
      BY FS_Interval
    <3> QED BY <3>1, <3>2
  <2> QED BY <2>1
<1> QED BY <1>1, <1>2 DEF InOrder

\* All elements of a list are the list.
LEMMA SublistOfAll ==
  ASSUME NEW n \in Nat, NEW list, IsList(list, n)
  PROVE  Sublist(list, 1 .. n) = list
<1>1. Cardinality(1 .. n) = n
  BY FS_Interval
<1>2. \A k \in 1 .. n : InOrder(1 .. n)[k] = k
  BY InOrderOfAll
<1>3. Sublist(list, 1 .. n) = [k \in 1 .. n |-> list[InOrder(1 .. n)[k]]]
  BY <1>1 DEF Sublist
<1>4. [k \in 1 .. n |-> list[InOrder(1 .. n)[k]]] = [k \in 1 .. n |-> list[k]]
  BY <1>2
<1> QED BY <1>3, <1>4 DEF IsList

\* What is known of a list: elements of it, none when it knows nothing.
LEMMA KnownWorks ==
  ASSUME NEW n \in Nat, NEW list, IsList(list, n), NEW field
  PROVE  \E c \in Nat :
           /\ IsList(Known(list, field), c)
           /\ \A k \in 1 .. c : \E i \in 1 .. n :
                Known(list, field)[k] = list[i] /\ list[i][field] # Null
           /\ c = 0 <=> \A i \in 1 .. n : list[i][field] = Null
<1> DEFINE S == {i \in 1 .. n : list[i][field] # Null}
           c == Cardinality(S)
           K == Known(list, field)
<1>1. S \subseteq Int /\ IsFiniteSet(S) /\ DOMAIN list = 1 .. n
  <2>1. IsFiniteSet(1 .. n) /\ S \subseteq 1 .. n
    BY FS_Interval
  <2>2. IsFiniteSet(S)
    <3> HIDE DEF S
    <3> QED BY <2>1, FS_Subset
  <2>3. DOMAIN list = 1 .. n
    BY DEF IsList
  <2> QED BY <2>1, <2>2, <2>3
<1>2. K = Sublist(list, S)
  BY <1>1 DEF Known
<1>3. c \in Nat /\ (c = 0 <=> S = {})
  BY <1>1, FS_CardinalityType, FS_EmptySet
<1>4. /\ DOMAIN Sublist(list, S) = 1 .. c
      /\ \A k \in 1 .. c : InOrder(S)[k] \in S /\ Sublist(list, S)[k] = list[InOrder(S)[k]]
  BY <1>1, SublistWorks
<1>5. Sublist(list, S) = [k \in 1 .. c |-> Sublist(list, S)[k]]
  BY DEF Sublist
<1>6. \A k \in 1 .. c : \E i \in 1 .. n : K[k] = list[i] /\ list[i][field] # Null
  BY <1>2, <1>4, ZenonT(30)
<1>7. S = {} <=> \A i \in 1 .. n : list[i][field] = Null
  OBVIOUS
<1> HIDE DEF S, c, K
<1>8. IsList(K, c)
  BY <1>2, <1>5 DEF IsList
<1> QED BY <1>3, <1>6, <1>7, <1>8 DEF K

\* What is known is known.
LEMMA KnownStays ==
  ASSUME NEW n \in Nat, NEW list, IsList(list, n), NEW field
  PROVE  Known(Known(list, field), field) = Known(list, field)
<1> DEFINE K == Known(list, field)
<1>1. PICK c \in Nat : /\ IsList(K, c)
                       /\ \A k \in 1 .. c : \E i \in 1 .. n :
                            K[k] = list[i] /\ list[i][field] # Null
                       /\ c = 0 <=> \A i \in 1 .. n : list[i][field] = Null
  BY KnownWorks
<1> HIDE DEF K
<1>2. DOMAIN K = 1 .. c
  BY <1>1 DEF IsList
<1>3. {k \in DOMAIN K : K[k][field] # Null} = 1 .. c
  <2>1. \A k \in 1 .. c : K[k][field] # Null
    BY <1>1
  <2> QED BY <1>2, <2>1
<1>4. Known(K, field) = Sublist(K, 1 .. c)
  BY <1>3 DEF Known
<1> QED BY <1>1, <1>4, SublistOfAll DEF K

\* A month is shown for the bills that cover a day of it.
LEMMA MonthShows ==
  ASSUME DataInv, NEW i \in DOMAIN buckets
  PROVE  LET m == buckets[i].period
             C == CoveredBy(Bills, m)
         IN  /\ m \in CalendarMonths /\ C # {} /\ ShowsMonth(buckets[i], C, m)
             /\ \A x \in C : IsBill(x) /\ Covers(x, m) /\ x \in Bills
<1> DEFINE b == buckets[i]
           m == b.period
           C == CoveredBy(Bills, m)
<1>1. /\ Lists(parsed, Bills)
      /\ m \in MonthsOf(parsed) /\ m \in CalendarMonths
      /\ b = Bucket(Touching(parsed, m), m)
  <2>1. PICK c \in Nat :
              /\ buckets = [j \in 1 .. c |-> buckets[j]]
              /\ \A j \in 1 .. c :
                   /\ buckets[j].period \in MonthsOf(parsed)
                   /\ buckets[j].period \in CalendarMonths
                   /\ buckets[j] = Bucket(Touching(parsed, buckets[j].period),
                                          buckets[j].period)
    BY BucketsFacts
  <2>2. DOMAIN buckets = 1 .. c
    BY <2>1
  <2>3. i \in 1 .. c
    BY <2>2
  <2> QED BY <2>1, <2>3, BucketsFacts
<1> HIDE DEF b, m
<1>2. C # {} /\ Lists(Touching(parsed, m), C)
  BY <1>1, MonthsOfWorks, TouchingLists
<1>3. ShowsMonth(b, C, m)
  BY <1>1, <1>2, BucketWorks
<1>4. \A x \in C : IsBill(x) /\ Covers(x, m) /\ x \in Bills
  BY <1>2 DEF Lists, CoveredBy
<1> HIDE DEF C
<1> QED BY <1>1, <1>2, <1>3, <1>4 DEF b, m, C

\* The figures of a month: money and kWh are rounded, and a price is known
\* when every bill of the month is metered.
LEMMA MonthFigures ==
  ASSUME DataInv, NEW i \in DOMAIN buckets
  PROVE  /\ OnGrid(buckets[i].cost, MoneyScale) /\ buckets[i].cost # Null
         /\ buckets[i].kwh # Null => OnGrid(buckets[i].kwh, MoneyScale)
         /\ AllMetered(Bills) => buckets[i].effective # Null
<1> DEFINE b == buckets[i]
           m == b.period
           C == CoveredBy(Bills, m)
<1>1. m \in CalendarMonths
  BY MonthShows
<1>2. C # {}
  BY MonthShows
<1>3. ShowsMonth(b, C, m)
  BY MonthShows
<1>4. \A x \in C : IsBill(x) /\ Covers(x, m) /\ x \in Bills
  BY MonthShows
<1> HIDE DEF b, m, C
<1>5. MoneyScale \in Nat \ {0} /\ PriceScale \in Nat \ {0}
  BY CalendarAssumption
<1>6. /\ Cost(C, m) \in Fractions /\ Kwh(C, m) \in Fractions /\ IsFiniteSet(C)
      /\ b.cost = Rounded(Cost(C, m), MoneyScale)
      /\ Metered(C) = {} => b.kwh = Null
      /\ Metered(C) # {} => b.kwh = Rounded(Kwh(C, m), MoneyScale)
      /\ b.effective = IF Metered(C) # {} /\ ~Leq(Kwh(C, m), Zero)
                       THEN Rounded(Over(Cost(C, m), Kwh(C, m)), PriceScale) ELSE Null
  BY <1>3 DEF ShowsMonth
<1>7. OnGrid(b.cost, MoneyScale)
  BY <1>5, <1>6, RoundedOnGrid
<1>8. b.cost # Null
  BY <1>7, AmountsAre DEF OnGrid
<1>9. b.kwh # Null => OnGrid(b.kwh, MoneyScale)
  BY <1>5, <1>6, RoundedOnGrid
<1>10. ASSUME AllMetered(Bills) PROVE b.effective # Null
  <2>1. AllMetered(C)
    BY <1>4, <1>10 DEF AllMetered
  <2>2. Metered(C) = C /\ Above(Kwh(C, m))
    BY <1>1, <1>2, <1>4, <1>6, <2>1, MeteredWorks
  <2> DEFINE k == Kwh(C, m)
             o == Over(Cost(C, m), k)
  <2> HIDE DEF k, o
  <2>3. k \in Fractions /\ k[1] \in Int /\ k[1] > 0 /\ k[2] \in Int
    BY <2>2, FractionParts DEF Above, k
  <2>4. ~Leq(k, Zero)
    BY <2>3, ZeroIsFraction DEF Leq
  <2>5. o \in Fractions
    BY <1>6, <2>3, OverIsFraction DEF o
  <2>6. b.effective = Rounded(o, PriceScale)
    BY <1>2, <1>6, <2>2, <2>4 DEF k, o
  <2>7. Rounded(o, PriceScale) \in Fractions
    BY <1>5, <2>5, RoundedIsNear
  <2> QED BY <2>6, <2>7, AmountsAre
<1> QED BY <1>7, <1>8, <1>9, <1>10 DEF b

\* The sum of what is known of a list of rounded figures is on the grid.
LEMMA SumsStay ==
  ASSUME NEW n \in Nat, NEW list, IsList(list, n), NEW field,
         \A i \in 1 .. n : list[i][field] # Null => OnGrid(list[i][field], MoneyScale)
  PROVE  /\ TotalOf(list, field) \in Fractions
         /\ Rounded(TotalOf(list, field), MoneyScale) = TotalOf(list, field)
         /\ Known(list, field) = <<>> <=> \A i \in 1 .. n : list[i][field] = Null
         /\ TotalOf(Known(list, field), field) = TotalOf(list, field)
         /\ n = 0 => TotalOf(list, field) = Zero
<1> DEFINE K == Known(list, field)
           t == TotalOf(list, field)
<1>1. PICK c \in Nat : /\ IsList(K, c)
                       /\ \A k \in 1 .. c : \E i \in 1 .. n :
                            K[k] = list[i] /\ list[i][field] # Null
                       /\ c = 0 <=> \A i \in 1 .. n : list[i][field] = Null
  BY KnownWorks
<1>2. Known(K, field) = K
  BY KnownStays
<1> HIDE DEF K
<1> DEFINE values == Column(K, field)
<1>3. DOMAIN values = 1 .. c /\ \A k \in 1 .. c : values[k] = K[k][field]
  BY <1>1 DEF IsList, Column
<1>4. t = Total(values)
  BY DEF TotalOf, K
<1>5. TotalOf(K, field) = t
  BY <1>2, <1>4 DEF TotalOf
<1> HIDE DEF values, t
<1>6. MoneyScale \in Nat \ {0} /\ IsFiniteSet(1 .. c)
  BY CalendarAssumption, FS_Interval
<1>7. \A k \in 1 .. c : OnGrid(values[k], MoneyScale)
  BY <1>1, <1>3
<1>8. OnGrid(t, MoneyScale)
  BY <1>3, <1>4, <1>6, <1>7, TotalOnGrid
<1>9. t \in Fractions /\ Rounded(t, MoneyScale) = t
  BY <1>6, <1>8, RoundedStays DEF OnGrid
<1>10. K = <<>> <=> c = 0
  BY <1>1 DEF IsList
<1>11. ASSUME n = 0 PROVE t = Zero
  <2>1. c = 0
    BY <1>1, <1>11
  <2>2. DOMAIN values = {}
    BY <1>3, <2>1
  <2> QED BY <1>4, <2>2, TotalOfNone
<1> QED BY <1>1, <1>5, <1>9, <1>10, <1>11 DEF K, t

\* A tile of the comparison and the KPI over the same window.
LEMMA FiguresAgree ==
  ASSUME NEW n \in Nat, NEW list, IsList(list, n),
         \A i \in 1 .. n : /\ list[i].cost # Null /\ OnGrid(list[i].cost, MoneyScale)
                           /\ list[i].kwh # Null => OnGrid(list[i].kwh, MoneyScale)
  PROVE  /\ WindowTotals(list).cost \in Fractions
         /\ n # 0 => FigureOf("total", list) = WindowTotals(list).cost
         /\ n = 0 => FigureOf("total", list) = Null /\ WindowTotals(list).cost = Zero
         /\ FigureOf("kwh", list) = WindowTotals(list).kwh
<1>1. /\ TotalOf(list, "cost") \in Fractions
      /\ Rounded(TotalOf(list, "cost"), MoneyScale) = TotalOf(list, "cost")
      /\ Known(list, "cost") = <<>> <=> \A i \in 1 .. n : list[i]["cost"] = Null
      /\ n = 0 => TotalOf(list, "cost") = Zero
  <2>1. \A i \in 1 .. n : list[i]["cost"] # Null => OnGrid(list[i]["cost"], MoneyScale)
    OBVIOUS
  <2> QED BY <2>1, SumsStay
<1>2. /\ Rounded(TotalOf(list, "kwh"), MoneyScale) = TotalOf(list, "kwh")
      /\ TotalOf(Known(list, "kwh"), "kwh") = TotalOf(list, "kwh")
  <2>1. \A i \in 1 .. n : list[i]["kwh"] # Null => OnGrid(list[i]["kwh"], MoneyScale)
    OBVIOUS
  <2> QED BY <2>1, SumsStay
<1>3. WindowTotals(list).cost = TotalOf(list, "cost")
  BY <1>1 DEF WindowTotals
<1>4. WindowTotals(list).kwh = IF Known(list, "kwh") = <<>> THEN Null
                               ELSE TotalOf(list, "kwh")
  BY <1>2 DEF WindowTotals
<1>5. FigureOf("total", list) = IF Known(list, "cost") = <<>> THEN Null
                                ELSE TotalOf(list, "cost")
  BY DEF FigureOf, SumOver, FieldOf
<1>6. FigureOf("kwh", list) = IF Known(list, "kwh") = <<>> THEN Null
                              ELSE TotalOf(list, "kwh")
  BY DEF FigureOf, SumOver, FieldOf
<1>7. n # 0 => list[1]["cost"] # Null /\ 1 \in 1 .. n
  OBVIOUS
<1> QED BY <1>1, <1>3, <1>4, <1>5, <1>6, <1>7

\* The tiles of the comparison say what the KPIs of the dashboard say.
LEMMA TilesTellKpis ==
  ASSUME DataInv, buckets # <<>>
  PROVE  TilesAgree(Kpis, TileFigures("total"), TileFigures("kwh"))
<1> DEFINE now    == Trailing(buckets, MonthsPerYear)
           before == BeforeTrailing(buckets, MonthsPerYear)
<1>1. PICK c \in Nat : IsList(buckets, c)
  BY BucketsFacts DEF IsList
<1>2. DOMAIN buckets = 1 .. c /\ c # 0
  BY <1>1 DEF IsList
<1>3. MonthsPerYear \in Nat \ {0}
  BY CalendarAssumption
<1> DEFINE k == IF c <= MonthsPerYear THEN c ELSE MonthsPerYear
<1>4. k \in 0 .. c /\ PartOfList(now, buckets, c - k, k) /\ k # 0
  BY <1>1, <1>2, <1>3, TrailingWorks
<1>5. PICK l \in Nat, a \in Nat : PartOfList(before, buckets, a, l) /\ a + l <= c
  BY <1>1, <1>3, BeforeTrailingWorks
<1> HIDE DEF now, before, k
<1> DEFINE Told(list, n) ==
      \A i \in 1 .. n : /\ list[i].cost # Null /\ OnGrid(list[i].cost, MoneyScale)
                        /\ list[i].kwh # Null => OnGrid(list[i].kwh, MoneyScale)
<1>6. Told(buckets, c)
  BY <1>2, MonthFigures
<1>7. IsList(now, k) /\ Told(now, k) /\ k \in Nat \ {0}
  <2>1. \A i \in 1 .. k : now[i] = buckets[(c - k) + i] /\ (c - k) + i \in 1 .. c
    BY <1>4 DEF PartOfList
  <2> QED BY <1>4, <1>6, <2>1 DEF PartOfList, IsList
<1>8. IsList(before, l) /\ Told(before, l)
  <2>1. \A i \in 1 .. l : before[i] = buckets[a + i] /\ a + i \in 1 .. c
    BY <1>5 DEF PartOfList
  <2> QED BY <1>5, <1>6, <2>1 DEF PartOfList, IsList
<1> DEFINE cost == WindowTotals(now).cost
           paid == WindowTotals(before).cost
           used == WindowTotals(now).kwh
           last == WindowTotals(before).kwh
<1>9. cost \in Fractions /\ FigureOf("total", now) = cost /\ FigureOf("kwh", now) = used
  BY <1>7, FiguresAgree
<1>10. /\ paid \in Fractions /\ FigureOf("kwh", before) = last
       /\ l # 0 => FigureOf("total", before) = paid
       /\ l = 0 => FigureOf("total", before) = Null /\ paid = Zero
  BY <1>8, FiguresAgree
<1> HIDE DEF cost, paid, used, last, Told
<1>11. cost # Null /\ paid # Null
  BY <1>9, <1>10, AmountsAre
<1>12. TrailingComparison(buckets).current = WindowTotals(now)
       /\ TrailingComparison(buckets).cost = Delta(paid, cost)
       /\ TrailingComparison(buckets).kwh = Delta(last, used)
  BY DEF TrailingComparison, now, before, paid, cost, last, used
<1>13. /\ Kpis.spend = cost /\ Kpis.spendPct = Delta(paid, cost).pct
       /\ Kpis.use = used /\ Kpis.usePct = Delta(last, used).pct
  BY <1>12 DEF Kpis, KpisOf, cost, used
<1>14. Delta(paid, cost).pct = PctChange(paid, cost)
  BY <1>11 DEF Delta
<1>15. TileFigures("total") =
         [value |-> cost, delta |-> IF l = 0 THEN Null ELSE PctChange(paid, cost)]
  BY <1>9, <1>10, <1>11 DEF TileFigures, Tile, now, before
<1>16. l = 0 => PctChange(paid, cost) = Null
  BY <1>10 DEF PctChange
<1>17. TileFigures("kwh") = [value |-> used, delta |-> Delta(last, used).pct]
  BY <1>9, <1>10 DEF TileFigures, Tile, Delta, NoDelta, now, before
<1> QED BY <1>13, <1>14, <1>15, <1>16, <1>17 DEF TilesAgree

(***************************************************************************)
(* The screens agree: a month beside the one of a year ago                 *)
(***************************************************************************)
\* Months in order, none twice.
Follow(list, n) == \A i, j \in 1 .. n : i < j => list[i].period < list[j].period
OfCalendar(list, n) == \A i \in 1 .. n : list[i].period \in CalendarMonths

\* A month that is listed is found where it is.
LEMMA MonthIsFound ==
  ASSUME NEW n \in Nat, NEW list, IsList(list, n), Follow(list, n), OfCalendar(list, n),
         NEW i \in 1 .. n
  PROVE  /\ HasMonth(list, list[i].period)
         /\ (CHOOSE j \in DOMAIN list : list[j].period = list[i].period) = i
         /\ FindMonth(list, list[i].period) = list[i]
<1>1. DOMAIN list = 1 .. n
  BY DEF IsList
<1>2. \A j \in 1 .. n : list[j].period \in Int
  BY CalendarFacts DEF OfCalendar
<1>3. ASSUME NEW j \in 1 .. n, list[j].period = list[i].period PROVE j = i
  <2>1. ~(j < i) /\ ~(i < j)
    BY <1>2, <1>3 DEF Follow
  <2> QED BY <2>1
<1>4. HasMonth(list, list[i].period)
  BY <1>1 DEF HasMonth
<1>5. (CHOOSE j \in DOMAIN list : list[j].period = list[i].period) = i
  BY <1>1, <1>3
<1> QED BY <1>4, <1>5 DEF FindMonth

\* The list of months a page has.
LEMMA BucketsList ==
  ASSUME DataInv
  PROVE  /\ Lists(parsed, Bills)
         /\ \E c \in Nat : /\ IsList(buckets, c) /\ Follow(buckets, c)
                           /\ OfCalendar(buckets, c)
                           /\ \A i \in 1 .. c : buckets[i].period \in MonthsOf(parsed)
                           /\ \A m \in MonthsOf(parsed) :
                                \E i \in 1 .. c : buckets[i].period = m
<1>1. PICK c \in Nat :
              /\ buckets = [i \in 1 .. c |-> buckets[i]]
              /\ \A i \in 1 .. c :
                   /\ buckets[i].period \in MonthsOf(parsed)
                   /\ buckets[i].period \in CalendarMonths
                   /\ buckets[i] = Bucket(Touching(parsed, buckets[i].period),
                                          buckets[i].period)
              /\ \A i, j \in 1 .. c : i < j => buckets[i].period < buckets[j].period
              /\ \A m \in MonthsOf(parsed) : \E i \in 1 .. c : buckets[i].period = m
  BY BucketsFacts
<1>2. IsList(buckets, c) /\ Follow(buckets, c) /\ OfCalendar(buckets, c)
  BY <1>1 DEF IsList, Follow, OfCalendar
<1> QED BY <1>1, <1>2, BucketsFacts

\* The month a bill is listed under is one of the months.
LEMMA PeriodIsMonth ==
  ASSUME DataInv, NEW i \in DOMAIN parsed
  PROVE  HasMonth(buckets, PeriodOf(parsed[i]))
<1>1. PICK b \in Bills : parsed[i] = ParseBill(b)
  BY BucketsList DEF Lists
<1>2. IsBill(b)
  BY BucketsList DEF Lists
<1>3. PeriodOf(parsed[i]) = MonthOf(b.period_end)
  BY <1>1, <1>2, ParsedFields DEF PeriodOf
<1> DEFINE m == MonthOf(b.period_end)
<1>4. m \in CalendarMonths /\ Covers(b, m)
  BY <1>2, LastMonthWorks
<1> HIDE DEF m
<1>5. m \in MonthsOf(parsed)
  BY <1>4, BucketsList, MonthsOfWorks DEF CoveredBy
<1>6. PICK c \in Nat : /\ IsList(buckets, c)
                       /\ \A n \in MonthsOf(parsed) : \E j \in 1 .. c : buckets[j].period = n
  BY BucketsList
<1>7. HasMonth(buckets, m)
  BY <1>5, <1>6 DEF HasMonth, IsList
<1> QED BY <1>3, <1>7 DEF m

\* A bill page's cell of a year ago is the change the ribbon shows.
LEMMA CellTellsChange ==
  ASSUME DataInv, NEW m, HasMonth(buckets, m)
  PROVE  LET cell == BillComparisons(buckets, m)["sameMonthLastYear"]
         IN  /\ cell.delta = YoyDelta(buckets, m, "effective")
             /\ HasMonth(buckets, m - MonthsPerYear) /\ AllMetered(Bills)
                  => cell.against # Null
<1> DEFINE n    == m - MonthsPerYear
           cell == BillComparisons(buckets, m)["sameMonthLastYear"]
           now   == FindMonth(buckets, m)
           other == FindMonth(buckets, n)
<1>1. cell = Against(now.effective, other)
  BY DEF BillComparisons, FindMonth
<1>2. PICK c \in Nat : IsList(buckets, c) /\ Follow(buckets, c) /\ OfCalendar(buckets, c)
  BY BucketsList
<1>3. DOMAIN buckets = 1 .. c
  BY <1>2 DEF IsList
<1>4. PICK i \in 1 .. c : buckets[i].period = m
  BY <1>3 DEF HasMonth
<1>5. now = buckets[i]
  BY <1>2, <1>4, MonthIsFound
<1>6. CASE ~HasMonth(buckets, n)
  <2>1. other = NoBucket
    BY <1>6 DEF FindMonth
  <2> QED BY <1>1, <1>6, <2>1 DEF Against, NoComparison, YoyDelta
<1>7. CASE HasMonth(buckets, n)
  <2>1. PICK j \in 1 .. c : buckets[j].period = n
    BY <1>3, <1>7 DEF HasMonth
  <2>2. other = buckets[j]
    BY <1>2, <2>1, MonthIsFound
  <2>3. other.period # Null
    BY <1>2, <2>2, CalendarFacts, CalendarAssumption, SMTT(30) DEF OfCalendar
  <2>4. other # NoBucket
    BY <2>3 DEF NoBucket
  <2>5. YoyDelta(buckets, m, "effective") = Delta(other.effective, now.effective)
    BY <1>7 DEF YoyDelta
  <2> HIDE DEF other, now, cell
  <2>6. cell.delta = Delta(other.effective, now.effective)
    BY <1>1, <2>4 DEF Against, NoComparison, Delta
  <2>7. AllMetered(Bills) => now.effective # Null /\ other.effective # Null
    BY <1>3, <1>5, <2>2, MonthFigures
  <2>8. AllMetered(Bills) => cell.against # Null
    BY <1>1, <2>3, <2>4, <2>7 DEF Against
  <2> QED BY <2>5, <2>6, <2>8 DEF cell, now, other
<1> QED BY <1>6, <1>7

\* The pages of all bills.
LEMMA BillPagesAgree ==
  ASSUME DataInv, NEW screen \in BillScreens
  PROVE  ScreenAgrees(screen)
<1>1. PICK i \in DOMAIN parsed : screen = BillScreen(parsed[i])
  BY DEF BillScreens
<1> DEFINE m == PeriodOf(parsed[i])
<1>2. /\ screen.period = m /\ screen.cells = BillComparisons(buckets, m)
      /\ screen.run.yearAgo = {j \in DOMAIN parsed :
                                 PeriodOf(parsed[j]) = m - MonthsPerYear}
  BY <1>1 DEF BillScreen, BillRun
<1>3. HasMonth(buckets, m)
  BY PeriodIsMonth
<1>4. screen.run.yearAgo # {} => HasMonth(buckets, m - MonthsPerYear)
  BY <1>2, PeriodIsMonth
<1> HIDE DEF m
<1>5. LET cell == BillComparisons(buckets, m)["sameMonthLastYear"]
      IN  /\ cell.delta = YoyDelta(buckets, m, "effective")
          /\ HasMonth(buckets, m - MonthsPerYear) /\ AllMetered(Bills)
               => cell.against # Null
  BY <1>3, CellTellsChange
<1> QED BY <1>2, <1>4, <1>5 DEF ScreenAgrees

\* The ribbon under the price metric shows changes of the price.
LEMMA RibbonTellsChange ==
  ASSUME metricId = "eff", NEW point \in ToSet(Ribbon)
  PROVE  point.pct = YoyDelta(buckets, point.period, "effective").pct
<1>1. ~IsMix /\ FieldOf[metricId] = "effective"
  BY DEF IsMix, FieldOf
<1> DEFINE last12 == Trailing(buckets, MonthsPerYear)
<1>2. Ribbon = [i \in DOMAIN last12 |->
                  [period |-> last12[i].period,
                   pct |-> YoyDelta(buckets, last12[i].period, "effective").pct]]
  BY <1>1 DEF Ribbon
<1>3. PICK i \in DOMAIN last12 : point = Ribbon[i]
  BY <1>2 DEF ToSet
<1> HIDE DEF last12
<1> QED BY <1>2, <1>3

\* A tooltip of the hero chart says the change the ribbon shows, or nothing
\* where the year before is out of its range.
LEMMA TipTellsChange ==
  ASSUME Inv, NEW row \in ToSet(HeroRows)
  PROVE  HeroTip(row.period, "effective").pct
           \in {Null, YoyDelta(buckets, row.period, "effective").pct}
<1>1. CASE granularity # "month"
  BY <1>1 DEF HeroTip, NoDelta
<1>2. CASE granularity = "month"
  <2> DEFINE list == InRange(buckets)
             m == row.period
             n == m - MonthsPerYear
  <2>1. HeroRows = list /\ HeroTip(m, "effective") = YoyDelta(list, m, "effective")
    BY <1>2 DEF HeroRows, HeroTip
  <2>2. PICK c \in Nat : IsList(buckets, c) /\ Follow(buckets, c) /\ OfCalendar(buckets, c)
    BY BucketsList DEF Inv
  <2>3. PICK k \in 0 .. c : /\ list = [i \in 1 .. k |-> buckets[c - k + i]]
                            /\ RangeMonths[range] = Null => k = c
                            /\ c # 0 => k # 0
    BY <2>2, InRangeWorks DEF Inv, ControlsInv, IsList
  <2> HIDE DEF list
  <2>4. ASSUME NEW x, HasMonth(list, x)
        PROVE  HasMonth(buckets, x) /\ FindMonth(list, x) = FindMonth(buckets, x)
    <3>1. DOMAIN list = 1 .. k /\ k \in Nat
      BY <2>3
    <3>2. PICK i \in 1 .. k : list[i].period = x
      BY <2>4, <3>1 DEF HasMonth
    <3>3. \A j \in 1 .. k : c - k + j \in 1 .. c /\ list[j] = buckets[c - k + j]
      BY <2>3
    <3>4. IsList(list, k) /\ OfCalendar(list, k)
      BY <2>2, <2>3, <3>3 DEF IsList, OfCalendar
    <3>5. Follow(list, k)
      BY <2>2, <3>3 DEF Follow
    <3>6. FindMonth(list, x) = list[i]
      BY <3>1, <3>2, <3>4, <3>5, MonthIsFound
    <3> DEFINE j == c - k + i
    <3>7. j \in 1 .. c /\ buckets[j] = list[i]
      BY <3>3
    <3> HIDE DEF j
    <3>8. HasMonth(buckets, buckets[j].period) /\ FindMonth(buckets, buckets[j].period) = buckets[j]
      BY <2>2, <3>7, MonthIsFound
    <3> QED BY <3>2, <3>6, <3>7, <3>8
  <2>5. CASE HasMonth(list, m) /\ HasMonth(list, n)
    BY <2>1, <2>4, <2>5 DEF YoyDelta
  <2>6. CASE ~(HasMonth(list, m) /\ HasMonth(list, n))
    BY <2>1, <2>6 DEF YoyDelta, NoDelta
  <2> QED BY <2>5, <2>6
<1> QED BY <1>1, <1>2

(***************************************************************************)
(* The screens agree: the last bill                                        *)
(***************************************************************************)
\* The list has a bill for each one of the data.
LEMMA ParsedIsList ==
  ASSUME DataInv
  PROVE  \E n \in Nat : IsList(parsed, n)
<1>1. IsRecord(data)
  BY RecordsAreRecords DEF DataInv
<1> DEFINE n == Len(data)
<1>2. n \in Nat /\ DOMAIN data = 1 .. n /\ \A i \in 1 .. n : data[i].period_start \in Int
  BY <1>1, RecordLists, CalendarFacts DEF IsBill
<1> HIDE DEF n
<1>3. PICK p : /\ IsPermutation(p, 1 .. n)
               /\ OldestFirst(data) = [k \in 1 .. n |-> data[p[k]]]
               /\ ParseBills(data) = [k \in 1 .. n |-> ParseBill(data[p[k]])]
               /\ \A k, l \in 1 .. n :
                    k <= l => data[p[k]].period_start <= data[p[l]].period_start
  BY <1>2, ParseBillsWorks
<1> QED BY <1>2, <1>3 DEF IsList, parsed

\* The last bill of the list starts last.
LEMMA LastStartsLast ==
  ASSUME DataInv, parsed # <<>>
  PROVE  \E n \in Nat \ {0}, b \in Bills :
           /\ DOMAIN parsed = 1 .. n /\ IsList(parsed, n) /\ Len(parsed) = n
           /\ Last(parsed) = parsed[n] /\ parsed[n] = ParseBill(b) /\ IsBill(b)
<1>1. Lists(parsed, Bills)
  BY BucketsList
<1>2. PICK n \in Nat : IsList(parsed, n)
  BY ParsedIsList
<1>3. DOMAIN parsed = 1 .. n /\ Len(parsed) = n
  BY <1>2 DEF IsList
<1>4. n # 0
  BY <1>2 DEF IsList
<1>5. Last(parsed) = parsed[n]
  BY <1>3 DEF Last
<1>6. n \in DOMAIN parsed
  BY <1>3, <1>4
<1>7. PICK b \in Bills : parsed[n] = ParseBill(b) /\ IsBill(b)
  BY <1>1, <1>6 DEF Lists
<1> QED BY <1>2, <1>3, <1>4, <1>5, <1>7

\* The least and the greatest of some numbers.
LEMMA EndsOfNumbers ==
  ASSUME NEW S, S \subseteq Int
  PROVE  /\ \A x \in S : (\A y \in S : x <= y) => Min(S) = x
         /\ \A x \in S : (\A y \in S : y <= x) => Max(S) = x
<1>1. ASSUME NEW x \in S, \A y \in S : x <= y PROVE Min(S) = x
  <2>1. \A z \in S : (\A y \in S : z <= y) => z = x
    BY <1>1
  <2> QED BY <1>1, <2>1 DEF Min
<1>2. ASSUME NEW x \in S, \A y \in S : y <= x PROVE Max(S) = x
  <2>1. \A z \in S : (\A y \in S : y <= z) => z = x
    BY <1>2
  <2> QED BY <1>2, <2>1 DEF Max
<1> QED BY <1>1, <1>2

\* Of a place with electricity alone the server has all bills.
LEMMA AllAreFetched ==
  ASSUME DataInv, AllElectric
  PROVE  /\ IsRecord(Fetched) /\ ToSet(Fetched) = Bills
         /\ Bills # {} => 2 * Len(Fetched) + 3 <= Finest
<1>1. {b \in Bills : b.utility_type = "electricity"} = Bills
  BY DEF AllElectric
<1> QED BY <1>1, FetchedWorks

\* Without another bill that ends with it or later, the server takes it too.
LEMMA ServerTakesLast ==
  ASSUME NEW r, IsRecord(r), NEW b \in ToSet(r),
         \A c \in ToSet(r) : c.id # b.id => c.period_end < b.period_end
  PROVE  Summary(r).lastTotal = b.total_amount
<1> DEFINE E == {i \in DOMAIN r : \A j \in DOMAIN r : r[j].period_end <= r[i].period_end}
<1>1. PICK i \in DOMAIN r : r[i] = b
  BY DEF ToSet
<1>2. \A j \in DOMAIN r : r[j] \in ToSet(r) /\ r[j].period_end \in Int
  BY RecordLists, CalendarFacts DEF IsBill
<1>3. i \in Int /\ E \subseteq Int
  BY <1>1, RecordLists
<1>4. ASSUME NEW j \in DOMAIN r, j # i PROVE r[j].period_end < r[i].period_end
  <2>1. r[j].id # b.id
    BY <1>1, <1>4 DEF IsRecord
  <2> QED BY <1>1, <1>2, <2>1
<1>5. i \in E
  BY <1>1, <1>2, <1>4
<1>6. \A j \in E : j = i
  BY <1>1, <1>2, <1>4
<1>7. Summary(r).lastTotal = r[Min(E)].total_amount
  BY DEF Summary
<1> HIDE DEF E
<1>8. Min(E) = i
  <2>1. \A j \in E : i <= j
    BY <1>3, <1>6
  <2> QED BY <1>3, <1>5, <2>1, EndsOfNumbers
<1> QED BY <1>1, <1>7, <1>8

\* The places table has the price of the last bill, and a price for a bill of
\* negative kWh, which has none elsewhere.
LEMMA PriceOrNegative ==
  ASSUME NEW b, IsBill(b), NEW bill, bill = ParseBill(b),
         NEW allIn,
         allIn = IF bill.consumption \in {Null, Zero} THEN Null
                 ELSE Over(bill.total, bill.consumption)
  PROVE  \/ EffectivePrice(bill) = allIn
         \/ NegativeUse(bill) /\ EffectivePrice(bill) = Null
<1> DEFINE kwh == bill.consumption
<1>1. kwh \in Amounts
  BY ParsedFields DEF IsBill
<1>2. CASE kwh = Null
  BY <1>2 DEF EffectivePrice
<1>3. CASE kwh # Null
  <2>1. kwh \in Fractions
    BY <1>1, <1>3, AmountsAre
  <2> HIDE DEF kwh
  <2>2. kwh[1] \in Int /\ kwh[2] \in Nat \ {0}
    BY <2>1, FractionParts
  <2>3. /\ Leq(kwh, Zero) <=> kwh[1] <= 0
        /\ Less(kwh, Zero) <=> kwh[1] < 0
    BY <2>2, ZeroIsFraction DEF Leq, Less
  <2>4. kwh[1] = 0 => kwh = Zero
    <3>1. kwh[1] = 0 => kwh[1] * Zero[2] = Zero[1] * kwh[2]
      BY <2>2, ZeroIsFraction
    <3> QED BY <2>1, <3>1, ZeroIsFraction, FractionsEqual
  <2>5. Leq(Zero, Zero)
    BY ZeroIsFraction DEF Leq
  <2>6. CASE kwh = Zero
    BY <1>3, <2>5, <2>6 DEF EffectivePrice, kwh
  <2>7. CASE kwh[1] > 0
    <3>1. ~Leq(kwh, Zero) /\ kwh # Zero
      BY <2>2, <2>3, <2>5, <2>7
    <3> QED BY <1>3, <3>1 DEF EffectivePrice, kwh
  <2>8. CASE kwh[1] < 0
    <3>1. Leq(kwh, Zero) /\ Less(kwh, Zero)
      BY <2>2, <2>3, <2>8
    <3> QED BY <1>3, <3>1 DEF EffectivePrice, NegativeUse, kwh
  <2> QED BY <2>2, <2>4, <2>6, <2>7, <2>8
<1> QED BY <1>2, <1>3

\* The last bill in the recent list, the KPIs, the places table and the
\* server's summary.
LEMMA LastBillTold ==
  ASSUME DataInv, parsed # <<>>
  PROVE  LastBillAgrees(Recent[1], Kpis)
<1>1. PICK n \in Nat \ {0}, b \in Bills :
        /\ DOMAIN parsed = 1 .. n /\ IsList(parsed, n) /\ Len(parsed) = n
        /\ Last(parsed) = parsed[n] /\ parsed[n] = ParseBill(b) /\ IsBill(b)
  BY LastStartsLast
<1> DEFINE last == Last(parsed)
<1>2. Recent[1].eff = EffectivePrice(last)
      /\ Recent[1].yoy = YoyDelta(buckets, PeriodOf(last), "cost").pct
  <2>1. Min({5, n}) = IF 5 <= n THEN 5 ELSE n
    BY MinOfTwo
  <2>2. 1 \in 1 .. Min({5, Len(parsed)})
    BY <1>1, <2>1
  <2>3. Reverse(parsed)[1] = last
    <3>1. 1 \in 1 .. Len(parsed) /\ (Len(parsed) - 1) + 1 = n
      BY <1>1
    <3> QED BY <1>1, <3>1 DEF Reverse
  <2> HIDE DEF last
  <2> QED BY <2>2, <2>3 DEF Recent
<1>3. Kpis.lastTotal = last.total
      /\ Kpis.lastBillYoy = YoyDelta(buckets, PeriodOf(last), "cost").pct
  BY DEF Kpis, KpisOf, LastBillYoy
<1>4. PlaceRow.allIn = IF last.consumption \in {Null, Zero} THEN Null
                       ELSE Over(last.total, last.consumption)
  BY DEF PlaceRow
<1>5. \/ EffectivePrice(last) = PlaceRow.allIn
      \/ NegativeUse(last) /\ EffectivePrice(last) = Null
  BY <1>1, <1>4, PriceOrNegative
<1>6. ASSUME AllElectric, ~Overtaken PROVE SummaryTiles.lastTotal = last.total
  <2>1. /\ last.id = b.id /\ last.periodEnd = b.period_end /\ last.total = b.total_amount
    BY <1>1, ParsedFields
  <2>2. \A c \in Bills : c.period_end \in Int
    BY BucketsList, CalendarFacts DEF Lists, IsBill
  <2>3. IsRecord(Fetched) /\ ToSet(Fetched) = Bills
    BY <1>6, AllAreFetched
  <2>4. ASSUME NEW c \in Bills, c.id # b.id PROVE c.period_end < b.period_end
    <3>1. ~(c.period_end >= b.period_end)
      BY <1>6, <2>1, <2>4 DEF Overtaken
    <3> QED BY <1>1, <2>2, <3>1
  <2>5. Summary(Fetched).lastTotal = b.total_amount
    BY <1>1, <2>3, <2>4, ServerTakesLast
  <2>6. Fetched # <<>>
    BY <1>1, <2>3 DEF ToSet
  <2> QED BY <2>1, <2>5, <2>6 DEF SummaryTiles
<1> HIDE DEF last
<1> QED BY <1>2, <1>3, <1>5, <1>6 DEF LastBillAgrees, last

(***************************************************************************)
(* The screens agree: the charts of the management page                    *)
(***************************************************************************)
\* No month of a page is null.
LEMMA MonthIsNotNull ==
  ASSUME DataInv, NEW i \in DOMAIN buckets
  PROVE  buckets[i] # Null
<1>1. CASE data \in Records
  <2>1. buckets = BucketsOf[data]
    BY <1>1 DEF DataInv, BucketsOf
  <2>2. buckets[i] \in ToSet(buckets)
    BY DEF ToSet
  <2> QED BY <1>1, <2>1, <2>2, MonthsAssumption
<1>2. CASE data = <<>>
  <2>1. buckets = <<>>
    BY <1>2, NoBillsNoMonths DEF DataInv
  <2> QED BY <2>1
<1> QED BY <1>1, <1>2 DEF DataInv

\* The server's cost of a month is the one on screen, up to a unit of the last
\* place and what Decimals lose.
LEMMA ServedCostIsShown ==
  ASSUME DataInv, AllElectric, NEW m \in CalendarMonths
  PROVE  /\ ServedCost(m) # Null <=> HasMonth(buckets, m)
         /\ HasMonth(buckets, m) =>
              NearTo(ServedCost(m), FindMonth(buckets, m).cost,
                     Plus(HalfMoney, SumSlack(BillsOf(m), m, "total_amount")), MoneyScale)
<1> DEFINE r == Fetched
           B == ToSet(r)
           C == CoveredBy(B, m)
           cost == Cost(C, m)
           slack == SumSlack(C, m, "total_amount")
           shown == FindMonth(buckets, m)
<1>1. IsRecord(r) /\ B = Bills /\ (B # {} => 2 * Len(r) + 3 <= Finest)
  BY AllAreFetched
<1>2. C = BillsOf(m)
  BY <1>1 DEF BillsOf, CoveredBy, Covers
<1>3. ServedCost(m) = MonthlySeries(r, "cost")[m]
  BY DEF ServedCost
<1>4. PICK c \in Nat : /\ IsList(buckets, c) /\ Follow(buckets, c) /\ OfCalendar(buckets, c)
                       /\ \A i \in 1 .. c : buckets[i].period \in MonthsOf(parsed)
                       /\ \A x \in MonthsOf(parsed) : \E i \in 1 .. c : buckets[i].period = x
  BY BucketsList
<1>5. DOMAIN buckets = 1 .. c
  BY <1>4 DEF IsList
<1>6. HasMonth(buckets, m) <=> C # {}
  <2>1. HasMonth(buckets, m) <=> m \in MonthsOf(parsed)
    BY <1>4, <1>5 DEF HasMonth
  <2>2. m \in MonthsOf(parsed) <=> CoveredBy(Bills, m) # {}
    BY BucketsList, MonthsOfWorks
  <2> HIDE DEF B
  <2> QED BY <1>1, <2>1, <2>2
<1>7. CASE C = {}
  <2>1. MonthlySeries(r, "cost")[m] = Null
    BY <1>1, <1>7, MonthlySeriesWorks
  <2> QED BY <1>3, <1>6, <1>7, <2>1
<1>8. CASE C # {}
  <2>1. B # {}
    BY <1>8 DEF CoveredBy
  <2>2. /\ ServedCost(m) \in Fractions /\ slack \in Fractions
        /\ NearTo(ServedCost(m), cost, slack, MoneyScale)
    <3>1. IsRecord(r) /\ 2 * Len(r) + 3 <= Finest /\ CoveredBy(ToSet(r), m) # {}
      BY <1>1, <1>8, <2>1
    <3> HIDE DEF r
    <3>2. /\ MonthlySeries(r, "cost")[m] \in Fractions /\ slack \in Fractions
          /\ NearTo(MonthlySeries(r, "cost")[m], cost, slack, MoneyScale)
      BY <3>1, ServedMonth
    <3> QED BY <1>3, <3>2
  <2>3. PICK i \in DOMAIN buckets : buckets[i].period = m
    BY <1>6, <1>8 DEF HasMonth
  <2>4. shown = buckets[i]
    BY <1>4, <1>5, <2>3, MonthIsFound
  <2>5. ShowsMonth(buckets[i], CoveredBy(Bills, m), m)
    BY <2>3, MonthShows
  <2> HIDE DEF B, shown, r
  <2>6. shown.cost = Rounded(cost, MoneyScale) /\ cost \in Fractions
    BY <1>1, <2>4, <2>5 DEF ShowsMonth
  <2> HIDE DEF cost, slack, C
  <2>7. MoneyScale \in Nat \ {0} /\ HalfMoney = Frac(1, 2 * MoneyScale)
    BY CalendarAssumption DEF HalfMoney
  <2>8. HalfMoney \in Fractions
    BY <2>7, HalfIsAbove DEF HalfOf
  <2>9. IsWithin(Rounded(cost, MoneyScale), cost, HalfMoney)
    BY <2>6, <2>7, <2>8, RoundedIsNear DEF IsWithin
  <2>10. IsWithin(ServedCost(m), cost, Plus(HalfMoney, slack))
    BY <2>2, <2>6, <2>7, <2>8, PlusIsFraction DEF IsWithin, NearTo
  <2>11. IsWithin(ServedCost(m), shown.cost, Plus(Plus(HalfMoney, slack), HalfMoney))
    BY <2>6, <2>9, <2>10, NearSwaps, NearChain
  <2>12. Plus(Plus(HalfMoney, slack), HalfMoney) = Plus(HalfMoney, Plus(HalfMoney, slack))
    <3>1. Plus(HalfMoney, slack) \in Fractions
      BY <2>2, <2>8, PlusIsFraction
    <3> QED BY <2>8, <3>1, PlusCommutes
  <2>13. NearTo(ServedCost(m), shown.cost, Plus(HalfMoney, slack), MoneyScale)
    BY <2>7, <2>11, <2>12 DEF IsWithin, NearTo
  <2>14. ServedCost(m) # Null
    BY <2>2, AmountsAre
  <2> QED BY <1>2, <1>6, <1>8, <2>13, <2>14 DEF slack, shown
<1> QED BY <1>7, <1>8

\* The server's months on their axis are those of fillMonths.
LEMMA MonthRowsFill ==
  ASSUME DataInv, AllElectric
  PROVE  LET chart == MonthRows("cost")
             fill  == FillMonths(buckets)
         IN  /\ DOMAIN chart = DOMAIN fill
             /\ \A i \in DOMAIN fill : RowAgrees(chart[i], buckets[1].period + i - 1, fill[i])
<1> DEFINE points == MonthlySeries(Fetched, "cost")
           known  == {m \in DOMAIN points : points[m] # Null}
           chart  == MonthRows("cost")
           fill   == FillMonths(buckets)
<1>1. PICK c \in Nat : IsList(buckets, c) /\ Follow(buckets, c) /\ OfCalendar(buckets, c)
  BY BucketsList
<1>2. DOMAIN buckets = 1 .. c /\ Len(buckets) = c
  BY <1>1 DEF IsList
<1>3. chart = RowsOf(points, known)
  BY DEF MonthRows, PointRows
<1>4. DOMAIN points = CalendarMonths
  BY DEF MonthlySeries
<1>5. \A m \in CalendarMonths : points[m] = ServedCost(m)
  BY DEF ServedCost
<1> HIDE DEF points, chart
<1>6. ASSUME NEW m, HasMonth(buckets, m)
      PROVE  \E i \in 1 .. c : /\ buckets[i].period = m /\ FindMonth(buckets, m) = buckets[i]
                               /\ buckets[i] # Null
  <2>1. PICK i \in 1 .. c : buckets[i].period = m
    BY <1>2, <1>6 DEF HasMonth
  <2>2. FindMonth(buckets, m) = buckets[i]
    BY <1>1, <2>1, MonthIsFound
  <2>3. buckets[i] # Null
    BY <1>2, MonthIsNotNull
  <2> QED BY <2>1, <2>2, <2>3
<1>7. known = {m \in CalendarMonths : HasMonth(buckets, m)}
  <2>1. \A m \in CalendarMonths : points[m] # Null <=> HasMonth(buckets, m)
    BY <1>5, ServedCostIsShown
  <2> QED BY <1>4, <2>1
<1> HIDE DEF known
<1>8. CASE c = 0
  <2>1. buckets = <<>> /\ \A m : ~HasMonth(buckets, m)
    BY <1>1, <1>2, <1>8 DEF IsList, HasMonth
  <2>2. known = {}
    BY <1>7, <2>1
  <2>3. RowsOf(points, known) = <<>>
    BY <2>2 DEF RowsOf
  <2>4. fill = <<>>
    BY <2>1 DEF FillMonths
  <2> HIDE DEF fill
  <2>5. chart = <<>> /\ DOMAIN chart = DOMAIN fill /\ DOMAIN fill = {}
    BY <1>3, <2>3, <2>4
  <2> QED BY <2>5 DEF fill, chart
<1>9. CASE c # 0
  <2> DEFINE first == buckets[1].period
             last  == Last(buckets).period
             size  == last - first + 1
  <2>1. 1 \in 1 .. c /\ c \in 1 .. c
    BY <1>9
  <2>2. \A i \in 1 .. c : HasMonth(buckets, buckets[i].period)
                          /\ buckets[i].period \in CalendarMonths
                          /\ buckets[i].period \in Int
    <3>1. \A i \in 1 .. c : HasMonth(buckets, buckets[i].period)
      BY <1>1, MonthIsFound
    <3>2. \A i \in 1 .. c : buckets[i].period \in CalendarMonths
      BY <1>1 DEF OfCalendar
    <3>3. \A m \in CalendarMonths : m \in Int
      BY CalendarFacts
    <3> QED BY <3>1, <3>2, <3>3
  <2>3. Last(buckets) = buckets[c] /\ buckets # <<>>
    BY <1>1, <1>2, <1>9 DEF Last
  <2>4. first \in known /\ last \in known /\ first \in CalendarMonths /\ last \in CalendarMonths
    BY <1>7, <2>1, <2>2, <2>3
  <2>5. ASSUME NEW m \in known PROVE first <= m /\ m <= last
    <3>1. PICK i \in 1 .. c : buckets[i].period = m
      BY <1>6, <1>7
    <3>2. /\ 1 < i => buckets[1].period < buckets[i].period
          /\ i < c => buckets[i].period < buckets[c].period
      BY <1>1, <2>1 DEF Follow
    <3>3. i = 1 \/ 1 < i
      OBVIOUS
    <3>4. i = c \/ i < c
      OBVIOUS
    <3> QED BY <2>1, <2>2, <2>3, <3>1, <3>2, <3>3, <3>4
  <2>6. known \subseteq Int
    BY <1>7, CalendarFacts
  <2> HIDE DEF first, last
  <2>7. Min(known) = first /\ Max(known) = last
    BY <2>4, <2>5, <2>6, EndsOfNumbers
  <2>8. RowsOf(points, known) =
          [i \in 1 .. size |-> [period |-> first + i - 1, value |-> points[first + i - 1]]]
    <3>1. known # {}
      BY <2>4
    <3> QED BY <2>7, <3>1 DEF RowsOf, RowsBetween
  <2>9. fill = [i \in 1 .. size |-> IF HasMonth(buckets, first + i - 1)
                                    THEN FindMonth(buckets, first + i - 1) ELSE Null]
    BY <2>3 DEF FillMonths, first, last
  <2>10. first \in Int /\ last \in Int
    BY <2>4, <2>6
  <2>11. ASSUME NEW i \in 1 .. size
         PROVE  RowAgrees(chart[i], first + i - 1, fill[i])
    <3> DEFINE m == first + i - 1
    <3>1. m \in CalendarMonths
      BY <2>4, <2>10, CalendarFacts
    <3>2. fill[i] = IF HasMonth(buckets, m) THEN FindMonth(buckets, m) ELSE Null
      <4> HIDE DEF fill
      <4> QED BY <2>9
    <3>3. chart[i].period = m /\ chart[i].value = ServedCost(m)
      <4>1. chart[i] = [period |-> m, value |-> points[m]]
        BY <1>3, <2>8
      <4> HIDE DEF m
      <4> QED BY <1>5, <3>1, <4>1
    <3> HIDE DEF m, fill
    <3>4. CASE HasMonth(buckets, m)
      <4>1. fill[i] = FindMonth(buckets, m) /\ fill[i] # Null
        BY <1>6, <3>2, <3>4
      <4> QED BY <3>1, <3>3, <3>4, <4>1, ServedCostIsShown DEF RowAgrees, m
    <3>5. CASE ~HasMonth(buckets, m)
      <4>1. fill[i] = Null
        BY <3>2, <3>5
      <4> QED BY <3>1, <3>3, <3>5, <4>1, ServedCostIsShown DEF RowAgrees, m
    <3> QED BY <3>4, <3>5
  <2>12. DOMAIN fill = 1 .. size
    <3> HIDE DEF fill
    <3> QED BY <2>9
  <2> HIDE DEF fill, size
  <2>13. DOMAIN chart = 1 .. size
    BY <1>3, <2>8 DEF size
  <2> QED BY <2>11, <2>12, <2>13 DEF fill, chart, first, size
<1> QED BY <1>8, <1>9

\* The server's points of the bills are those of the dashboard.
LEMMA BillPointsMatch ==
  ASSUME NEW r, NEW P, Lists(P, ToSet(r))
  PROVE  {<<p.id, p.value>> : p \in BillSeries(r, "cost")} =
           {<<p.billIds[1], Rounded(p.cost, MoneyScale)>> : p \in ToSet(BillsAsPoints(P))}
<1> DEFINE B == ToSet(r)
           shown == {<<b.id, Rounded(b.total_amount, MoneyScale)>> : b \in B}
           points == BillsAsPoints(P)
<1>1. BillSeries(r, "cost") =
        {[id |-> b.id, period |-> b.period_end,
          value |-> Rounded(b.total_amount, MoneyScale)] : b \in B}
  BY DEF BillSeries
<1> HIDE DEF B
<1>2. {<<p.id, p.value>> : p \in BillSeries(r, "cost")} = shown
  <2> DEFINE point == [b \in B |-> [id |-> b.id, period |-> b.period_end,
                                    value |-> Rounded(b.total_amount, MoneyScale)]]
  <2>1. BillSeries(r, "cost") = {point[b] : b \in B}
    BY <1>1
  <2>2. \A b \in B : /\ point[b].id = b.id
                     /\ point[b].value = Rounded(b.total_amount, MoneyScale)
    OBVIOUS
  <2> HIDE DEF point
  <2> QED BY <2>1, <2>2
<1>3. DOMAIN points = DOMAIN P
  BY DEF BillsAsPoints
<1>4. \A i \in DOMAIN P : points[i].cost = P[i].total /\ points[i].billIds = <<P[i].id>>
  BY DEF BillsAsPoints
<1> HIDE DEF points
<1>5. ASSUME NEW i \in DOMAIN P
      PROVE  <<points[i].billIds[1], Rounded(points[i].cost, MoneyScale)>> \in shown
  <2>1. PICK b \in B : P[i] = ParseBill(b)
    BY DEF Lists, B
  <2>2. P[i].id = b.id /\ P[i].total = b.total_amount
    BY <2>1, ParsedFields DEF Lists, B
  <2> QED BY <1>4, <2>2
<1>6. ASSUME NEW b \in B
      PROVE  \E i \in DOMAIN P : <<b.id, Rounded(b.total_amount, MoneyScale)>> =
                                   <<points[i].billIds[1], Rounded(points[i].cost, MoneyScale)>>
  <2>1. PICK i \in DOMAIN P : P[i] = ParseBill(b)
    BY DEF Lists, B
  <2>2. P[i].id = b.id /\ P[i].total = b.total_amount
    BY <2>1, ParsedFields DEF Lists, B
  <2> QED BY <1>4, <2>2
<1>7. ToSet(points) = {points[i] : i \in DOMAIN P}
  BY <1>3 DEF ToSet
<1>8. {<<p.billIds[1], Rounded(p.cost, MoneyScale)>> : p \in ToSet(points)} = shown
  BY <1>5, <1>6, <1>7
<1> QED BY <1>2, <1>8 DEF points

\* What the management page draws.
LEMMA ChartsTell ==
  ASSUME Inv, AllElectric
  PROVE  ChartAgrees(PlaceCharts["cost"], FillMonths(buckets))
<1>1. PlaceCharts["cost"] = SeriesChart("cost")
  BY DEF PlaceCharts
<1>2. CASE granularity = "month"
  BY <1>1, <1>2, MonthRowsFill DEF Inv, SeriesChart, ChartAgrees
<1>3. CASE granularity = "bill"
  <2>1. SeriesChart("cost") = BillSeries(Fetched, "cost")
    BY <1>3 DEF SeriesChart
  <2>2. Lists(parsed, ToSet(Fetched))
    BY BucketsList, AllAreFetched DEF Inv
  <2>3. {<<p.id, p.value>> : p \in BillSeries(Fetched, "cost")} =
           {<<p.billIds[1], Rounded(p.cost, MoneyScale)>> : p \in ToSet(BillsAsPoints(parsed))}
    BY <2>2, BillPointsMatch
  <2> QED BY <1>1, <1>3, <2>1, <2>3 DEF ChartAgrees
<1> QED BY <1>2, <1>3 DEF Inv, ControlsInv

\* Every screen, from the months and the bills of the data.
LEMMA InvScreensAgree == Inv => ScreensAgree
<1> SUFFICES ASSUME Inv PROVE ScreensAgree
  OBVIOUS
<1>1. DataInv
  BY DEF Inv
<1>2. Home /\ buckets # <<>> => TilesAgree(Kpis, TileFigures("total"), TileFigures("kwh"))
  BY <1>1, TilesTellKpis
<1>3. Home => \A screen \in BillScreens : ScreenAgrees(screen)
  BY <1>1, BillPagesAgree
<1>4. page = "compare" /\ metricId = "eff" => \A point \in ToSet(Ribbon) :
        point.pct = YoyDelta(buckets, point.period, "effective").pct
  BY RibbonTellsChange
<1>5. Home => \A row \in ToSet(HeroRows) :
        HeroTip(row.period, "effective").pct
          \in {Null, YoyDelta(buckets, row.period, "effective").pct}
  BY TipTellsChange
<1>6. Home /\ parsed # <<>> => LastBillAgrees(Recent[1], Kpis)
  BY <1>1, LastBillTold
<1>7. page = "manage" /\ AllElectric => ChartAgrees(PlaceCharts["cost"], FillMonths(buckets))
  BY ChartsTell
<1> QED BY <1>2, <1>3, <1>4, <1>5, <1>6, <1>7 DEF ScreensAgree

\* One figure has one value on every screen that shows it, for any record of
\* bills, any calendar, zone and scale of rounding: what a tile, a KPI, a
\* cell, a ribbon, a table and a tooltip say of the same window, month or bill
\* is the same number.  So do the server's charts and its last bill, of a place
\* that has electricity bills alone; a month of a chart may differ by a unit of
\* the last place and what Decimals lose.
THEOREM ScreensTellTheSame == Spec => []ScreensAgree
BY Invariant, InvScreensAgree, PTL

(***************************************************************************)
(* What the comparison charts draw                                         *)
(***************************************************************************)
\* A month is so many years and months from the start of the calendar.
LEMMA MonthInItsYear ==
  ASSUME NEW m \in CalendarMonths
  PROVE  /\ m \in Nat \ {0} /\ YearOf(m) \in Nat /\ MonthInYear(m) \in 1 .. MonthsPerYear
         /\ m = YearOf(m) * MonthsPerYear + MonthInYear(m)
<1> DEFINE n == MonthsPerYear
           d == m - 1
<1>1. m \in Nat \ {0}
  BY CalendarFacts
<1>2. n \in Nat \ {0}
  BY CalendarAssumption
<1>3. d \in Nat
  BY <1>1
<1> HIDE DEF n, d
<1>4. d \div n \in Nat /\ d % n \in 0 .. n - 1 /\ d = n * (d \div n) + (d % n)
  BY <1>2, <1>3, DivMod
<1>5. YearOf(m) = d \div n /\ MonthInYear(m) = (d % n) + 1
  BY DEF YearOf, MonthInYear, d, n
<1>6. n * (d \div n) = (d \div n) * n
  BY <1>2, <1>4
<1>7. m = d + 1
  BY <1>1 DEF d
<1> QED BY <1>1, <1>2, <1>4, <1>5, <1>6, <1>7 DEF n

\* A whole number of years, told from the months that are left of it.
LEMMA YearsApart ==
  ASSUME NEW y \in Int, NEW z \in Int, NEW n \in Nat \ {0}, y < z
  PROVE  y * n + n <= z * n
<1>1. y + 1 <= z
  OBVIOUS
<1>2. (y + 1) * n <= z * n
  BY <1>1
<1>3. (y + 1) * n = y * n + n
  OBVIOUS
<1>4. (y + 1) * n \in Int /\ z * n \in Int /\ y * n \in Int
  OBVIOUS
<1> QED BY <1>2, <1>3, <1>4

\* Months of one name lie whole years apart ...
LEMMA NamesAYearApart ==
  ASSUME NEW m \in CalendarMonths, NEW o \in CalendarMonths, m < o,
         MonthInYear(m) = MonthInYear(o)
  PROVE  m + MonthsPerYear <= o
<1> DEFINE n == MonthsPerYear
           y == YearOf(m)
           z == YearOf(o)
           r == MonthInYear(m)
<1>1. /\ y \in Nat /\ z \in Nat /\ r \in 1 .. n
      /\ m = y * n + r /\ o = z * n + r
  BY MonthInItsYear
<1>2. n \in Nat \ {0}
  BY CalendarAssumption
<1> HIDE DEF n, y, z, r
<1>3. y * n \in Int /\ z * n \in Int /\ r \in Int
  BY <1>1, <1>2
<1>4. y * n < z * n
  BY <1>1, <1>3
<1>5. y < z
  <2>1. ASSUME z < y PROVE z * n + n <= y * n
    BY <1>1, <1>2, <2>1, YearsApart
  <2>2. y # z
    BY <1>4, <1>3
  <2>3. ~(z < y)
    BY <1>2, <1>3, <1>4, <2>1
  <2> QED BY <1>1, <2>2, <2>3
<1>6. y * n + n <= z * n
  BY <1>1, <1>2, <1>5, YearsApart
<1> QED BY <1>1, <1>2, <1>3, <1>6 DEF n

\* ... and two of one year are one.
LEMMA OneOfAYear ==
  ASSUME NEW m \in CalendarMonths, NEW o \in CalendarMonths,
         MonthInYear(m) = MonthInYear(o), YearOf(m) = YearOf(o)
  PROVE  m = o
BY MonthInItsYear

\* The month a year and a number in it stand for.
LEMMA YearAndMonth ==
  ASSUME NEW m \in CalendarMonths, NEW y \in Int, NEW r \in 1 .. MonthsPerYear,
         m = y * MonthsPerYear + r
  PROVE  y = YearOf(m) /\ r = MonthInYear(m)
<1> DEFINE n == MonthsPerYear
           z == YearOf(m)
           s == MonthInYear(m)
<1>1. z \in Nat /\ s \in 1 .. n /\ m = z * n + s
  BY MonthInItsYear
<1>2. n \in Nat \ {0} /\ r \in 1 .. n /\ m = y * n + r
  BY CalendarAssumption
<1> HIDE DEF n, z, s
<1>3. y * n \in Int /\ z * n \in Int
  BY <1>1, <1>2
<1>4. ASSUME y < z PROVE y * n + n <= z * n
  BY <1>1, <1>2, <1>4, YearsApart
<1>5. ASSUME z < y PROVE z * n + n <= y * n
  BY <1>1, <1>2, <1>5, YearsApart
<1>6. y = z
  BY <1>1, <1>2, <1>3, <1>4, <1>5
<1> QED BY <1>1, <1>2, <1>3, <1>6 DEF z, s

\* A list of months without gaps, the first of which follows p.
IsRun(list, k, p) ==
  /\ k \in Nat /\ p \in Int /\ IsList(list, k) /\ OfCalendar(list, k)
  /\ \A i \in 1 .. k : list[i].period = p + i

\* Its months are found where they are.
LEMMA RunMonths ==
  ASSUME NEW k, NEW p, NEW list, IsRun(list, k, p), NEW m \in Int
  PROVE  /\ HasMonth(list, m) <=> m - p \in 1 .. k
         /\ ValueIn(list, m) = IF m - p \in 1 .. k THEN Select(metricId, list[m - p]) ELSE Null
         /\ m - p \in 1 .. k => m \in CalendarMonths /\ list[m - p].period = m
<1>1. /\ k \in Nat /\ p \in Int /\ IsList(list, k) /\ OfCalendar(list, k)
      /\ \A i \in 1 .. k : list[i].period = p + i
      /\ DOMAIN list = 1 .. k
  BY DEF IsRun, IsList
<1>2. Follow(list, k)
  BY <1>1 DEF Follow
<1>3. ASSUME m - p \in 1 .. k
      PROVE  /\ HasMonth(list, m) /\ FindMonth(list, m) = list[m - p]
             /\ m \in CalendarMonths /\ list[m - p].period = m
  <2> DEFINE i == m - p
  <2>1. i \in 1 .. k /\ list[i].period = m
    BY <1>1, <1>3
  <2> HIDE DEF i
  <2>2. HasMonth(list, list[i].period) /\ FindMonth(list, list[i].period) = list[i]
    BY <1>1, <1>2, <2>1, MonthIsFound
  <2> QED BY <1>1, <2>1, <2>2 DEF i, OfCalendar
<1>4. ASSUME HasMonth(list, m) PROVE m - p \in 1 .. k
  <2>1. PICK i \in 1 .. k : list[i].period = m
    BY <1>1, <1>4 DEF HasMonth
  <2>2. m = p + i
    BY <1>1, <2>1
  <2> QED BY <1>1, <2>2
<1> QED BY <1>3, <1>4 DEF ValueIn

\* The tooltip tells a row that no row before it has the label of.
LEMMA TipTells ==
  ASSUME NEW chart, NEW r \in Nat, DOMAIN chart.rows = 1 .. r, NEW i \in 1 .. r,
         \A j \in 1 .. r : chart.rows[j].x = chart.rows[i].x => i <= j
  PROVE  TipRow(chart, chart.rows[i].x) = chart.rows[i]
<1> DEFINE S == {j \in DOMAIN chart.rows : chart.rows[j].x = chart.rows[i].x}
<1>1. S \subseteq Int /\ i \in S /\ \A j \in S : i <= j
  OBVIOUS
<1> HIDE DEF S
<1>2. Min(S) = i
  BY <1>1, EndsOfNumbers
<1> QED BY <1>2 DEF TipRow, S

\* The year before lies a year before.
LEMMA YearOnYearTells ==
  ASSUME NEW k, NEW p, NEW list, IsRun(list, k, p), k # 0, modeId = "yoy",
         NEW chart, chart = BuildYoy(list, metricId, "full")
  PROVE  ChartTells(chart, list)
<1> DEFINE n       == MonthsPerYear
           current == Trailing(list, n)
           prior   == BeforeTrailing(list, n)
           q       == IF k <= n THEN k ELSE n
<1>1. /\ k \in Nat /\ p \in Int /\ IsList(list, k) /\ OfCalendar(list, k)
      /\ \A i \in 1 .. k : list[i].period = p + i
      /\ Len(list) = k /\ Last(list) = list[k]
  BY DEF IsRun, IsList, Last
<1>2. n \in Nat \ {0}
  BY CalendarAssumption
<1> HIDE DEF n
<1>3. q \in 1 .. k /\ q <= n
  BY <1>1, <1>2
<1>4. PartOfList(current, list, k - q, q)
  BY <1>1, <1>2, TrailingWorks DEF q
<1>5. PICK l \in Nat, a \in Nat : /\ PartOfList(prior, list, a, l)
                                  /\ a + l <= k
                                  /\ k <= n => l = 0
                                  /\ k >= 2 * n => l = n /\ a = k - 2 * n
  <2>1. k \in Nat /\ IsList(list, k)
    BY <1>1
  <2> QED BY <1>2, <2>1, BeforeTrailingWorks, Zenon
<1> HIDE DEF current, prior
<1>6. /\ chart.rows = [i \in DOMAIN current |->
           [x     |-> MonthInYear(current[i].period),
            value |-> [current |-> Select(metricId, current[i]),
                       prior   |-> IF i \in DOMAIN prior
                                   THEN Select(metricId, prior[i]) ELSE Null]]]
  BY DEF BuildYoy, current, prior, n
<1>7. /\ DOMAIN current = 1 .. q /\ \A i \in 1 .. q : current[i] = list[k - q + i]
      /\ DOMAIN prior = 1 .. l /\ \A i \in 1 .. l : prior[i] = list[a + i]
  BY <1>4, <1>5 DEF PartOfList
<1> DEFINE month(i) == Last(list).period - Len(chart.rows) + i
<1>8. /\ DOMAIN chart.rows = 1 .. q /\ Len(chart.rows) = q
      /\ \A i \in 1 .. q :
           /\ chart.rows[i].x = MonthInYear(current[i].period)
           /\ chart.rows[i].value =
                [current |-> Select(metricId, current[i]),
                 prior   |-> IF i \in 1 .. l THEN Select(metricId, prior[i]) ELSE Null]
  BY <1>3, <1>6, <1>7
<1> HIDE DEF q
<1>9. ASSUME NEW i \in 1 .. q
      PROVE  /\ month(i) = p + (k - q + i) /\ k - q + i \in 1 .. k
             /\ month(i) \in CalendarMonths /\ current[i].period = month(i)
  <2>1. k - q + i \in 1 .. k /\ k \in 1 .. k
    BY <1>1, <1>3
  <2> DEFINE j == k - q + i
  <2> HIDE DEF j
  <2>2. list[j].period = p + j /\ list[k].period = p + k /\ list[j].period \in CalendarMonths
    BY <1>1, <2>1 DEF OfCalendar, j
  <2>3. month(i) = p + j
    BY <1>1, <1>3, <1>8, <2>2 DEF j
  <2> QED BY <1>7, <2>1, <2>2, <2>3 DEF j
<1> HIDE DEF month
<1>10. ASSUME NEW i \in 1 .. q PROVE TipRow(chart, chart.rows[i].x) = chart.rows[i]
  <2>1. ASSUME NEW j \in 1 .. q, chart.rows[j].x = chart.rows[i].x PROVE i <= j
    <3>0. /\ chart.rows[j].x = MonthInYear(current[j].period) /\ current[j].period = month(j)
          /\ chart.rows[i].x = MonthInYear(current[i].period) /\ current[i].period = month(i)
      BY <1>8, <1>9
    <3>1. MonthInYear(month(j)) = MonthInYear(month(i))
      BY <2>1, <3>0
    <3>2. ASSUME j < i PROVE month(j) + n <= month(i)
      <4>1. month(j) < month(i)
        BY <1>1, <1>3, <1>9, <3>2
      <4> QED BY <1>9, <3>1, <4>1, NamesAYearApart DEF n
    <3>3. month(i) - month(j) = i - j /\ i - j < n
      BY <1>1, <1>2, <1>3, <1>9
    <3>4. month(i) \in Int /\ month(j) \in Int
      BY <1>1, <1>3, <1>9
    <3> QED BY <1>2, <3>2, <3>3, <3>4
  <2>2. q \in Nat /\ DOMAIN chart.rows = 1 .. q
    BY <1>1, <1>3, <1>8
  <2> QED BY <2>1, <2>2, TipTells
<1>11. ASSUME k <= n \/ k >= 2 * n, NEW i \in 1 .. q
       PROVE  TellsYearOnYear(chart, list, month(i), i)
  <2> DEFINE m == month(i)
  <2>1. m \in Int /\ m - n \in Int /\ m - p = k - q + i /\ m - p \in 1 .. k
    BY <1>1, <1>2, <1>3, <1>9, SMTT(30)
  <2> HIDE DEF m
  <2>2. ValueIn(list, m) = Select(metricId, current[i])
    BY <1>7, <2>1, RunMonths
  <2>3. ValueIn(list, m - n) = IF i \in 1 .. l THEN Select(metricId, prior[i]) ELSE Null
    <3>1. ValueIn(list, m - n) = IF (m - n) - p \in 1 .. k
                                 THEN Select(metricId, list[(m - n) - p]) ELSE Null
      BY <2>1, RunMonths
    <3>2. CASE k <= n
      <4>1. (m - n) - p \notin 1 .. k /\ i \notin 1 .. l
        BY <1>1, <1>2, <1>5, <2>1, <3>2
      <4> QED BY <3>1, <4>1
    <3>3. CASE k >= 2 * n
      <4>1. l = n /\ a = k - 2 * n /\ q = n
        BY <1>1, <1>2, <1>5, <3>3 DEF q
      <4>2. (m - n) - p = a + i /\ a + i \in 1 .. k /\ i \in 1 .. l
        BY <1>1, <1>2, <2>1, <3>3, <4>1
      <4>3. prior[i] = list[(m - n) - p]
        BY <1>7, <4>2
      <4> QED BY <3>1, <4>2, <4>3
    <3> QED BY <1>11, <3>2, <3>3
  <2>4. chart.rows[i].value = [current |-> ValueIn(list, m), prior |-> ValueIn(list, m - n)]
    BY <1>8, <2>2, <2>3
  <2>5. CompareChart(chart).band = {j \in DOMAIN chart.rows :
                                      /\ chart.rows[j].value.current # Null
                                      /\ chart.rows[j].value.prior # Null}
    BY DEF CompareChart
  <2>6. i \in CompareChart(chart).band <=>
          Null \notin {ValueIn(list, m), ValueIn(list, m - n)}
    BY <1>8, <2>4, <2>5
  <2>7. chart.rows[i].x = MonthInYear(m)
    BY <1>8, <1>9 DEF m
  <2> QED BY <2>4, <2>6, <2>7 DEF TellsYearOnYear, m, n
<1> QED BY <1>1, <1>8, <1>10, <1>11 DEF ChartTells, month, n

\* A year's months are those of its number.
LEMMA YearsTell ==
  ASSUME NEW k, NEW p, NEW list, IsRun(list, k, p), k # 0, modeId = "years",
         list = InRange(buckets),
         NEW chart, chart = BuildYears(list, metricId, SelectedYears, "full")
  PROVE  ChartTells(chart, list)
<1> DEFINE n == MonthsPerYear
<1>1. n \in Nat \ {0}
  BY CalendarAssumption
<1>2. DrawnYears = (IF SelectedYears = {} THEN Years(list) ELSE SelectedYears) \cap Years(list)
  BY DEF DrawnYears, SelectedYears, AvailableYears
<1>3. /\ chart.series = DrawnYears
      /\ chart.rows = [month \in 1 .. n |->
           [x |-> month,
            value |-> [year \in DrawnYears |->
                         IF HasMonth(list, year * n + month)
                         THEN Select(metricId, FindMonth(list, year * n + month)) ELSE Null]]]
  BY <1>2 DEF BuildYears, n
<1> DEFINE cell(y, i) == ValueIn(list, y * n + i)
<1> HIDE DEF n
<1>4. /\ DOMAIN chart.rows = 1 .. n
      /\ \A i \in 1 .. n : /\ chart.rows[i].x = i
                           /\ \A y \in DrawnYears : chart.rows[i].value[y] = cell(y, i)
  <2>1. chart.rows = [month \in 1 .. n |->
           [x |-> month, value |-> [year \in DrawnYears |-> cell(year, month)]]]
    BY <1>3 DEF ValueIn
  <2> HIDE DEF cell
  <2>2. /\ DOMAIN chart.rows = 1 .. n
        /\ \A i \in 1 .. n :
             chart.rows[i] = [x |-> i, value |-> [year \in DrawnYears |-> cell(year, i)]]
    BY <2>1, Zenon
  <2>3. ASSUME NEW i \in 1 .. n
        PROVE  /\ chart.rows[i].x = i
               /\ \A y \in DrawnYears : chart.rows[i].value[y] = cell(y, i)
    <3> DEFINE cells == [year \in DrawnYears |-> cell(year, i)]
    <3>0. chart.rows[i] = [x |-> i, value |-> cells]
      BY <2>2
    <3>1. chart.rows[i].x = i /\ chart.rows[i].value = cells
      <4> HIDE DEF cells
      <4> QED BY <3>0
    <3> QED BY <3>1, Zenon
  <2> QED BY <2>2, <2>3
<1>5. ASSUME NEW i \in 1 .. n PROVE TipRow(chart, chart.rows[i].x) = chart.rows[i]
  <2>1. \A j \in 1 .. n : chart.rows[j].x = chart.rows[i].x => i <= j
    BY <1>4
  <2> QED BY <1>1, <1>4, <2>1, TipTells
<1>6. ASSUME NEW m \in CalendarMonths, YearOf(m) \in DrawnYears
      PROVE  chart.rows[MonthInYear(m)].value[YearOf(m)] = ValueIn(list, m)
  <2>1. MonthInYear(m) \in 1 .. n /\ m = YearOf(m) * n + MonthInYear(m)
    BY MonthInItsYear DEF n
  <2> QED BY <1>4, <1>6, <2>1
<1>7. TellsYears(chart, list, DrawnYears)
  BY <1>3, <1>6 DEF TellsYears
<1> QED BY <1>4, <1>5, <1>7 DEF ChartTells

\* A month's change is from the month before it.
LEMMA ChangesTell ==
  ASSUME NEW k, NEW p, NEW list, IsRun(list, k, p), k # 0, modeId = "mom",
         NEW chart, chart = BuildMom(list, metricId, "full")
  PROVE  ChartTells(chart, list)
<1> DEFINE n == MonthsPerYear
           month(i) == Last(list).period - Len(chart.rows) + i
<1>1. /\ k \in Nat \ {0} /\ p \in Int /\ IsList(list, k) /\ OfCalendar(list, k)
      /\ \A i \in 1 .. k : list[i].period = p + i
      /\ Len(list) = k /\ Last(list) = list[k]
  BY DEF IsRun, IsList, Last
<1>2. n \in Nat \ {0}
  BY CalendarAssumption
<1>3. Max({0, Len(list) - 1}) = k - 1
  <2>1. k - 1 \in Int /\ 0 \in Int /\ k - 1 >= 0
    BY <1>1
  <2>2. Max({0, k - 1}) = IF 0 >= k - 1 THEN 0 ELSE k - 1
    BY <2>1, MaxOfTwo
  <2> QED BY <1>1, <2>1, <2>2
<1>4. chart.rows = [i \in 1 .. Max({0, Len(list) - 1}) |->
         [x |-> MonthInYear(list[i + 1].period),
          value |-> [change |->
            IF Select(metricId, list[i]) = Null \/ Select(metricId, list[i + 1]) = Null
            THEN Null
            ELSE PctChange(Select(metricId, list[i]), Select(metricId, list[i + 1]))]]]
  BY DEF BuildMom
<1> HIDE DEF n
<1>5. /\ DOMAIN chart.rows = 1 .. k - 1 /\ Len(chart.rows) = k - 1
      /\ \A i \in 1 .. k - 1 :
           /\ chart.rows[i].x = MonthInYear(list[i + 1].period)
           /\ chart.rows[i].value.change =
                Delta(Select(metricId, list[i]), Select(metricId, list[i + 1])).pct
  <2>1. chart.rows = [i \in 1 .. k - 1 |->
         [x |-> MonthInYear(list[i + 1].period),
          value |-> [change |->
            IF Select(metricId, list[i]) = Null \/ Select(metricId, list[i + 1]) = Null
            THEN Null
            ELSE PctChange(Select(metricId, list[i]), Select(metricId, list[i + 1]))]]]
    BY <1>3, <1>4
  <2>2. k - 1 \in Nat
    BY <1>1
  <2>3. \A a, b : Delta(a, b).pct = IF a = Null \/ b = Null THEN Null ELSE PctChange(a, b)
    BY DEF Delta, NoDelta
  <2> QED BY <2>1, <2>2, <2>3
<1>6. ASSUME NEW i \in 1 .. k - 1
      PROVE  /\ i \in 1 .. k /\ i + 1 \in 1 .. k /\ month(i) = p + i + 1 /\ month(i) \in Int
             /\ list[i].period = month(i) - 1 /\ list[i + 1].period = month(i)
             /\ month(i) \in CalendarMonths
  <2>1. i \in 1 .. k /\ i + 1 \in 1 .. k /\ k \in 1 .. k
    BY <1>1
  <2>2. list[k].period = p + k /\ list[i].period = p + i /\ list[i + 1].period = p + (i + 1)
    BY <1>1, <2>1
  <2>3. month(i) = p + k - (k - 1) + i
    <3>1. Last(list).period = p + k
      BY <1>1, <2>2
    <3>2. Len(chart.rows) = k - 1
      BY <1>5
    <3> QED BY <1>1, <3>1, <3>2
  <2>4. list[i + 1].period \in CalendarMonths
    BY <1>1, <2>1 DEF OfCalendar
  <2>5. month(i) = p + i + 1
    BY <1>1, <2>3
  <2> HIDE DEF month
  <2> QED BY <1>1, <2>1, <2>2, <2>4, <2>5
<1>7. ASSUME NEW i \in 1 .. k - 1
      PROVE  chart.rows[i].value.change = Delta(ValueIn(list, month(i) - 1),
                                                ValueIn(list, month(i))).pct
  <2> HIDE DEF month
  <2>1. /\ month(i) - 1 - p = i /\ month(i) - p = i + 1
        /\ month(i) \in Int /\ month(i) - 1 \in Int
    BY <1>1, <1>6, SMTT(30)
  <2>2. ValueIn(list, month(i) - 1) = Select(metricId, list[i])
    BY <1>6, <2>1, RunMonths
  <2>3. ValueIn(list, month(i)) = Select(metricId, list[i + 1])
    BY <1>6, <2>1, RunMonths
  <2> QED BY <1>5, <2>2, <2>3
<1>8. ASSUME NEW i \in 1 .. Min({Len(chart.rows), n})
      PROVE  TipRow(chart, chart.rows[i].x) = chart.rows[i]
  <2> HIDE DEF month
  <2>1. Min({k - 1, n}) = IF k - 1 <= n THEN k - 1 ELSE n
    BY <1>1, <1>2, MinOfTwo
  <2>2. i \in 1 .. k - 1 /\ i <= n
    <3>1. Len(chart.rows) = k - 1
      BY <1>5
    <3>2. i \in 1 .. Min({k - 1, n})
      BY <3>1
    <3> QED BY <1>1, <1>2, <2>1, <3>2
  <2>3. ASSUME NEW j \in 1 .. k - 1, chart.rows[j].x = chart.rows[i].x PROVE i <= j
    <3>1. MonthInYear(month(j)) = MonthInYear(month(i))
      BY <1>5, <1>6, <2>2, <2>3
    <3>2. /\ month(j) = p + j + 1 /\ month(i) = p + i + 1
          /\ month(j) \in CalendarMonths /\ month(i) \in CalendarMonths
      BY <1>6, <2>2
    <3>3. ASSUME j < i PROVE month(j) + n <= month(i)
      <4>1. month(j) < month(i)
        BY <1>1, <2>2, <3>2, <3>3
      <4> QED BY <3>1, <3>2, <4>1, NamesAYearApart DEF n
    <3>4. ~(j < i)
      BY <1>1, <1>2, <2>2, <3>2, <3>3
    <3> QED BY <2>2, <3>4
  <2>4. k - 1 \in Nat
    BY <1>1
  <2> QED BY <1>5, <2>2, <2>3, <2>4, TipTells
<1> QED BY <1>5, <1>7, <1>8 DEF ChartTells, n, month

\* One month of every year there is, and no other.
LEMMA OneMonthTells ==
  ASSUME NEW k, NEW p, NEW list, IsRun(list, k, p), k # 0, modeId = "same",
         NEW chart, chart = BuildSame(list, metricId, sameMonth, "full")
  PROVE  ChartTells(chart, list)
<1> DEFINE S        == {i \in DOMAIN list : MonthInYear(list[i].period) = sameMonth}
           c        == Cardinality(S)
           at(i)    == InOrder(S)[i]
           matching == Sublist(list, S)
<1>1. /\ k \in Nat /\ p \in Int /\ IsList(list, k) /\ OfCalendar(list, k)
      /\ \A i \in 1 .. k : list[i].period = p + i
      /\ DOMAIN list = 1 .. k
  BY DEF IsRun, IsList
<1>2. S \subseteq Int /\ IsFiniteSet(S)
  <2>1. IsFiniteSet(1 .. k)
    BY <1>1, FS_Interval
  <2> QED BY <1>1, <2>1, FS_Subset
<1>3. c \in Nat
  BY <1>2, FS_CardinalityType
<1>4. chart.rows = [i \in DOMAIN matching |->
                      [x |-> YearOf(matching[i].period),
                       value |-> [value |-> Select(metricId, matching[i])]]]
  BY DEF BuildSame
<1>5. /\ DOMAIN matching = 1 .. c
      /\ \A i \in 1 .. c : at(i) \in S /\ matching[i] = list[at(i)]
      /\ \A j \in S : \E i \in 1 .. c : at(i) = j
      /\ \A i, j \in 1 .. c : at(i) = at(j) => i = j
  <2> HIDE DEF S
  <2>1. /\ DOMAIN Sublist(list, S) = 1 .. Cardinality(S)
        /\ \A i \in 1 .. Cardinality(S) : /\ InOrder(S)[i] \in S
                                          /\ Sublist(list, S)[i] = list[InOrder(S)[i]]
    BY <1>2, SublistWorks, Zenon
  <2>2. \A j \in S : \E i \in 1 .. Cardinality(S) : InOrder(S)[i] = j
    BY <1>2, InOrderWorks
  <2>3. \A i, j \in 1 .. Cardinality(S) : InOrder(S)[i] = InOrder(S)[j] => i = j
    BY <1>2, SublistWorks, Zenon
  <2> QED BY <2>1, <2>2, <2>3
<1>6. \A i \in S : /\ i \in 1 .. k /\ list[i].period \in CalendarMonths
                   /\ MonthInYear(list[i].period) = sameMonth /\ list[i].period = p + i
  BY <1>1 DEF OfCalendar
<1>7. \A i \in 1 .. k : MonthInYear(list[i].period) = sameMonth => i \in S
  BY <1>1
<1> HIDE DEF S, c, at, matching
<1>8. /\ DOMAIN chart.rows = 1 .. c
      /\ \A i \in 1 .. c :
           /\ chart.rows[i].x = YearOf(list[at(i)].period)
           /\ chart.rows[i].value.value = Select(metricId, list[at(i)])
  <2>1. DOMAIN chart.rows = 1 .. c
    BY <1>4, <1>5
  <2>2. ASSUME NEW i \in 1 .. c
        PROVE  /\ chart.rows[i].x = YearOf(list[at(i)].period)
               /\ chart.rows[i].value.value = Select(metricId, list[at(i)])
    <3>1. i \in DOMAIN matching /\ matching[i] = list[at(i)]
      BY <1>5
    <3>2. chart.rows[i] = [x |-> YearOf(matching[i].period),
                           value |-> [value |-> Select(metricId, matching[i])]]
      BY <1>4, <3>1, Zenon
    <3> QED BY <3>1, <3>2
  <2> QED BY <2>1, <2>2
<1>9. ASSUME NEW i \in 1 .. c PROVE TipRow(chart, chart.rows[i].x) = chart.rows[i]
  <2>1. ASSUME NEW j \in 1 .. c, chart.rows[j].x = chart.rows[i].x PROVE i <= j
    <3>1. /\ at(i) \in S /\ at(j) \in S
          /\ YearOf(list[at(j)].period) = YearOf(list[at(i)].period)
      BY <1>5, <1>8, <2>1
    <3>2. list[at(j)].period = list[at(i)].period
      BY <1>6, <3>1, OneOfAYear
    <3>3. at(j) = at(i)
      BY <1>1, <1>6, <3>1, <3>2
    <3>4. i = j
      BY <1>5, <3>3
    <3> QED BY <1>3, <3>4
  <2> QED BY <1>3, <1>8, <2>1, TipTells
<1>10. ASSUME NEW i \in S
       PROVE  /\ HasMonth(list, list[i].period)
              /\ ValueIn(list, list[i].period) = Select(metricId, list[i])
  <2>1. list[i].period \in Int /\ list[i].period - p = i /\ i \in 1 .. k
    BY <1>1, <1>6
  <2> QED BY <2>1, RunMonths
<1> DEFINE Shown == {<<r.x, r.value.value>> : r \in ToSet(chart.rows)}
           Told  == {x \in CalendarMonths : HasMonth(list, x) /\ MonthInYear(x) = sameMonth}
           Said  == {<<YearOf(m), ValueIn(list, m)>> : m \in Told}
<1>11. Shown \subseteq Said
  <2> SUFFICES ASSUME NEW r \in ToSet(chart.rows) PROVE <<r.x, r.value.value>> \in Said
    BY Zenon
  <2>0. PICK i \in 1 .. c : r = chart.rows[i]
    BY <1>8 DEF ToSet
  <2> DEFINE m == list[at(i)].period
  <2>1. at(i) \in S
    BY <1>5
  <2>2. m \in Told /\ ValueIn(list, m) = Select(metricId, list[at(i)])
    BY <1>6, <1>10, <2>1
  <2>3. r.x = YearOf(m) /\ r.value.value = ValueIn(list, m)
    BY <1>8, <2>0, <2>2
  <2> HIDE DEF m, Told
  <2> QED BY <2>2, <2>3
<1>12. Said \subseteq Shown
  <2> SUFFICES ASSUME NEW m \in Told PROVE <<YearOf(m), ValueIn(list, m)>> \in Shown
    OBVIOUS
  <2>1. m \in CalendarMonths /\ HasMonth(list, m) /\ MonthInYear(m) = sameMonth
    OBVIOUS
  <2>2. PICK j \in 1 .. k : list[j].period = m
    BY <1>1, <2>1 DEF HasMonth
  <2>3. j \in S
    BY <1>7, <2>1, <2>2
  <2>4. PICK i \in 1 .. c : at(i) = j
    BY <1>5, <2>3
  <2>5. chart.rows[i].x = YearOf(m) /\ chart.rows[i].value.value = ValueIn(list, m)
    BY <1>8, <1>10, <2>2, <2>3, <2>4
  <2>6. chart.rows[i] \in ToSet(chart.rows)
    BY <1>8 DEF ToSet
  <2> QED BY <2>5, <2>6, Zenon
<1>13. TellsOneMonth(chart, list)
  BY <1>11, <1>12 DEF TellsOneMonth
<1> QED BY <1>8, <1>9, <1>13 DEF ChartTells

\* On a record without gaps the months follow each other, ...
LEMMA RunOfBuckets ==
  ASSUME DataInv, Gapless, buckets # <<>>
  PROVE  \E c \in Nat \ {0}, q \in Int : IsRun(buckets, c, q)
<1>1. PICK c \in Nat : IsList(buckets, c) /\ OfCalendar(buckets, c)
  BY BucketsList
<1>2. c # 0
  BY <1>1 DEF IsList
<1>3. Len(buckets) = c
  BY <1>1 DEF IsList
<1> DEFINE q == buckets[1].period - 1
<1>4. 1 \in 1 .. c /\ \A i \in 1 .. c : buckets[i].period \in Int
  BY <1>1, <1>2, CalendarFacts DEF OfCalendar
<1>5. q \in Int /\ buckets[1].period = q + 1
  BY <1>4
<1> HIDE DEF q
<1> DEFINE S == {i \in Nat : i + 1 \in 1 .. c => buckets[i + 1].period = q + (i + 1)}
<1>6. Nat \subseteq S
  <2>1. 0 \in S
    BY <1>5
  <2>2. ASSUME NEW i \in Nat, i \in S PROVE i + 1 \in S
    <3> SUFFICES ASSUME i + 2 \in 1 .. c PROVE buckets[i + 2].period = q + (i + 2)
      OBVIOUS
    <3>1. i + 1 \in 1 .. c /\ i + 1 \in 1 .. Len(buckets) - 1 /\ (i + 1) + 1 = i + 2
      BY <1>3
    <3>2. buckets[i + 1].period = q + (i + 1)
      BY <2>2, <3>1
    <3>3. buckets[i + 2].period = buckets[i + 1].period + 1
      BY <3>1 DEF Gapless
    <3> QED BY <1>5, <3>2, <3>3
  <2> HIDE DEF S
  <2> QED BY <2>1, <2>2, NatBySets
<1>7. ASSUME NEW i \in 1 .. c PROVE buckets[i].period = q + i
  <2>1. i - 1 \in S /\ (i - 1) + 1 = i
    BY <1>6
  <2> QED BY <2>1
<1>8. IsRun(buckets, c, q)
  BY <1>1, <1>5, <1>7 DEF IsRun
<1> QED BY <1>2, <1>5, <1>8

\* ... and so do those of the range that is looked at.
LEMMA RunOfRange ==
  ASSUME DataInv, range \in Ranges, Gapless, InRange(buckets) # <<>>
  PROVE  \E k \in Nat \ {0}, p \in Int : IsRun(InRange(buckets), k, p)
<1>1. PICK c \in Nat : IsList(buckets, c) /\ OfCalendar(buckets, c)
  BY BucketsList
<1>2. PICK k \in 0 .. c : /\ InRange(buckets) = [i \in 1 .. k |-> buckets[c - k + i]]
                          /\ RangeMonths[range] = Null => k = c
                          /\ c # 0 => k # 0
  BY <1>1, InRangeWorks, Zenon
<1>3. k # 0 /\ c # 0 /\ buckets # <<>>
  BY <1>1, <1>2 DEF IsList
<1>4. PICK d \in Nat \ {0}, q \in Int : IsRun(buckets, d, q)
  BY <1>3, RunOfBuckets
<1>5. d = c
  <2>1. DOMAIN buckets = 1 .. c /\ DOMAIN buckets = 1 .. d
    BY <1>1, <1>4 DEF IsList, IsRun
  <2>2. c \in 1 .. d /\ d \in 1 .. c
    BY <1>3, <2>1
  <2> QED BY <2>2
<1>6. q \in Int /\ \A i \in 1 .. c : buckets[i].period = q + i
  BY <1>4, <1>5 DEF IsRun
<1> DEFINE p    == q + c - k
           list == InRange(buckets)
<1>7. ASSUME NEW i \in 1 .. k
      PROVE  list[i] = buckets[c - k + i] /\ c - k + i \in 1 .. c /\ list[i].period = p + i
  <2>1. list[i] = buckets[c - k + i] /\ c - k + i \in 1 .. c
    BY <1>2
  <2>2. buckets[c - k + i].period = q + (c - k + i)
    BY <1>6, <2>1
  <2> QED BY <1>6, <2>1, <2>2
<1>8. IsList(list, k)
  BY <1>2 DEF IsList
<1> HIDE DEF list
<1>9. OfCalendar(list, k)
  BY <1>1, <1>7 DEF OfCalendar
<1>10. p \in Int /\ k \in Nat \ {0}
  BY <1>3, <1>6
<1> HIDE DEF p
<1>11. IsRun(list, k, p)
  BY <1>7, <1>8, <1>9, <1>10 DEF IsRun
<1> QED BY <1>10, <1>11 DEF list

\* All four modes.
LEMMA InvChartTells == Inv => ChartTellsItsMonth
<1> SUFFICES ASSUME Inv, page = "compare", ~IsMix, Gapless, InRange(buckets) # <<>>
             PROVE  ChartTells(Chart, InRange(buckets))
  BY DEF ChartTellsItsMonth
<1> DEFINE list == InRange(buckets)
<1>1. PICK k \in Nat \ {0}, p \in Int : IsRun(list, k, p)
  BY RunOfRange DEF Inv, ControlsInv
<1>2. modeId \in {"yoy", "years", "mom", "same"}
  BY DEF Inv, ControlsInv, ModeIds
<1>3. Chart = Build(modeId, list, metricId, SelectedYears, sameMonth, "full")
  BY DEF Chart, ChartOf
<1> HIDE DEF list
<1>4. CASE modeId = "yoy"
  <2>1. Chart = BuildYoy(list, metricId, "full")
    BY <1>3, <1>4 DEF Build
  <2> QED BY <1>1, <1>4, <2>1, YearOnYearTells DEF list
<1>5. CASE modeId = "years"
  <2>1. Chart = BuildYears(list, metricId, SelectedYears, "full")
    BY <1>3, <1>5 DEF Build
  <2> QED BY <1>1, <1>5, <2>1, YearsTell DEF list
<1>6. CASE modeId = "mom"
  <2>1. Chart = BuildMom(list, metricId, "full")
    BY <1>3, <1>6 DEF Build
  <2> QED BY <1>1, <1>6, <2>1, ChangesTell DEF list
<1>7. CASE modeId = "same"
  <2>1. Chart = BuildSame(list, metricId, sameMonth, "full")
    BY <1>3, <1>7 DEF Build
  <2> QED BY <1>1, <1>7, <2>1, OneMonthTells DEF list
<1> QED BY <1>2, <1>4, <1>5, <1>6, <1>7

\* For any metric, years and range, a comparison chart of a record without gaps
\* draws over each label what that calendar month says (compare.ts: the four
\* modes' build), but for yoy over 13 to 23 months; and its tooltip reads the
\* row that is pointed at (CompareChart.tsx), but for the rows of mom beyond
\* the first twelve, which the range of 24 months has.
THEOREM ChartsTellTheirMonth == Spec => []ChartTellsItsMonth
BY Invariant, InvChartTells, PTL

(***************************************************************************)
(* Axes                                                                    *)
(***************************************************************************)
\* A step is above zero, and so many of them reach as far as the span.
LEMMA NiceStepWorks ==
  ASSUME NEW span \in Fractions, NEW ticks \in Nat \ {0}
  PROVE  /\ Above(NiceStep(span, ticks))
         /\ Leq(span, Times(Whole(ticks), NiceStep(span, ticks)))
<1> DEFINE rough == Over(span, Whole(ticks))
           mag   == Magnitude(rough)
           F     == {f \in {1, 2, 5, 10} : Leq(rough, Times(Whole(f), mag))}
           f     == Min(F)
           s     == NiceStep(span, ticks)
           b     == span[2]
<1>1. /\ span[1] \in Int /\ b \in Nat \ {0} /\ At(span, b, span[1])
      /\ Whole(ticks) \in Fractions /\ At(Whole(ticks), b, b * ticks) /\ b * ticks \in Nat \ {0}
  <2>1. b \in Nat \ {0} /\ span[1] \in Int
    BY FractionParts
  <2>2. Whole(ticks) \in Fractions /\ Whole(ticks)[1] = ticks /\ Whole(ticks)[2] = 1
    BY WholeIsFraction
  <2>3. b * ticks \in Nat \ {0}
    BY <2>1, PositiveProduct
  <2> QED BY <2>1, <2>2, <2>3 DEF At
<1>2. Leq(span, Zero) <=> span[1] <= 0
  BY <1>1, ZeroIsFraction DEF Leq
<1>3. CASE span[1] <= 0
  <2>1. s = Whole(1)
    BY <1>2, <1>3 DEF NiceStep
  <2>2. Above(Whole(1)) /\ At(Whole(1), b, b)
    BY <1>1, WholeIsFraction DEF Above, At
  <2>3. At(Times(Whole(ticks), Whole(1)), b, ticks * b)
    BY <2>2, AtMultiple
  <2>4. span[1] <= ticks * b
    BY <1>1, <1>3
  <2> HIDE DEF b
  <2> QED BY <1>1, <2>1, <2>2, <2>3, <2>4, AtLeq
<1>4. CASE span[1] > 0
  <2>1. s = Times(Whole(f), mag)
    BY <1>1, <1>2, <1>4 DEF NiceStep
  <2>2. rough \in Fractions /\ rough[1] * (b * ticks) = span[1] * rough[2]
    BY <1>1, AtOver
  <2>3. Above(rough)
    <3>1. rough[1] \in Int /\ rough[2] \in Nat \ {0}
      BY <2>2, FractionParts
    <3> HIDE DEF rough, b
    <3>2. span[1] * rough[2] > 0
      BY <1>1, <1>4, <3>1
    <3>3. rough[1] > 0
      BY <1>1, <2>2, <3>1, <3>2
    <3> QED BY <2>2, <3>3 DEF Above
  <2> HIDE DEF s, rough
  <2>4. Above(mag) /\ Leq(rough, Times(Whole(10), mag))
    BY <2>3, MagnitudeWorks
  <2> HIDE DEF mag
  <2>5. f \in F
    <3>1. F \subseteq {1, 2, 5, 10} /\ 10 \in F
      BY <2>4
    <3>2. F \subseteq Nat /\ F \subseteq Int
      BY <3>1
    <3> HIDE DEF F
    <3>3. PICK x \in F : \A y \in F : x <= y
      BY <3>1, <3>2, LeastNat
    <3> QED BY <3>2, <3>3, EndsOfNumbers
  <2>6. f \in Nat \ {0} /\ Leq(rough, Times(Whole(f), mag))
    BY <2>5
  <2> HIDE DEF f, F
  <2>7. Above(Whole(f))
    BY <2>6, WholeIsFraction DEF Above
  <2>8. Above(s) /\ s \in Fractions /\ Leq(rough, s)
    BY <2>1, <2>4, <2>6, <2>7, TimesIsAbove DEF Above
  <2>9. PICK d \in Nat \ {0}, x \in Int, y \in Int, z \in Int :
          At(span, d, x) /\ At(rough, d, y) /\ At(s, d, z)
    BY <2>2, <2>8, AtExists
  <2>10. y <= z
    BY <2>8, <2>9, AtLeq
  <2>11. Times(Whole(ticks), rough) = span
    <3>1. rough[1] \in Int /\ rough[2] \in Nat \ {0}
      BY <2>2, FractionParts
    <3>2. At(rough, b * rough[2], b * rough[1])
      <4>1. b * rough[2] \in Nat \ {0} /\ b * rough[1] \in Int
        BY <1>1, <3>1, PositiveProduct
      <4>2. rough[1] * (b * rough[2]) = (b * rough[1]) * rough[2]
        BY <1>1, <3>1
      <4> QED BY <2>2, <4>1, <4>2 DEF At
    <3>3. At(Times(Whole(ticks), rough), b * rough[2], ticks * (b * rough[1]))
      BY <3>2, AtMultiple
    <3>4. At(span, b * rough[2], ticks * (b * rough[1]))
      <4>1. b * rough[2] \in Nat \ {0} /\ ticks * (b * rough[1]) \in Int
        BY <1>1, <3>1, PositiveProduct
      <4>2. span[1] * (b * rough[2]) = (span[1] * rough[2]) * b
        BY <1>1, <3>1
      <4>3. (rough[1] * (b * ticks)) * b = (ticks * (b * rough[1])) * b
        BY <1>1, <3>1
      <4> QED BY <2>2, <4>1, <4>2, <4>3 DEF At
    <3> QED BY <3>3, <3>4, AtLeq
  <2>12. At(span, d, ticks * y) /\ At(Times(Whole(ticks), s), d, ticks * z)
    BY <2>9, <2>11, AtMultiple
  <2>13. ticks * y <= ticks * z
    BY <2>9, <2>10
  <2>14. Leq(span, Times(Whole(ticks), s))
    BY <2>12, <2>13, AtLeq
  <2> QED BY <2>8, <2>14 DEF s
<1> QED BY <1>1, <1>3, <1>4

\* An axis from one multiple of its step to another.
LEMMA AxisWorks ==
  ASSUME NEW s, Above(s), NEW q \in Int, NEW n \in 1 .. 5,
         NEW domain, domain = [min  |-> Times(Whole(q), s), step |-> s,
                               max  |-> Times(Whole(q + n), s)],
         NEW values,
         \A v \in values : Leq(domain.min, v) /\ Leq(v, domain.max)
  PROVE  Holds(domain, values)
<1> DEFINE d   == s[2]
           z   == s[1]
           low == domain.min
           top == domain.max
           count == Nearest(Over(Minus(top, low), s))
<1>1. s \in Fractions /\ d \in Nat \ {0} /\ z \in Int /\ z > 0
  BY FractionParts DEF Above
<1>2. At(s, d, z)
  BY <1>1 DEF At
<1>3. low = Times(Whole(q), s) /\ top = Times(Whole(q + n), s) /\ domain.step = s
  OBVIOUS
<1>4. domain.min = low /\ domain.max = top
  OBVIOUS
<1>5. n \in Int /\ q + n \in Int
  OBVIOUS
<1> HIDE DEF d, z, low, top
<1>6. At(low, d, q * z) /\ At(top, d, (q + n) * z) /\ At(Times(Whole(n), s), d, n * z)
  BY <1>2, <1>3, <1>5, AtMultiple
<1>7. /\ q * z \in Int /\ n * z \in Int
      /\ (q + n) * z = q * z + n * z /\ (q + n) * z - q * z = n * z
  BY <1>1, <1>5
<1>8. At(Minus(top, low), d, n * z)
  <2>1. At(Minus(top, low), d, (q + n) * z - q * z)
    BY <1>6, AtPlus
  <2> QED BY <1>7, <2>1
<1>9. count = n
  BY <1>1, <1>2, <1>5, <1>8, OverOfMultiple
<1>10. Plus(low, Times(Whole(n), s)) = top
  <2>1. At(Plus(low, Times(Whole(n), s)), d, q * z + n * z)
    BY <1>6, AtPlus
  <2> QED BY <1>6, <1>7, <2>1, AtLeq
<1>11. Over(low, s)[2] = 1
  <2>1. Over(low, s) = Whole(q)
    BY <1>1, <1>2, <1>6, OverOfMultiple
  <2> QED BY <2>1, WholeIsFraction
<1>12. Ticks(domain) = [i \in 1 .. count + 1 |-> Plus(low, Times(Whole(i - 1), s))]
  BY <1>3, <1>4 DEF Ticks
<1> HIDE DEF count
<1> DEFINE tick(i) == Plus(low, Times(Whole(i - 1), s))
<1>13. Len(Ticks(domain)) = n + 1 /\ Ticks(domain)[n + 1] = Plus(low, Times(Whole(n), s))
  <2>1. Ticks(domain) = [i \in 1 .. n + 1 |-> tick(i)]
    BY <1>9, <1>12
  <2>2. tick(n + 1) = Plus(low, Times(Whole(n), s))
    <3>1. (n + 1) - 1 = n
      OBVIOUS
    <3> QED BY <3>1
  <2> HIDE DEF tick
  <2>3. n + 1 \in Nat /\ n + 1 \in 1 .. n + 1
    OBVIOUS
  <2>4. Len([i \in 1 .. n + 1 |-> tick(i)]) = n + 1
    BY <2>3
  <2>5. [i \in 1 .. n + 1 |-> tick(i)][n + 1] = tick(n + 1)
    BY <2>3
  <2> QED BY <2>1, <2>2, <2>4, <2>5
<1>14. Last(Ticks(domain)) = top /\ Len(Ticks(domain)) \in 2 .. 6
  <2>1. Last(Ticks(domain)) = Ticks(domain)[n + 1]
    BY <1>13, Zenon DEF Last
  <2>2. n + 1 \in 2 .. 6
    OBVIOUS
  <2>3. Len(Ticks(domain)) \in 2 .. 6
    BY <1>13, <2>2
  <2>4. Ticks(domain)[n + 1] = top
    BY <1>10, <1>13, Zenon
  <2> QED BY <2>1, <2>3, <2>4
<1> QED BY <1>3, <1>4, <1>11, <1>14 DEF Holds

\* The axis from the multiple below the floor to the one above the data.
LEMMA DomainHolds ==
  ASSUME NEW low \in Fractions, NEW dataMax \in Fractions, Leq(low, dataMax),
         NEW ticks \in 2 .. 4, NEW values, values \subseteq Fractions,
         \A v \in values : Leq(low, v) /\ Leq(v, dataMax)
  PROVE  Holds(DomainFrom(low, dataMax, NiceStep(Minus(dataMax, low), ticks)), values)
<1> DEFINE s == NiceStep(Minus(dataMax, low), ticks)
           q == Floor(Over(low, s))
           bottom == Times(Whole(q), s)
           n == Ceil(Over(Minus(dataMax, bottom), s))
           reach == Plus(bottom, Times(Whole(n), s))
           k == IF n = 0 THEN 1 ELSE n
           domain == DomainFrom(low, dataMax, s)
<1>1. Minus(dataMax, low) \in Fractions
  BY MinusIsFraction
<1>2. Above(s) /\ s \in Fractions /\ Leq(Minus(dataMax, low), Times(Whole(ticks), s))
  BY <1>1, NiceStepWorks DEF Above
<1> HIDE DEF s
<1>3. PICK d \in Nat \ {0}, x \in Int, y \in Int, z \in Int :
        At(low, d, x) /\ At(dataMax, d, y) /\ At(s, d, z)
  BY <1>2, AtExists
<1>4. z > 0
  <2>1. s[1] \in Int /\ s[1] > 0 /\ s[2] \in Nat \ {0} /\ s[1] * d = z * s[2]
    BY <1>2, <1>3, FractionParts DEF Above, At
  <2>2. s[1] * d > 0
    BY <2>1
  <2> QED BY <2>1, <2>2
<1>5. q \in Int /\ q * z <= x /\ x < (q + 1) * z
  BY <1>3, <1>4, AtFloor
<1> HIDE DEF q
<1>6. At(bottom, d, q * z)
  BY <1>3, <1>5, AtMultiple
<1> HIDE DEF bottom
<1>7. At(Minus(dataMax, bottom), d, y - q * z)
  BY <1>3, <1>6, AtPlus
<1>8. n \in Int /\ (n - 1) * z < y - q * z /\ y - q * z <= n * z
  BY <1>3, <1>4, <1>7, AtCeil
<1>9. x <= y /\ y - x <= ticks * z
  <2>1. At(Minus(dataMax, low), d, y - x) /\ At(Times(Whole(ticks), s), d, ticks * z)
    <3>1. ticks \in Int
      OBVIOUS
    <3>2. At(Minus(dataMax, low), d, y - x)
      BY <1>3, AtPlus
    <3>3. At(Times(Whole(ticks), s), d, ticks * z)
      BY <1>3, <3>1, AtMultiple
    <3> QED BY <3>2, <3>3
  <2> QED BY <1>2, <1>3, <2>1, AtLeq
<1> HIDE DEF n
<1>10. n \in 0 .. ticks + 1
  <2>1. (q + 1) * z = q * z + z /\ q * z \in Int /\ n * z \in Int /\ ticks * z \in Int
        /\ (n - 1) * z \in Int
    BY <1>3, <1>5, <1>8
  <2>2. ASSUME n <= -1 PROVE FALSE
    <3>1. n * z <= (-1) * z
      BY <1>3, <1>4, <1>8, <2>2
    <3> QED BY <1>3, <1>4, <1>5, <1>8, <1>9, <2>1, <3>1
  <2>3. ASSUME n - 1 >= ticks + 1 PROVE FALSE
    <3>1. (n - 1) * z >= (ticks + 1) * z
      BY <1>3, <1>4, <1>8, <2>3
    <3>2. (ticks + 1) * z = ticks * z + z
      BY <1>3
    <3> QED BY <1>3, <1>4, <1>5, <1>8, <1>9, <2>1, <3>1, <3>2
  <2> QED BY <1>8, <2>2, <2>3
<1>11. At(Times(Whole(n), s), d, n * z) /\ At(reach, d, q * z + n * z)
  <2>1. At(Times(Whole(n), s), d, n * z)
    BY <1>3, <1>8, AtMultiple
  <2> QED BY <1>6, <2>1, AtPlus
<1> HIDE DEF reach
<1>12. reach = bottom <=> n = 0
  <2>1. q * z \in Int /\ n * z \in Int
    BY <1>3, <1>5, <1>8
  <2>2. n = 0 => q * z + n * z = q * z
    BY <1>3, <1>5
  <2>3. n = 0 => reach = bottom
    BY <1>6, <1>11, <2>2, AtLeq
  <2>4. Leq(reach, bottom) <=> q * z + n * z <= q * z
    BY <1>6, <1>11, AtLeq
  <2>5. Leq(bottom, bottom)
    BY <1>6, AtLeq, <2>1
  <2>6. reach = bottom => n * z <= 0
    BY <2>1, <2>4, <2>5
  <2>7. n # 0 => n * z > 0
    BY <1>3, <1>4, <1>10
  <2> QED BY <2>1, <2>3, <2>6, <2>7
<1>13. k \in 1 .. 5 /\ k * z >= n * z /\ n * z \in Int /\ k * z \in Int
  <2>1. k \in 1 .. 5 /\ (k = n \/ (n = 0 /\ k = 1))
    BY <1>10
  <2>2. n = 0 => n * z = 0
    BY <1>3
  <2>3. k = 1 => k * z = z
    BY <1>3
  <2> QED BY <1>3, <1>4, <1>8, <2>1, <2>2, <2>3
<1>14. domain.max = Times(Whole(q + k), s)
  <2>1. domain.max = IF reach = bottom THEN Plus(bottom, s) ELSE reach
    BY DEF DomainFrom, q, bottom, n, reach
  <2>2. q + k \in Int
    BY <1>5, <1>13
  <2>3. At(Times(Whole(q + k), s), d, (q + k) * z)
    BY <1>3, <2>2, AtMultiple
  <2>4. CASE n = 0
    <3>1. At(Plus(bottom, s), d, q * z + z)
      BY <1>3, <1>6, AtPlus
    <3>2. (q + k) * z = q * z + z
      BY <1>3, <1>5, <2>4
    <3> QED BY <1>12, <2>1, <2>3, <2>4, <3>1, <3>2, AtLeq
  <2>5. CASE n # 0
    <3>1. (q + k) * z = q * z + n * z
      BY <1>3, <1>5, <1>8, <2>5
    <3> QED BY <1>11, <1>12, <2>1, <2>3, <2>5, <3>1, AtLeq
  <2> QED BY <2>4, <2>5
<1>15. /\ domain.min = bottom /\ domain.step = s
       /\ domain = [min |-> domain.min, step |-> domain.step, max |-> domain.max]
  BY DEF DomainFrom, q, bottom, n, reach
<1>16. Leq(bottom, low) /\ Leq(dataMax, domain.max)
  <2>1. Leq(bottom, low)
    <3>1. q * z \in Int
      BY <1>3, <1>5
    <3> QED BY <1>3, <1>5, <1>6, AtLeq
  <2>2. At(domain.max, d, (q + k) * z)
    <3>1. q + k \in Int
      BY <1>5, <1>13
    <3> HIDE DEF domain, k
    <3> QED BY <1>3, <1>14, <3>1, AtMultiple
  <2>3. y <= (q + k) * z
    <3>1. (q + k) * z = q * z + k * z /\ q * z \in Int
      BY <1>3, <1>5, <1>13
    <3> HIDE DEF k
    <3> QED BY <1>3, <1>8, <1>13, <3>1
  <2> HIDE DEF domain, k
  <2> QED BY <1>3, <2>1, <2>2, <2>3, AtLeq
<1> HIDE DEF domain, k
<1>17. domain = [min |-> Times(Whole(q), s), step |-> s, max |-> Times(Whole(q + k), s)]
  BY <1>14, <1>15 DEF bottom
<1>18. domain.min \in Fractions /\ domain.max \in Fractions
  <2>1. q \in Int /\ q + k \in Int
    BY <1>5, <1>13
  <2>2. Whole(q) \in Fractions /\ Whole(q + k) \in Fractions
    BY <2>1, WholeIsFraction
  <2>3. Times(Whole(q), s) \in Fractions /\ Times(Whole(q + k), s) \in Fractions
    BY <1>2, <2>2, TimesIsFraction
  <2> QED BY <1>14, <1>15, <2>3 DEF bottom
<1>19. \A v \in values : Leq(domain.min, v) /\ Leq(v, domain.max)
  <2> SUFFICES ASSUME NEW v \in values PROVE Leq(domain.min, v) /\ Leq(v, domain.max)
    OBVIOUS
  <2>1. Leq(low, v) /\ Leq(v, dataMax) /\ v \in Fractions
    OBVIOUS
  <2>2. Leq(domain.min, low)
    BY <1>15, <1>16
  <2>3. Leq(domain.min, v)
    BY <1>18, <2>1, <2>2, LeqIsAnOrder
  <2>4. Leq(v, domain.max)
    BY <1>16, <1>18, <2>1, LeqIsAnOrder
  <2> QED BY <2>3, <2>4
<1>20. Holds(domain, values)
  BY <1>2, <1>5, <1>13, <1>17, <1>19, AxisWorks
<1> QED BY <1>20 DEF domain, s

\* The ends of a finite set of fractions.
LEMMA EndsWork ==
  ASSUME NEW S, IsFiniteSet(S), S # {}, S \subseteq Fractions
  PROVE  /\ Least(S) \in S /\ \A q \in S : Leq(Least(S), q)
         /\ Greatest(S) \in S /\ \A q \in S : Leq(q, Greatest(S))
<1>1. /\ \E p \in S : \A q \in S : Leq(p, q)
      /\ \E p \in S : \A q \in S : Leq(q, p)
  BY ExtremesExist
<1>2. Least(S) \in S /\ \A q \in S : Leq(Least(S), q)
  BY <1>1, Zenon DEF Least
<1>3. Greatest(S) \in S /\ \A q \in S : Leq(q, Greatest(S))
  BY <1>1, Zenon DEF Greatest
<1> QED BY <1>2, <1>3

\* The values that are drawn: those that are no null.
LEMMA DrawnAreFinite ==
  ASSUME NEW values, values \subseteq Amounts
  PROVE  Finite(values) = Drawn(values) /\ Drawn(values) \subseteq Fractions
BY AmountsAre DEF Finite, Drawn, Amounts

\* The axis of a chart without data.
LEMMA UnitHolds == Holds(UnitDomain, {})
<1>1. At(Whole(1), 1, 1) /\ At(Zero, 1, 0) /\ Above(Whole(1))
  BY WholeIsFraction, ZeroIsFraction DEF At, Above
<1>2. At(Times(Whole(0), Whole(1)), 1, 0) /\ At(Times(Whole(0 + 1), Whole(1)), 1, 1)
  <2>1. At(Times(Whole(0), Whole(1)), 1, 0 * 1)
    BY <1>1, AtMultiple
  <2>2. At(Times(Whole(0 + 1), Whole(1)), 1, (0 + 1) * 1)
    BY <1>1, AtMultiple
  <2> QED BY <2>1, <2>2
<1>3. Times(Whole(0), Whole(1)) = Zero /\ Times(Whole(0 + 1), Whole(1)) = Whole(1)
  BY <1>1, <1>2, AtLeq
<1>4. UnitDomain = [min |-> Times(Whole(0), Whole(1)), step |-> Whole(1),
                    max |-> Times(Whole(0 + 1), Whole(1))]
  BY <1>3 DEF UnitDomain
<1> QED BY <1>1, <1>4, AxisWorks

\* zeroBasedDomain holds its data: it reaches from them to zero.
LEMMA ZeroBasedHolds ==
  ASSUME NEW values, IsFiniteSet(values), values \subseteq Amounts, NEW ticks \in 2 .. 4
  PROVE  Holds(ZeroBasedDomain(values, ticks), Drawn(values))
<1> DEFINE S == Drawn(values)
           T == S \cup {Zero}
           low == Least(T)
           top == Greatest(T)
<1>1. Finite(values) = S /\ S \subseteq Fractions
  BY DrawnAreFinite
<1>2. IsFiniteSet(T) /\ T \subseteq Fractions /\ T # {}
  <2>1. IsFiniteSet(S)
    BY FS_Subset DEF Drawn
  <2> QED BY <1>1, <2>1, FS_AddElement, ZeroIsFraction
<1>3. CASE S = {}
  BY <1>1, <1>3, UnitHolds DEF ZeroBasedDomain
<1>4. CASE S # {}
  <2> HIDE DEF S
  <2>1. ZeroBasedDomain(values, ticks) = DomainFrom(low, top, NiceStep(Minus(top, low), ticks))
    BY <1>1, <1>4 DEF ZeroBasedDomain
  <2>2. low \in T /\ top \in T /\ \A v \in T : Leq(low, v) /\ Leq(v, top)
    BY <1>2, EndsWork
  <2>3. S \subseteq T
    OBVIOUS
  <2> HIDE DEF T, low, top
  <2>4. low \in Fractions /\ top \in Fractions /\ Leq(low, top)
    BY <1>2, <2>2
  <2>5. \A v \in S : Leq(low, v) /\ Leq(v, top)
    BY <2>2, <2>3
  <2>6. Holds(ZeroBasedDomain(values, ticks), S)
    BY <1>1, <2>1, <2>4, <2>5, DomainHolds
  <2> QED BY <2>6 DEF S
<1> QED BY <1>3, <1>4 DEF S

\* 98.5 % of a number from zero up are not above it.
LEMMA PadIsBelow ==
  ASSUME NEW p \in Fractions, ~Less(p, Zero)
  PROVE  Times(p, Frac(985, 1000)) \in Fractions /\ Leq(Times(p, Frac(985, 1000)), p)
<1> DEFINE f == Frac(985, 1000)
           t == Times(p, f)
           a == p[1]
           b == p[2]
           c == f[1]
           d == f[2]
           x == t[1]
           y == t[2]
<1>1. f \in Fractions /\ c * 1000 = 985 * d
  BY FracIsFraction
<1>2. a \in Int /\ b \in Nat \ {0} /\ c \in Int /\ d \in Nat \ {0}
  BY <1>1, FractionParts
<1>3. a >= 0
  <2>1. ~(a * Zero[2] < Zero[1] * b)
    BY DEF Less
  <2>2. Zero[1] = 0 /\ Zero[2] = 1
    BY ZeroIsFraction
  <2> HIDE DEF a, b
  <2> QED BY <1>2, <2>1, <2>2
<1> HIDE DEF f
<1>4. t \in Fractions /\ x * (b * d) = (a * c) * y
  BY <1>1, TimesIsFraction
<1>5. x \in Int /\ y \in Nat \ {0}
  BY <1>4, FractionParts
<1> HIDE DEF a, b, c, d, x, y, t
<1>6. c <= d
  BY <1>1, <1>2
<1>7. (x * b) * d <= (a * y) * d
  <2>1. (x * b) * d = x * (b * d) /\ (a * c) * y = (a * y) * c
    BY <1>2, <1>5
  <2>2. a * y \in Nat
    BY <1>2, <1>3, <1>5
  <2> DEFINE u == a * y
  <2>3. u \in Nat
    BY <2>2
  <2> HIDE DEF u
  <2>4. u * c <= u * d
    BY <1>2, <1>6, <2>3
  <2> QED BY <1>4, <2>1, <2>4 DEF u
<1>8. x * b <= a * y
  <2> DEFINE u == x * b
             v == a * y
  <2>1. u \in Int /\ v \in Int
    BY <1>2, <1>5
  <2>2. u * d <= v * d
    BY <1>7
  <2> HIDE DEF u, v
  <2>3. ~(u >= v + 1)
    <3>1. u >= v + 1 => u * d >= (v + 1) * d
      BY <1>2, <2>1
    <3>2. (v + 1) * d = v * d + d
      BY <1>2, <2>1
    <3> QED BY <1>2, <2>1, <2>2, <3>1, <3>2
  <2>4. u <= v
    BY <2>1, <2>3
  <2> QED BY <2>4 DEF u, v
<1> QED BY <1>4, <1>8 DEF Leq, a, b, x, y, t, f

\* paddedDomain holds data from zero up.
LEMMA PaddedHolds ==
  ASSUME NEW values, IsFiniteSet(values), values \subseteq Amounts,
         ~BelowZero(Drawn(values)), NEW ticks \in 2 .. 4
  PROVE  Holds(PaddedDomain(values, ticks), Drawn(values))
<1> DEFINE S == Drawn(values)
           least == Least(S)
           low == Times(least, Frac(985, 1000))
           top == Greatest(S)
<1>1. Finite(values) = S /\ S \subseteq Fractions
  BY DrawnAreFinite
<1>2. IsFiniteSet(S)
  BY FS_Subset DEF Drawn
<1>3. CASE S = {}
  BY <1>1, <1>3, UnitHolds DEF PaddedDomain
<1>4. CASE S # {}
  <2>0. \A v \in S : ~Less(v, Zero)
    BY DEF BelowZero
  <2> HIDE DEF S
  <2>1. PaddedDomain(values, ticks) = DomainFrom(low, top, NiceStep(Minus(top, low), ticks))
    BY <1>1, <1>4 DEF PaddedDomain
  <2>2. least \in S /\ top \in S /\ \A v \in S : Leq(least, v) /\ Leq(v, top)
    BY <1>1, <1>2, <1>4, EndsWork
  <2> HIDE DEF least, top
  <2>3. low \in Fractions /\ Leq(low, least)
    BY <1>1, <2>0, <2>2, PadIsBelow
  <2> HIDE DEF low
  <2>4. ASSUME NEW v \in S PROVE Leq(low, v)
    BY <1>1, <2>2, <2>3, <2>4, LeqIsAnOrder
  <2>5. top \in Fractions /\ Leq(low, top)
    BY <1>1, <2>2, <2>4
  <2>6. \A v \in S : Leq(low, v) /\ Leq(v, top)
    BY <2>2, <2>4
  <2>7. Holds(PaddedDomain(values, ticks), S)
    BY <1>1, <2>1, <2>3, <2>5, <2>6, DomainHolds
  <2> QED BY <2>7 DEF S
<1> QED BY <1>3, <1>4 DEF S

\* The sizes of finitely many fractions are finitely many fractions.
LEMMA SizesAreFinite ==
  ASSUME NEW S, IsFiniteSet(S), S \subseteq Fractions
  PROVE  /\ IsFiniteSet({AbsOf(v) : v \in S} \cup {Zero})
         /\ {AbsOf(v) : v \in S} \cup {Zero} \subseteq Fractions
<1> DEFINE f == [v \in S |-> AbsOf(v)]
           A == {AbsOf(v) : v \in S}
<1>1. f = [v \in S |-> f[v]] /\ Values(f, S) = A
  BY DEF Values
<1>2. A \subseteq Fractions
  BY AbsWorks
<1> HIDE DEF f, A
<1>3. IsFiniteSet(A)
  BY <1>1, FewValues
<1> QED BY <1>2, <1>3, FS_AddElement, ZeroIsFraction DEF A

\* symmetricDomain holds its data on both sides of zero.
LEMMA SymmetricHolds ==
  ASSUME NEW values, IsFiniteSet(values), values \subseteq Amounts, NEW ticks \in 2 .. 4
  PROVE  Holds(SymmetricDomain(values, ticks), Drawn(values))
<1> DEFINE S == Drawn(values)
           T == {AbsOf(v) : v \in S} \cup {Zero}
           peak == Greatest(T)
           s == NiceStep(Times(peak, Whole(2)), ticks)
           n == Ceil(Over(peak, s))
           bound == Times(Whole(n), s)
           domain == SymmetricDomain(values, ticks)
<1>1. Finite(values) = S /\ S \subseteq Fractions /\ IsFiniteSet(S)
  <2>1. IsFiniteSet(S)
    BY FS_Subset DEF Drawn
  <2> QED BY <2>1, DrawnAreFinite
<1>2. T # {} /\ Zero \in T /\ \A v \in S : AbsOf(v) \in T
  OBVIOUS
<1>3. IsFiniteSet(T) /\ T \subseteq Fractions
  BY <1>1, SizesAreFinite
<1>4. domain = IF peak = Zero
               THEN [min |-> Whole(-1), max |-> Whole(1), step |-> Whole(1)]
               ELSE [min |-> Minus(Zero, bound), max |-> bound, step |-> s]
  BY <1>1 DEF SymmetricDomain
<1> HIDE DEF S, T, domain
<1>5. peak \in T /\ \A q \in T : Leq(q, peak)
  BY <1>2, <1>3, EndsWork
<1> HIDE DEF peak
<1>6. peak \in Fractions /\ Leq(Zero, peak) /\ \A v \in S : Leq(AbsOf(v), peak)
  BY <1>2, <1>3, <1>5
<1>7. CASE peak = Zero
  <2>1. At(Whole(1), 1, 1) /\ At(Zero, 1, 0) /\ Above(Whole(1)) /\ At(Whole(-1), 1, -1)
    BY WholeIsFraction, ZeroIsFraction DEF At, Above
  <2>2. At(Times(Whole(-1), Whole(1)), 1, -1) /\ At(Times(Whole(-1 + 2), Whole(1)), 1, 1)
    <3>1. At(Times(Whole(-1), Whole(1)), 1, (-1) * 1)
      BY <2>1, AtMultiple
    <3>2. At(Times(Whole(-1 + 2), Whole(1)), 1, (-1 + 2) * 1)
      BY <2>1, AtMultiple
    <3> QED BY <3>1, <3>2
  <2>3. Times(Whole(-1), Whole(1)) = Whole(-1) /\ Times(Whole(-1 + 2), Whole(1)) = Whole(1)
    BY <2>1, <2>2, AtLeq
  <2>4. domain = [min |-> Times(Whole(-1), Whole(1)), step |-> Whole(1),
                  max |-> Times(Whole(-1 + 2), Whole(1))]
    BY <1>4, <1>7, <2>3
  <2>5. ASSUME NEW v \in S PROVE Leq(domain.min, v) /\ Leq(v, domain.max)
    <3>0. Whole(1) \in Fractions
      BY WholeIsFraction
    <3>1. v \in Fractions /\ AbsOf(v) \in Fractions
      BY <1>1, AbsWorks
    <3>2. PICK d \in Nat \ {0}, x \in Int, y \in Int, z \in Int :
            At(v, d, x) /\ At(Zero, d, y) /\ At(Whole(1), d, z)
      BY <3>1, ZeroIsFraction, <3>0, AtExists
    <3>3. At(AbsOf(v), d, IF x < 0 THEN -x ELSE x)
      BY <3>1, <3>2, AbsWorks
    <3>4. (IF x < 0 THEN -x ELSE x) <= y
      BY <1>6, <1>7, <3>2, <3>3, AtLeq
    <3>5. y = 0 /\ z = d
      BY <3>2, ZeroIsFraction, WholeIsFraction DEF At
    <3>6. x = 0
      BY <3>2, <3>4, <3>5
    <3>7. domain.min = Whole(-1) /\ domain.max = Whole(1)
      BY <2>3, <2>4
    <3>8. At(Whole(-1), d, -d)
      BY <3>2, WholeIsFraction DEF At
    <3> QED BY <3>2, <3>5, <3>6, <3>7, <3>8, AtLeq
  <2>6. Holds(domain, S)
    <3>1. \A v \in S : Leq(domain.min, v) /\ Leq(v, domain.max)
      BY <2>5
    <3> QED BY <2>1, <2>4, <3>1, AxisWorks
  <2> QED BY <2>6 DEF S, domain
<1>8. CASE peak # Zero
  <2>1. Times(peak, Whole(2)) \in Fractions
    BY <1>6, WholeIsFraction, TimesIsFraction
  <2>2. Above(s) /\ s \in Fractions /\ Leq(Times(peak, Whole(2)), Times(Whole(ticks), s))
    BY <2>1, NiceStepWorks DEF Above
  <2>3. Times(peak, Whole(2)) = Times(Whole(2), peak)
    <3>1. peak[1] \in Int /\ peak[2] \in Nat /\ Whole(2)[1] = 2 /\ Whole(2)[2] = 1
      BY <1>6, FractionParts, WholeIsFraction
    <3> QED BY <3>1 DEF Times
  <2>4. domain = [min |-> Minus(Zero, bound), max |-> bound, step |-> s]
    BY <1>4, <1>8
  <2> HIDE DEF s
  <2>5. PICK d \in Nat \ {0}, x \in Int, y \in Int, z \in Int :
          At(peak, d, x) /\ At(Zero, d, y) /\ At(s, d, z)
    BY <1>6, <2>2, ZeroIsFraction, AtExists
  <2>6. y = 0 /\ x > 0 /\ z > 0
    <3>1. y = 0
      BY <2>5, ZeroIsFraction DEF At
    <3>2. x >= 0 /\ x # 0
      BY <1>6, <1>8, <2>5, <3>1, AtLeq
    <3>3. s[1] \in Int /\ s[1] > 0 /\ s[2] \in Nat \ {0} /\ s[1] * d = z * s[2]
      BY <2>2, <2>5, FractionParts DEF Above, At
    <3>4. s[1] * d > 0
      BY <3>3
    <3> QED BY <2>5, <3>1, <3>2, <3>3, <3>4
  <2>7. n \in Int /\ (n - 1) * z < x /\ x <= n * z
    BY <2>5, <2>6, AtCeil
  <2> HIDE DEF n
  <2>8. 2 * x <= ticks * z
    <3>1. At(Times(Whole(2), peak), d, 2 * x)
      BY <2>5, AtMultiple
    <3>2. At(Times(Whole(ticks), s), d, ticks * z)
      BY <2>5, AtMultiple
    <3> QED BY <2>2, <2>3, <3>1, <3>2, AtLeq
  <2>9. 2 * n \in 1 .. 5 /\ -n \in Int /\ -n + 2 * n = n
    <3>1. n >= 1
      <4>1. n <= 0 => n * z <= 0
        BY <2>5, <2>6, <2>7
      <4> QED BY <2>5, <2>6, <2>7, <4>1
    <3>2. ~(2 * n >= ticks + 2)
      <4>1. (n - 1) * z + (n - 1) * z < ticks * z
        BY <2>5, <2>7, <2>8
      <4>2. (2 * n - 2) * z = (n - 1) * z + (n - 1) * z
        BY <2>5, <2>7
      <4>3. 2 * n - 2 >= ticks => (2 * n - 2) * z >= ticks * z
        BY <2>5, <2>6, <2>7
      <4> QED BY <2>5, <2>7, <4>1, <4>2, <4>3
    <3> QED BY <2>7, <3>1, <3>2
  <2>10. At(bound, d, n * z) /\ At(Minus(Zero, bound), d, -(n * z))
    <3>1. At(bound, d, n * z)
      BY <2>5, <2>7, AtMultiple
    <3>2. At(Minus(Zero, bound), d, y - n * z)
      BY <2>5, <3>1, AtPlus
    <3>3. y - n * z = -(n * z)
      BY <2>5, <2>6, <2>7
    <3> QED BY <3>1, <3>2, <3>3
  <2>11. Minus(Zero, bound) = Times(Whole(-n), s)
    <3>1. At(Times(Whole(-n), s), d, (-n) * z)
      BY <2>5, <2>9, AtMultiple
    <3>2. (-n) * z = -(n * z)
      BY <2>5, <2>7
    <3> QED BY <2>10, <3>1, <3>2, AtLeq
  <2>12. domain = [min |-> Times(Whole(-n), s), step |-> s, max |-> Times(Whole(-n + 2 * n), s)]
    BY <2>4, <2>9, <2>11
  <2>13. ASSUME NEW v \in S PROVE Leq(domain.min, v) /\ Leq(v, domain.max)
    <3>1. v \in Fractions /\ bound \in Fractions
      BY <1>1, <2>10 DEF At
    <3> HIDE DEF bound
    <3>2. PICK e \in Nat \ {0}, a \in Int, b \in Int, c \in Int :
            At(v, e, a) /\ At(bound, e, b) /\ At(Zero, e, c)
      BY <3>1, ZeroIsFraction, AtExists
    <3>3. c = 0
      BY <3>2, ZeroIsFraction DEF At
    <3>4. At(AbsOf(v), e, IF a < 0 THEN -a ELSE a) /\ AbsOf(v) \in Fractions
      BY <3>1, <3>2, AbsWorks
    <3>5. Leq(AbsOf(v), bound)
      <4>1. Leq(peak, bound)
        BY <2>5, <2>7, <2>10, AtLeq
      <4> QED BY <1>6, <3>1, <3>4, <4>1, LeqIsAnOrder
    <3>6. (IF a < 0 THEN -a ELSE a) <= b
      BY <3>2, <3>4, <3>5, AtLeq
    <3>7. a <= b /\ c - b <= a
      BY <3>2, <3>3, <3>6
    <3>8. At(Minus(Zero, bound), e, c - b)
      BY <3>2, AtPlus
    <3>9. domain.min = Minus(Zero, bound) /\ domain.max = bound
      BY <2>4
    <3> QED BY <3>2, <3>7, <3>8, <3>9, AtLeq
  <2>14. Holds(domain, S)
    <3>1. \A v \in S : Leq(domain.min, v) /\ Leq(v, domain.max)
      BY <2>13
    <3> QED BY <2>2, <2>9, <2>12, <3>1, AxisWorks
  <2> QED BY <2>14 DEF S, domain
<1> QED BY <1>7, <1>8

\* The month's part of a figure of its bills is a number or unknown.
LEMMA ProratedIsAmount ==
  ASSUME NEW P, NEW B, Lists(P, B), NEW m \in CalendarMonths,
         NEW value, \A b \in B : value[b] \in Amounts,
         NEW figures, DOMAIN figures = DOMAIN P,
         \A i \in DOMAIN P, b \in B : P[i] = ParseBill(b) => figures[i] = value[b]
  PROVE  Prorated(P, m, figures) \in Amounts
<1>1. LET C == KnownIn(B, value)
      IN  /\ C = {} => Prorated(P, m, figures) = Null
          /\ C # {} => Prorated(P, m, figures) = Total(PartsIn(C, value, m))
          /\ Total(PartsIn(C, value, m)) \in Fractions /\ IsFiniteSet(C)
  BY ProratedWorks
<1> QED BY <1>1, Zenon DEF Amounts

\* What is rounded stays a number, what is unknown unknown.
LEMMA RoundedIsAmount ==
  ASSUME NEW p \in Amounts, NEW s \in Nat \ {0}
  PROVE  RoundedOrNull(p, s) \in Amounts
<1>1. p # Null => Rounded(p, s) \in Fractions
  BY AmountsAre, RoundedIsNear
<1> QED BY <1>1 DEF RoundedOrNull, Amounts

\* The quotient by a number that is not below or at zero.
LEMMA OverPositive ==
  ASSUME NEW p \in Fractions, NEW q \in Fractions, ~Leq(q, Zero)
  PROVE  Over(p, q) \in Fractions
<1>1. ~(q[1] * Zero[2] <= Zero[1] * q[2])
  BY DEF Leq
<1>2. Zero[1] = 0 /\ Zero[2] = 1 /\ q[1] \in Int /\ q[2] \in Nat
  BY ZeroIsFraction, FractionParts
<1>3. q[1] # 0
  BY <1>1, <1>2
<1> QED BY <1>3, OverIsFraction

\* A bill's own figures are numbers or unknown.
LEMMA BillFigures ==
  ASSUME NEW b, IsBill(b)
  PROVE  LET p == ParseBill(b)
         IN  /\ p.total \in Fractions
             /\ p.consumption \in Amounts /\ p.unitPrice \in Amounts
             /\ p.fixedCharges \in Amounts /\ p.taxes \in Amounts
             /\ EffectivePrice(p) \in Amounts /\ EnergyCharge(p) \in Amounts
<1> DEFINE p == ParseBill(b)
<1>1. /\ p.total \in Fractions
      /\ p.consumption \in Amounts /\ p.unitPrice \in Amounts
      /\ p.fixedCharges \in Amounts /\ p.taxes \in Amounts
  BY DEF ParseBill, IsBill
<1> HIDE DEF p
<1>2. EffectivePrice(p) \in Amounts
  <2>1. CASE p.consumption = Null
    BY <2>1 DEF EffectivePrice, Amounts
  <2>2. CASE p.consumption # Null /\ Leq(p.consumption, Zero)
    BY <2>2 DEF EffectivePrice, Amounts
  <2>3. CASE p.consumption # Null /\ ~Leq(p.consumption, Zero)
    <3>1. EffectivePrice(p) = Over(p.total, p.consumption)
      BY <2>3 DEF EffectivePrice
    <3>2. Over(p.total, p.consumption) \in Fractions
      BY <1>1, <2>3, AmountsAre, OverPositive
    <3> QED BY <3>1, <3>2 DEF Amounts
  <2> QED BY <2>1, <2>2, <2>3
<1>3. EnergyCharge(p) \in Amounts
  <2>1. CASE p.consumption = Null \/ p.unitPrice = Null
    BY <2>1 DEF EnergyCharge, Amounts
  <2>2. CASE p.consumption # Null /\ p.unitPrice # Null
    <3>1. EnergyCharge(p) = Times(p.consumption, p.unitPrice)
      BY <2>2 DEF EnergyCharge
    <3>2. Times(p.consumption, p.unitPrice) \in Fractions
      BY <1>1, <2>2, AmountsAre, TimesIsFraction
    <3> QED BY <3>1, <3>2 DEF Amounts
  <2> QED BY <2>1, <2>2
<1> QED BY <1>1, <1>2, <1>3 DEF p

\* The figures of a month.
Figures == {"cost", "kwh", "effective", "unitPrice", "energy", "fixed", "taxes", "perDay"}
IsFigured(month) == \A f \in Figures : month[f] \in Amounts

\* They are numbers or unknown.
LEMMA BucketIsFigured ==
  ASSUME NEW P, NEW B, Lists(P, B), B # {}, NEW m \in CalendarMonths
  PROVE  IsFigured(Bucket(P, m))
<1> DEFINE cost == Prorated(P, m, Column(P, "total"))
           kwh == Prorated(P, m, Column(P, "consumption"))
           fixed == Prorated(P, m, Column(P, "fixedCharges"))
           taxes == Prorated(P, m, Column(P, "taxes"))
           charges == [i \in DOMAIN P |-> EnergyCharge(P[i])]
           energy == Prorated(P, m, charges)
           month == Bucket(P, m)
<1>1. \A b \in B : IsBill(b)
  BY DEF Lists
<1>2. ASSUME NEW b \in B
      PROVE  LET p == ParseBill(b)
             IN  /\ p.total \in Fractions
                 /\ p.consumption \in Amounts /\ p.unitPrice \in Amounts
                 /\ p.fixedCharges \in Amounts /\ p.taxes \in Amounts
                 /\ EffectivePrice(p) \in Amounts /\ EnergyCharge(p) \in Amounts
  BY <1>1, <1>2, BillFigures
<1>3. ASSUME NEW f, \A b \in B : ParseBill(b)[f] \in Amounts
      PROVE  Prorated(P, m, Column(P, f)) \in Amounts
  <2> DEFINE value == [b \in B |-> ParseBill(b)[f]]
             figures == Column(P, f)
  <2>1. \A b \in B : value[b] \in Amounts
    BY <1>3
  <2>2. /\ DOMAIN figures = DOMAIN P
        /\ \A i \in DOMAIN P, b \in B : P[i] = ParseBill(b) => figures[i] = value[b]
    BY DEF Column
  <2> HIDE DEF value, figures
  <2>3. Prorated(P, m, figures) \in Amounts
    BY <2>1, <2>2, ProratedIsAmount
  <2> QED BY <2>3 DEF figures
<1>4. kwh \in Amounts /\ fixed \in Amounts /\ taxes \in Amounts
  <2>1. \A b \in B : /\ ParseBill(b)["consumption"] \in Amounts
                     /\ ParseBill(b)["fixedCharges"] \in Amounts
                     /\ ParseBill(b)["taxes"] \in Amounts
    BY <1>2
  <2> QED BY <1>3, <2>1
<1>5. energy \in Amounts
  <2> DEFINE value == [b \in B |-> EnergyCharge(ParseBill(b))]
  <2>1. \A b \in B : value[b] \in Amounts
    BY <1>2
  <2>2. /\ DOMAIN charges = DOMAIN P
        /\ \A i \in DOMAIN P, b \in B : P[i] = ParseBill(b) => charges[i] = value[b]
    OBVIOUS
  <2> HIDE DEF value, charges
  <2> QED BY <2>1, <2>2, ProratedIsAmount
<1>6. cost \in Fractions
  <2> DEFINE value == [b \in B |-> b.total_amount]
             figures == Column(P, "total")
             C == KnownIn(B, value)
  <2>1. \A b \in B : value[b] \in Amounts /\ value[b] # Null
    BY <1>1, AmountsAre DEF IsBill, Amounts
  <2>2. /\ DOMAIN figures = DOMAIN P
        /\ \A i \in DOMAIN P, b \in B : P[i] = ParseBill(b) => figures[i] = value[b]
    BY DEF Column, ParseBill
  <2> HIDE DEF value, figures
  <2>3. LET D == KnownIn(B, value)
        IN  /\ D = {} => Prorated(P, m, figures) = Null
            /\ D # {} => Prorated(P, m, figures) = Total(PartsIn(D, value, m))
            /\ Total(PartsIn(D, value, m)) \in Fractions /\ IsFiniteSet(D)
    BY <2>1, <2>2, ProratedWorks
  <2>4. C # {}
    BY <2>1 DEF KnownIn
  <2>5. Prorated(P, m, figures) \in Fractions
    BY <2>3, <2>4
  <2> QED BY <2>5 DEF figures
<1> DEFINE divisible == kwh # Null /\ ~Leq(IF kwh = Null THEN Zero ELSE kwh, Zero)
<1>7. /\ month.cost = Rounded(cost, MoneyScale)
      /\ month.kwh = RoundedOrNull(kwh, MoneyScale)
      /\ month.effective = IF divisible THEN Rounded(Over(cost, kwh), PriceScale) ELSE Null
      /\ month.unitPrice = IF divisible /\ energy # Null
                           THEN Rounded(Over(energy, kwh), PriceScale) ELSE Null
      /\ month.energy = RoundedOrNull(energy, MoneyScale)
      /\ month.fixed = RoundedOrNull(fixed, MoneyScale)
      /\ month.taxes = RoundedOrNull(taxes, MoneyScale)
      /\ month.perDay = Rounded(Over(cost, Whole(DaysInMonth(m))), MoneyScale)
  BY DEF Bucket
<1> HIDE DEF month, cost, kwh, energy, fixed, taxes, charges
<1>8. MoneyScale \in Nat \ {0} /\ PriceScale \in Nat \ {0}
  BY CalendarAssumption
<1>9. month.cost \in Amounts /\ month.perDay \in Amounts
  <2>1. DaysInMonth(m) \in Int /\ DaysInMonth(m) # 0
    BY MonthFacts, CalendarFacts, SMTT(30) DEF DaysInMonth
  <2>2. Over(cost, Whole(DaysInMonth(m))) \in Fractions
    <3>1. Whole(DaysInMonth(m)) \in Fractions /\ Whole(DaysInMonth(m))[1] # 0
      BY <2>1, WholeIsFraction
    <3> QED BY <1>6, <3>1, OverIsFraction
  <2>3. Rounded(cost, MoneyScale) \in Fractions
        /\ Rounded(Over(cost, Whole(DaysInMonth(m))), MoneyScale) \in Fractions
    BY <1>6, <1>8, <2>2, RoundedIsNear
  <2> QED BY <1>7, <2>3 DEF Amounts
<1>10. month.kwh \in Amounts /\ month.energy \in Amounts
       /\ month.fixed \in Amounts /\ month.taxes \in Amounts
  BY <1>4, <1>5, <1>7, <1>8, RoundedIsAmount
<1>11. ASSUME divisible, NEW p \in Fractions PROVE Rounded(Over(p, kwh), PriceScale) \in Amounts
  <2>1. kwh \in Fractions /\ ~Leq(kwh, Zero)
    BY <1>4, <1>11, AmountsAre
  <2>2. Rounded(Over(p, kwh), PriceScale) \in Fractions
    BY <1>8, <2>1, OverPositive, RoundedIsNear
  <2> QED BY <2>2 DEF Amounts
<1> HIDE DEF divisible
<1>12. month.effective \in Amounts /\ month.unitPrice \in Amounts
  <2>1. Null \in Amounts
    BY DEF Amounts
  <2>2. energy # Null => energy \in Fractions
    BY <1>5, AmountsAre
  <2> QED BY <1>6, <1>7, <1>11, <2>1, <2>2
<1> QED BY <1>9, <1>10, <1>12 DEF IsFigured, Figures, month

\* A list of months, each with its figures.
IsFiguredList(list, n) == IsList(list, n) /\ \A i \in 1 .. n : IsFigured(list[i])

\* The months of a page have theirs ...
LEMMA BucketsFigured ==
  ASSUME DataInv
  PROVE  \E c \in Nat : IsFiguredList(buckets, c)
<1>1. PICK c \in Nat :
        /\ buckets = [i \in 1 .. c |-> buckets[i]]
        /\ \A i \in 1 .. c :
             /\ buckets[i].period \in MonthsOf(parsed)
             /\ buckets[i].period \in CalendarMonths
             /\ buckets[i] = Bucket(Touching(parsed, buckets[i].period),
                                    buckets[i].period)
  BY BucketsFacts
<1>2. Lists(parsed, Bills)
  BY BucketsFacts
<1>3. ASSUME NEW i \in 1 .. c PROVE IsFigured(buckets[i])
  <2> DEFINE m == buckets[i].period
             P == Touching(parsed, m)
             B == CoveredBy(Bills, m)
  <2>1. m \in CalendarMonths /\ m \in MonthsOf(parsed) /\ buckets[i] = Bucket(P, m)
    BY <1>1
  <2> HIDE DEF m
  <2>2. Lists(P, B)
    BY <1>2, <2>1, TouchingLists
  <2>3. B # {}
    BY <1>2, <2>1, MonthsOfWorks
  <2> HIDE DEF P, B
  <2>4. IsFigured(Bucket(P, m))
    BY <2>1, <2>2, <2>3, BucketIsFigured
  <2> QED BY <2>1, <2>4
<1>4. IsList(buckets, c)
  BY <1>1 DEF IsList
<1> QED BY <1>3, <1>4 DEF IsFiguredList

\* ... and so have those of the range.
LEMMA RangeFigured ==
  ASSUME Inv
  PROVE  \E k \in Nat : IsFiguredList(InRange(buckets), k)
<1> DEFINE shown == InRange(buckets)
<1>1. PICK c \in Nat : IsList(buckets, c) /\ \A i \in 1 .. c : IsFigured(buckets[i])
  BY BucketsFigured DEF Inv, IsFiguredList
<1>2. PICK k \in 0 .. c :
        /\ InRange(buckets) = [i \in 1 .. k |-> buckets[c - k + i]]
        /\ RangeMonths[range] = Null => k = c
        /\ c # 0 => k # 0
  BY <1>1, InRangeWorks DEF Inv, ControlsInv
<1>3. shown = [i \in 1 .. k |-> buckets[c - k + i]]
  BY <1>2
<1> HIDE DEF shown
<1>4. k \in Nat /\ IsList(shown, k)
  BY <1>3 DEF IsList
<1>5. ASSUME NEW i \in 1 .. k PROVE IsFigured(shown[i])
  <2>1. shown[i] = buckets[c - k + i] /\ c - k + i \in 1 .. c
    BY <1>3
  <2> QED BY <1>1, <2>1
<1> QED BY <1>4, <1>5 DEF IsFiguredList, shown

\* The cells of a chart are finitely many numbers or unknowns.
LEMMA CellsWork ==
  ASSUME NEW rows, IsFiniteSet(DOMAIN rows), NEW series, IsFiniteSet(series),
         \A i \in DOMAIN rows, key \in series : rows[i].value[key] \in Amounts
  PROVE  IsFiniteSet(Cells(rows, series)) /\ Cells(rows, series) \subseteq Amounts
<1> DEFINE D == (DOMAIN rows) \X series
           f == [p \in D |-> rows[p[1]].value[p[2]]]
<1>1. IsFiniteSet(D)
  BY FS_Product
<1>2. f = [p \in D |-> f[p]]
  OBVIOUS
<1>3. Values(f, D) = Cells(rows, series)
  <2>1. \A i \in DOMAIN rows, key \in series :
          <<i, key>> \in D /\ f[<<i, key>>] = rows[i].value[key]
    OBVIOUS
  <2>2. \A p \in D : p[1] \in DOMAIN rows /\ p[2] \in series /\ f[p] = rows[p[1]].value[p[2]]
    OBVIOUS
  <2> HIDE DEF D, f
  <2>3. ASSUME NEW v \in Values(f, D) PROVE v \in Cells(rows, series)
    <3>1. PICK p \in D : v = f[p]
      BY DEF Values
    <3> QED BY <2>2, <3>1 DEF Cells
  <2>4. ASSUME NEW v \in Cells(rows, series) PROVE v \in Values(f, D)
    <3>1. PICK i \in DOMAIN rows, key \in series : v = rows[i].value[key]
      BY DEF Cells
    <3>2. <<i, key>> \in D /\ v = f[<<i, key>>]
      BY <2>1, <3>1
    <3> QED BY <3>2 DEF Values
  <2> QED BY <2>3, <2>4
<1> HIDE DEF D, f
<1>4. IsFiniteSet(Cells(rows, series))
  BY <1>1, <1>2, <1>3, FewValues
<1>5. Cells(rows, series) \subseteq Amounts
  BY DEF Cells
<1> QED BY <1>4, <1>5

\* A mark is drawn for every value there is.
LEMMA MarksAreDrawn ==
  ASSUME NEW chart
  PROVE  Marks(chart) = Drawn(Cells(chart.rows, chart.series))
<1> DEFINE M == CompareChart(chart).marks
           rows == chart.rows
           series == chart.series
<1>1. M = {mark \in (DOMAIN rows) \X series : rows[mark[1]].value[mark[2]] # Null}
  BY DEF CompareChart
<1>2. Marks(chart) = {rows[mark[1]].value[mark[2]] : mark \in M}
  BY DEF Marks
<1> HIDE DEF M, rows, series
<1>3. ASSUME NEW v \in Marks(chart) PROVE v \in Drawn(Cells(rows, series))
  <2>1. PICK mark \in M : v = rows[mark[1]].value[mark[2]]
    BY <1>2
  <2>2. mark[1] \in DOMAIN rows /\ mark[2] \in series /\ rows[mark[1]].value[mark[2]] # Null
    BY <1>1, <2>1
  <2> HIDE DEF CompareChart
  <2> QED BY <2>1, <2>2 DEF Drawn, Cells
<1>4. ASSUME NEW v \in Drawn(Cells(rows, series)) PROVE v \in Marks(chart)
  <2>1. PICK i \in DOMAIN rows, key \in series : v = rows[i].value[key]
    BY DEF Drawn, Cells
  <2>2. v # Null
    BY DEF Drawn
  <2>3. <<i, key>> \in M
    BY <1>1, <2>1, <2>2
  <2>4. v = rows[<<i, key>>[1]].value[<<i, key>>[2]]
    BY <2>1
  <2> QED BY <1>2, <2>3, <2>4
<1> QED BY <1>3, <1>4 DEF rows, series

\* A chart whose axis is made for its cells holds them.
LEMMA ChartHolds ==
  ASSUME NEW chart, NEW metric, NEW ticks \in 2 .. 4,
         IsFiniteSet(DOMAIN chart.rows), IsFiniteSet(chart.series),
         \A i \in DOMAIN chart.rows, key \in chart.series :
           chart.rows[i].value[key] \in Amounts,
         chart.domain = DomainFor(metric, Cells(chart.rows, chart.series), ticks)
  PROVE  \/ IsPadded(metric) /\ BelowZero(Marks(chart))
         \/ Holds(chart.domain, Marks(chart))
<1> DEFINE V == Cells(chart.rows, chart.series)
<1>1. IsFiniteSet(V) /\ V \subseteq Amounts
  BY CellsWork
<1>2. Marks(chart) = Drawn(V)
  BY MarksAreDrawn
<1>3. chart.domain = IF IsPadded(metric) THEN PaddedDomain(V, ticks) ELSE ZeroBasedDomain(V, ticks)
  BY DEF DomainFor
<1> HIDE DEF V
<1>4. CASE IsPadded(metric) /\ ~BelowZero(Drawn(V))
  <2>1. Holds(PaddedDomain(V, ticks), Drawn(V))
    BY <1>1, <1>4, PaddedHolds
  <2> QED BY <1>2, <1>3, <1>4, <2>1
<1>5. CASE ~IsPadded(metric)
  <2>1. Holds(ZeroBasedDomain(V, ticks), Drawn(V))
    BY <1>1, ZeroBasedHolds
  <2> QED BY <1>2, <1>3, <1>5, <2>1
<1> QED BY <1>2, <1>4, <1>5

\* What a metric selects from a month is a number or unknown.
LEMMA SelectWorks ==
  ASSUME NEW metric \in MetricIds, NEW month, IsFigured(month)
  PROVE  Select(metric, month) \in Amounts
<1>1. FieldOf[metric] \in Figures
  BY DEF MetricIds, FieldOf, Figures
<1> QED BY <1>1 DEF Select, IsFigured

\* A change between two figures is a number or unknown.
LEMMA PctIsAmount ==
  ASSUME NEW p \in Fractions, NEW q \in Fractions
  PROVE  PctChange(p, q) \in Amounts
<1>1. CASE p = Zero
  BY <1>1 DEF PctChange, Amounts
<1>2. CASE p # Zero
  <2>1. p[1] \in Int /\ p[2] \in Nat \ {0} /\ p[1] # 0
    <3>1. p[1] \in Int /\ p[2] \in Nat \ {0}
      BY FractionParts
    <3>2. p[1] = 0 => p[1] * Zero[2] = Zero[1] * p[2]
      BY <3>1, ZeroIsFraction
    <3> QED BY <1>2, <3>1, <3>2, ZeroIsFraction, FractionsEqual
  <2>2. AbsOf(p) \in Fractions /\ AbsOf(p)[1] # 0
    <3>1. AbsOf(p)[1] = Abs(p[1])
      BY DEF AbsOf
    <3>2. Abs(p[1]) # 0
      BY <2>1 DEF Abs
    <3> QED BY <3>1, <3>2, AbsWorks
  <2>3. Over(Minus(q, p), AbsOf(p)) \in Fractions
    BY <2>2, MinusIsFraction, OverIsFraction
  <2>4. Times(Over(Minus(q, p), AbsOf(p)), Whole(100)) \in Fractions
    BY <2>3, WholeIsFraction, TimesIsFraction
  <2> QED BY <1>2, <2>4 DEF PctChange, Amounts
<1> QED BY <1>1, <1>2

\* The ticks a chart asks for.
LEMMA TicksAsked == \A density : TicksOf(density) \in 2 .. 4
BY DEF TicksOf

\* A year against the year before.
LEMMA YearOnYearHolds ==
  ASSUME NEW metric \in MetricIds, NEW n \in Nat, NEW list, IsFiguredList(list, n), NEW density
  PROVE  LET chart == BuildYoy(list, metric, density)
         IN  \/ IsPadded(metric) /\ BelowZero(Marks(chart))
             \/ Holds(chart.domain, Marks(chart))
<1> DEFINE current == Trailing(list, MonthsPerYear)
           prior   == BeforeTrailing(list, MonthsPerYear)
           chart   == BuildYoy(list, metric, density)
           cell(i) == [current |-> Select(metric, current[i]),
                       prior   |-> IF i \in DOMAIN prior THEN Select(metric, prior[i])
                                   ELSE Null]
           k == IF n <= MonthsPerYear THEN n ELSE MonthsPerYear
<1>0. MonthsPerYear \in Nat \ {0} /\ IsList(list, n)
  BY CalendarAssumption DEF IsFiguredList
<1>1. k \in 0 .. n /\ PartOfList(current, list, n - k, k)
  BY <1>0, TrailingWorks
<1>2. PICK l \in Nat, a \in Nat : PartOfList(prior, list, a, l) /\ a + l <= n
  BY <1>0, BeforeTrailingWorks
<1>3. DOMAIN chart.rows = DOMAIN current /\ chart.series = {"current", "prior"}
      /\ chart.domain = DomainFor(metric, Cells(chart.rows, chart.series), TicksOf(density))
  BY DEF BuildYoy
<1>4. \A i \in DOMAIN current : chart.rows[i].value = cell(i)
  BY DEF BuildYoy
<1> HIDE DEF chart, current, prior, k
<1>5. DOMAIN current = 1 .. k /\ \A i \in 1 .. k : current[i] = list[n - k + i]
  BY <1>1 DEF PartOfList
<1>6. DOMAIN prior = 1 .. l /\ \A i \in 1 .. l : prior[i] = list[a + i]
  BY <1>2 DEF PartOfList
<1>7. ASSUME NEW i \in DOMAIN current PROVE Select(metric, current[i]) \in Amounts
  <2>1. n - k + i \in 1 .. n /\ current[i] = list[n - k + i]
    BY <1>1, <1>5
  <2> QED BY <2>1, SelectWorks DEF IsFiguredList
<1>8. ASSUME NEW i \in DOMAIN prior PROVE Select(metric, prior[i]) \in Amounts
  <2>1. a + i \in 1 .. n /\ prior[i] = list[a + i]
    BY <1>2, <1>6
  <2> QED BY <2>1, SelectWorks DEF IsFiguredList
<1>9. ASSUME NEW i \in DOMAIN current
      PROVE  /\ chart.rows[i].value["current"] \in Amounts
             /\ chart.rows[i].value["prior"] \in Amounts
  <2> DEFINE p == Select(metric, current[i])
             q == IF i \in DOMAIN prior THEN Select(metric, prior[i]) ELSE Null
             value == chart.rows[i].value
  <2>1. value = [current |-> p, prior |-> q]
    BY <1>4
  <2>2. p \in Amounts /\ q \in Amounts
    BY <1>7, <1>8 DEF Amounts
  <2> HIDE DEF p, q, value
  <2>3. value["current"] \in Amounts /\ value["prior"] \in Amounts
    BY <2>1, <2>2
  <2> QED BY <2>3 DEF value
<1>10. IsFiniteSet(DOMAIN chart.rows) /\ IsFiniteSet(chart.series)
  <2>1. IsFiniteSet(1 .. k)
    BY <1>1, FS_Interval
  <2>2. IsFiniteSet({"current", "prior"})
    <3>1. IsFiniteSet({"current"} \cup {"prior"})
      BY FS_Singleton, FS_AddElement
    <3>2. {"current"} \cup {"prior"} = {"current", "prior"}
      OBVIOUS
    <3> QED BY <3>1, <3>2
  <2> QED BY <1>3, <1>5, <2>1, <2>2
<1>11. \A i \in DOMAIN chart.rows, key \in chart.series : chart.rows[i].value[key] \in Amounts
  BY <1>3, <1>9
<1>12. \/ IsPadded(metric) /\ BelowZero(Marks(chart))
       \/ Holds(chart.domain, Marks(chart))
  BY <1>3, <1>10, <1>11, TicksAsked, ChartHolds
<1> QED BY <1>12 DEF chart

\* The years of a list of months are finitely many.
LEMMA YearsAreFinite ==
  ASSUME NEW n \in Nat, NEW list, IsList(list, n)
  PROVE  IsFiniteSet(Years(list))
<1> DEFINE f == [i \in 1 .. n |-> YearOf(list[i].period)]
<1>1. DOMAIN list = 1 .. n
  BY DEF IsList
<1>2. f = [i \in 1 .. n |-> f[i]] /\ Values(f, 1 .. n) = Years(list)
  BY <1>1 DEF Values, Years
<1> HIDE DEF f
<1>3. IsFiniteSet(1 .. n)
  BY FS_Interval
<1>4. IsFiniteSet(Values(f, 1 .. n))
  BY <1>2, <1>3, FewValues
<1> QED BY <1>2, <1>4

\* The years against each other.
LEMMA YearsHold ==
  ASSUME NEW metric \in MetricIds, NEW n \in Nat, NEW list, IsFiguredList(list, n),
         NEW years, NEW density
  PROVE  LET chart == BuildYears(list, metric, years, density)
         IN  \/ IsPadded(metric) /\ BelowZero(Marks(chart))
             \/ Holds(chart.domain, Marks(chart))
<1> DEFINE selected == (IF years = {} THEN Years(list) ELSE years) \cap Years(list)
           chart    == BuildYears(list, metric, years, density)
           cell(year, month) ==
             IF HasMonth(list, year * MonthsPerYear + month)
             THEN Select(metric, FindMonth(list, year * MonthsPerYear + month)) ELSE Null
<1>0. IsList(list, n) /\ DOMAIN list = 1 .. n
  BY DEF IsFiguredList, IsList
<1>1. DOMAIN chart.rows = 1 .. MonthsPerYear /\ chart.series = selected
      /\ chart.domain = DomainFor(metric, Cells(chart.rows, chart.series), TicksOf(density))
  BY DEF BuildYears
<1>2. \A i \in 1 .. MonthsPerYear, year \in selected :
        chart.rows[i].value[year] = cell(year, i)
  BY DEF BuildYears
<1>3. IsFiniteSet(selected)
  BY <1>0, YearsAreFinite, FS_Subset
<1> HIDE DEF chart, selected
<1>4. ASSUME NEW m, HasMonth(list, m) PROVE Select(metric, FindMonth(list, m)) \in Amounts
  <2>1. \E i \in DOMAIN list : list[i].period = m
    BY <1>4 DEF HasMonth
  <2>2. PICK i \in DOMAIN list : FindMonth(list, m) = list[i]
    BY <1>4, <2>1, Zenon DEF FindMonth
  <2> QED BY <1>0, <2>2, SelectWorks DEF IsFiguredList
<1>5. ASSUME NEW i \in DOMAIN chart.rows, NEW key \in chart.series
      PROVE  chart.rows[i].value[key] \in Amounts
  <2>1. chart.rows[i].value[key] = cell(key, i)
    BY <1>1, <1>2
  <2>2. Null \in Amounts
    BY DEF Amounts
  <2> QED BY <1>4, <2>1, <2>2
<1>6. IsFiniteSet(DOMAIN chart.rows) /\ IsFiniteSet(chart.series)
  <2>1. IsFiniteSet(1 .. MonthsPerYear)
    BY CalendarAssumption, FS_Interval
  <2> QED BY <1>1, <1>3, <2>1
<1>7. \/ IsPadded(metric) /\ BelowZero(Marks(chart))
      \/ Holds(chart.domain, Marks(chart))
  BY <1>1, <1>5, <1>6, TicksAsked, ChartHolds
<1> QED BY <1>7 DEF chart

\* One month of every year.
LEMMA OneMonthHolds ==
  ASSUME NEW metric \in MetricIds, NEW n \in Nat, NEW list, IsFiguredList(list, n),
         NEW month, NEW density
  PROVE  LET chart == BuildSame(list, metric, month, density)
         IN  \/ IsPadded(metric) /\ BelowZero(Marks(chart))
             \/ Holds(chart.domain, Marks(chart))
<1> DEFINE S == {i \in DOMAIN list : MonthInYear(list[i].period) = month}
           matching == Sublist(list, S)
           chart == BuildSame(list, metric, month, density)
<1>0. DOMAIN list = 1 .. n
  BY DEF IsFiguredList, IsList
<1>1. DOMAIN chart.rows = DOMAIN matching /\ chart.series = {"value"}
      /\ chart.domain = DomainFor(metric, Cells(chart.rows, {"value"}), TicksOf(density))
  BY DEF BuildSame
<1>2. \A i \in DOMAIN matching :
        chart.rows[i].value = [value |-> Select(metric, matching[i])]
  BY DEF BuildSame
<1>3. S \subseteq 1 .. n /\ S \subseteq Int /\ IsFiniteSet(S)
  <2>1. S \subseteq 1 .. n
    BY <1>0
  <2>2. IsFiniteSet(1 .. n)
    BY FS_Interval
  <2> QED BY <2>1, <2>2, FS_Subset
<1> HIDE DEF chart, S
<1>4. /\ DOMAIN matching = 1 .. Cardinality(S)
      /\ \A k \in 1 .. Cardinality(S) :
           InOrder(S)[k] \in S /\ matching[k] = list[InOrder(S)[k]]
  BY <1>3, SublistWorks
<1> HIDE DEF matching
<1>5. ASSUME NEW i \in DOMAIN matching PROVE Select(metric, matching[i]) \in Amounts
  <2>1. InOrder(S)[i] \in 1 .. n /\ matching[i] = list[InOrder(S)[i]]
    BY <1>3, <1>4
  <2> QED BY <2>1, SelectWorks DEF IsFiguredList
<1>6. ASSUME NEW i \in DOMAIN chart.rows, NEW key \in chart.series
      PROVE  chart.rows[i].value[key] \in Amounts
  <2> DEFINE p == Select(metric, matching[i])
             value == chart.rows[i].value
  <2>1. value = [value |-> p] /\ p \in Amounts /\ key = "value"
    BY <1>1, <1>2, <1>5
  <2> HIDE DEF p, value
  <2>2. value[key] \in Amounts
    BY <2>1
  <2> QED BY <2>2 DEF value
<1>7. IsFiniteSet(DOMAIN chart.rows) /\ IsFiniteSet(chart.series)
  <2>1. Cardinality(S) \in Nat
    BY <1>3, FS_CardinalityType
  <2>2. IsFiniteSet(1 .. Cardinality(S))
    BY <2>1, FS_Interval
  <2>3. IsFiniteSet({"value"})
    BY FS_Singleton
  <2> QED BY <1>1, <1>4, <2>2, <2>3
<1>8. \/ IsPadded(metric) /\ BelowZero(Marks(chart))
      \/ Holds(chart.domain, Marks(chart))
  BY <1>1, <1>6, <1>7, TicksAsked, ChartHolds
<1> QED BY <1>8 DEF chart

\* The change from each month to the next.
LEMMA ChangesHold ==
  ASSUME NEW metric \in MetricIds, NEW n \in Nat, NEW list, IsFiguredList(list, n), NEW density
  PROVE  LET chart == BuildMom(list, metric, density)
         IN  Holds(chart.domain, Marks(chart))
<1> DEFINE chart == BuildMom(list, metric, density)
           change(i) == IF Select(metric, list[i]) = Null \/ Select(metric, list[i + 1]) = Null
                        THEN Null
                        ELSE PctChange(Select(metric, list[i]), Select(metric, list[i + 1]))
           k == Max({0, n - 1})
           V == Cells(chart.rows, {"change"})
<1>0. DOMAIN list = 1 .. n /\ Len(list) = n
  BY DEF IsFiguredList, IsList
<1>1. DOMAIN chart.rows = 1 .. k /\ chart.series = {"change"}
      /\ chart.domain = SymmetricDomain(V, TicksOf(density))
  BY <1>0 DEF BuildMom
<1>2. \A i \in 1 .. k : chart.rows[i].value = [change |-> change(i)]
  BY <1>0 DEF BuildMom
<1> HIDE DEF chart, k
<1>3. k = IF n = 0 THEN 0 ELSE n - 1
  <2> DEFINE d == n - 1
  <2>1. d \in Int /\ 0 \in Int
    OBVIOUS
  <2> HIDE DEF d
  <2>2. Max({0, d}) = IF 0 >= d THEN 0 ELSE d
    BY <2>1, MaxOfTwo
  <2> QED BY <2>2 DEF k, d
<1>4. ASSUME NEW i \in DOMAIN chart.rows, NEW key \in chart.series
      PROVE  chart.rows[i].value[key] \in Amounts
  <2> DEFINE p == Select(metric, list[i])
             q == Select(metric, list[i + 1])
             c == change(i)
             value == chart.rows[i].value
  <2>1. i \in 1 .. n /\ i + 1 \in 1 .. n
    BY <1>1, <1>3
  <2>2. p \in Amounts /\ q \in Amounts
    BY <2>1, SelectWorks DEF IsFiguredList
  <2>3. c = IF p = Null \/ q = Null THEN Null ELSE PctChange(p, q)
    OBVIOUS
  <2>4. value = [change |-> c] /\ key = "change"
    BY <1>1, <1>2
  <2> HIDE DEF p, q, c, value
  <2>5. c \in Amounts
    <3>1. Null \in Amounts
      BY DEF Amounts
    <3> QED BY <2>2, <2>3, <3>1, AmountsAre, PctIsAmount
  <2>6. value[key] \in Amounts
    BY <2>4, <2>5
  <2> QED BY <2>6 DEF value
<1>5. IsFiniteSet(DOMAIN chart.rows) /\ IsFiniteSet(chart.series)
  <2>1. IsFiniteSet(1 .. k)
    BY <1>3, FS_Interval
  <2>2. IsFiniteSet({"change"})
    BY FS_Singleton
  <2> QED BY <1>1, <2>1, <2>2
<1>6. IsFiniteSet(V) /\ V \subseteq Amounts
  <2>1. IsFiniteSet(Cells(chart.rows, chart.series))
        /\ Cells(chart.rows, chart.series) \subseteq Amounts
    BY <1>4, <1>5, CellsWork
  <2> QED BY <1>1, <2>1
<1>7. Marks(chart) = Drawn(V)
  BY <1>1, MarksAreDrawn
<1> HIDE DEF V
<1>8. Holds(SymmetricDomain(V, TicksOf(density)), Drawn(V))
  BY <1>6, TicksAsked, SymmetricHolds
<1>9. Holds(chart.domain, Marks(chart))
  BY <1>1, <1>7, <1>8
<1> QED BY <1>9 DEF chart

\* Finitely many places of a list have finitely many values.
LEMMA ImageOfList ==
  ASSUME NEW n \in Nat, NEW f, f = [i \in 1 .. n |-> f[i]], \A i \in 1 .. n : f[i] \in Amounts
  PROVE  IsFiniteSet({f[i] : i \in 1 .. n}) /\ {f[i] : i \in 1 .. n} \subseteq Amounts
<1>0. \A a, b \in Int : IsFiniteSet(a .. b)
  BY FS_Interval
<1>1. IsFiniteSet(1 .. n)
  BY <1>0
<1>2. IsFiniteSet(Values(f, 1 .. n))
  BY <1>1, FewValues
<1> QED BY <1>2 DEF Values

OrNothing(p) == IF p = Null THEN Zero ELSE p

\* A price and what comes on top of it, as far as it is known.
LEMMA StackIsAmount ==
  ASSUME NEW p \in Amounts, NEW q \in Amounts, NEW r \in Amounts
  PROVE  (IF p = Null THEN Null ELSE Plus(p, Plus(OrNothing(q), OrNothing(r)))) \in Amounts
<1>1. OrNothing(q) \in Fractions /\ OrNothing(r) \in Fractions
  BY AmountsAre, ZeroIsFraction DEF OrNothing
<1>2. p # Null => Plus(p, Plus(OrNothing(q), OrNothing(r))) \in Fractions
  BY <1>1, AmountsAre, PlusIsFraction
<1> QED BY <1>2 DEF Amounts

\* The decomposition of the price, stacked.
LEMMA MixHolds ==
  ASSUME NEW n \in Nat, NEW list, IsFiguredList(list, n)
  PROVE  LET chart == BuildMix(list) IN Holds(chart.domain, Drawn(chart.totals))
<1> DEFINE chart == BuildMix(list)
           used(b) == IF b.kwh = Null THEN FALSE ELSE Less(Zero, b.kwh)
           perKwh(part, b) == IF part = Null THEN Null ELSE Over(part, b.kwh)
           energy(b) == IF used(b) THEN b.unitPrice ELSE Null
           standing(b) == IF used(b) THEN perKwh(b.fixed, b) ELSE Null
           tax(b) == IF used(b) THEN perKwh(b.taxes, b) ELSE Null
           stack(b) == IF energy(b) = Null THEN Null
                       ELSE Plus(energy(b), Plus(OrNothing(standing(b)), OrNothing(tax(b))))
           f == [i \in 1 .. n |-> stack(list[i])]
<1>1. DOMAIN list = 1 .. n
  BY DEF IsFiguredList, IsList
<1>2. chart.totals = {f[i] : i \in 1 .. n}
  <2> DEFINE rows == chart.rows
             value(b) == [energy |-> energy(b), standing |-> standing(b), tax |-> tax(b)]
             stacked(r) == IF r.value.energy = Null THEN Null
                           ELSE Plus(r.value.energy, Plus(OrNothing(r.value.standing),
                                                          OrNothing(r.value.tax)))
  <2>1. DOMAIN rows = 1 .. n /\ \A i \in 1 .. n : rows[i].value = value(list[i])
    BY <1>1 DEF BuildMix
  <2>2. chart.totals = {stacked(rows[i]) : i \in DOMAIN rows}
    <3> DEFINE R == [i \in DOMAIN list |->
                       [x |-> MonthInYear(list[i].period), value |-> value(list[i])]]
    <3>1. chart.totals = {stacked(R[i]) : i \in DOMAIN R}
      BY Zenon DEF BuildMix, OrNothing
    <3>2. rows = R
      BY Zenon DEF BuildMix
    <3> HIDE DEF rows, R, chart, stacked
    <3> QED BY <3>1, <3>2
  <2> HIDE DEF chart, rows, energy, standing, tax
  <2>3. ASSUME NEW i \in 1 .. n PROVE stacked(rows[i]) = f[i]
    <3> DEFINE v == rows[i].value
    <3>1. v = value(list[i])
      BY <2>1
    <3> HIDE DEF v
    <3>2. v.energy = energy(list[i]) /\ v.standing = standing(list[i]) /\ v.tax = tax(list[i])
      BY <3>1
    <3>3. f[i] = stack(list[i])
      OBVIOUS
    <3> QED BY <3>2, <3>3 DEF v
  <2> HIDE DEF f, stacked
  <2> QED BY <2>1, <2>2, <2>3
<1>3. chart.domain = ZeroBasedDomain(chart.totals, 4)
  BY DEF BuildMix
<1>4. ASSUME NEW b, IsFigured(b) PROVE stack(b) \in Amounts
  <2>1. b.kwh \in Amounts /\ b.unitPrice \in Amounts /\ b.fixed \in Amounts /\ b.taxes \in Amounts
    BY <1>4 DEF IsFigured, Figures
  <2>2. ASSUME used(b), NEW part \in Fractions PROVE Over(part, b.kwh) \in Fractions
    <3>1. b.kwh \in Fractions /\ Less(Zero, b.kwh)
      BY <2>1, <2>2, AmountsAre
    <3>2. ~Leq(b.kwh, Zero)
      BY <3>1, ZeroIsFraction, LeqIsAnOrder
    <3> QED BY <3>1, <3>2, OverPositive
  <2>3. Null \in Amounts
    BY DEF Amounts
  <2> HIDE DEF used
  <2>4. ASSUME NEW part \in Amounts PROVE (IF used(b) THEN perKwh(part, b) ELSE Null) \in Amounts
    <3>1. ASSUME used(b), part # Null PROVE Over(part, b.kwh) \in Amounts
      BY <2>2, <3>1, AmountsAre DEF Amounts
    <3> QED BY <2>3, <3>1
  <2>5. energy(b) \in Amounts /\ standing(b) \in Amounts /\ tax(b) \in Amounts
    BY <2>1, <2>3, <2>4
  <2> HIDE DEF energy, standing, tax
  <2> QED BY <2>5, StackIsAmount
<1>5. f = [i \in 1 .. n |-> f[i]] /\ \A i \in 1 .. n : f[i] \in Amounts
  BY <1>4 DEF IsFiguredList
<1> HIDE DEF f, chart
<1>6. IsFiniteSet(chart.totals) /\ chart.totals \subseteq Amounts
  BY <1>2, <1>5, ImageOfList
<1>7. Holds(chart.domain, Drawn(chart.totals))
  BY <1>3, <1>6, ZeroBasedHolds
<1> QED BY <1>7 DEF chart

\* The bills in the range are some of the bills.
LEMMA BillsInRangeAreBills ==
  ASSUME Inv
  PROVE  \E n \in Nat : /\ DOMAIN BillsInRange = 1 .. n
                        /\ \A i \in 1 .. n : \E b : IsBill(b) /\ BillsInRange[i] = ParseBill(b)
<1>1. Lists(parsed, Bills)
  BY BucketsFacts DEF Inv
<1>2. PICK n \in Nat : DOMAIN parsed = 1 .. n
  BY <1>1 DEF Lists
<1>3. ASSUME NEW i \in 1 .. n PROVE \E b : IsBill(b) /\ parsed[i] = ParseBill(b)
  BY <1>1, <1>2 DEF Lists
<1>4. CASE BillsInRange = parsed
  BY <1>2, <1>3, <1>4
<1>5. CASE BillsInRange # parsed
  <2> DEFINE S == {i \in DOMAIN parsed : PeriodOf(parsed[i]) >= InRange(buckets)[1].period}
  <2>1. BillsInRange = Sublist(parsed, S)
    BY <1>5 DEF BillsInRange
  <2>2. S \subseteq 1 .. n /\ S \subseteq Int /\ IsFiniteSet(S)
    <3>1. S \subseteq 1 .. n
      BY <1>2
    <3>2. IsFiniteSet(1 .. n)
      BY FS_Interval
    <3> QED BY <3>1, <3>2, FS_Subset
  <2> HIDE DEF S
  <2>3. /\ DOMAIN BillsInRange = 1 .. Cardinality(S)
        /\ \A k \in 1 .. Cardinality(S) :
             InOrder(S)[k] \in S /\ BillsInRange[k] = parsed[InOrder(S)[k]]
    BY <2>1, <2>2, SublistWorks
  <2>4. Cardinality(S) \in Nat
    BY <2>2, FS_CardinalityType
  <2>5. ASSUME NEW i \in 1 .. Cardinality(S)
        PROVE  \E b : IsBill(b) /\ BillsInRange[i] = ParseBill(b)
    <3>1. InOrder(S)[i] \in 1 .. n /\ BillsInRange[i] = parsed[InOrder(S)[i]]
      BY <2>2, <2>3
    <3> QED BY <1>3, <3>1
  <2> QED BY <2>3, <2>4, <2>5
<1> QED BY <1>4, <1>5

\* What the hero chart draws, of months and of bills.
LEMMA HeroFigures ==
  ASSUME Inv
  PROVE  \E n \in Nat : /\ DOMAIN HeroRows = 1 .. n
                        /\ \A i \in 1 .. n : /\ HeroRows[i].kwh \in Amounts
                                             /\ HeroRows[i]["effective"] \in Amounts
                                             /\ HeroRows[i]["unitPrice"] \in Amounts
<1>1. CASE granularity = "month"
  <2>1. PICK k \in Nat : IsFiguredList(InRange(buckets), k)
    BY RangeFigured
  <2>2. HeroRows = InRange(buckets)
    BY <1>1 DEF HeroRows
  <2>3. DOMAIN HeroRows = 1 .. k /\ \A i \in 1 .. k : IsFigured(HeroRows[i])
    BY <2>1, <2>2 DEF IsFiguredList, IsList
  <2> QED BY <2>3 DEF IsFigured, Figures
<1>2. CASE granularity # "month"
  <2>1. HeroRows = BillsAsPoints(BillsInRange)
    BY <1>2 DEF HeroRows
  <2>2. PICK n \in Nat :
          /\ DOMAIN BillsInRange = 1 .. n
          /\ \A i \in 1 .. n : \E b : IsBill(b) /\ BillsInRange[i] = ParseBill(b)
    BY BillsInRangeAreBills
  <2>3. DOMAIN HeroRows = 1 .. n
    BY <2>1, <2>2 DEF BillsAsPoints
  <2>4. ASSUME NEW i \in 1 .. n
        PROVE  /\ HeroRows[i].kwh \in Amounts
               /\ HeroRows[i]["effective"] \in Amounts
               /\ HeroRows[i]["unitPrice"] \in Amounts
    <3> DEFINE p == BillsInRange[i]
    <3>1. PICK b : IsBill(b) /\ p = ParseBill(b)
      BY <2>2
    <3>2. HeroRows[i].kwh = p.consumption /\ HeroRows[i].effective = EffectivePrice(p)
          /\ HeroRows[i].unitPrice = p.unitPrice
      BY <2>1, <2>2 DEF BillsAsPoints
    <3> HIDE DEF p
    <3>3. p.consumption \in Amounts /\ p.unitPrice \in Amounts /\ EffectivePrice(p) \in Amounts
      BY <3>1, BillFigures
    <3> QED BY <3>2, <3>3
  <2> QED BY <2>3, <2>4
<1> QED BY <1>1, <1>2

\* Both axes of the hero chart hold what is drawn on them.
LEMMA HeroHolds ==
  ASSUME Inv
  PROVE  /\ Holds(HeroAxes.left.domain, Drawn(HeroAxes.left.values))
         /\ \/ BelowZero(Drawn(HeroAxes.right.values))
            \/ Holds(HeroAxes.right.domain, Drawn(HeroAxes.right.values))
<1> DEFINE rows == HeroRows
           fields == {"effective", "unitPrice"}
           kwh == {rows[i].kwh : i \in DOMAIN rows}
           prices == {rows[i][field] : i \in DOMAIN rows, field \in fields}
<1>1. /\ HeroAxes.left.values = kwh /\ HeroAxes.left.domain = ZeroBasedDomain(kwh, 4)
      /\ HeroAxes.right.values = prices /\ HeroAxes.right.domain = PaddedDomain(prices, 4)
  BY DEF HeroAxes
<1>2. PICK n \in Nat : /\ DOMAIN rows = 1 .. n
                       /\ \A i \in 1 .. n : /\ rows[i].kwh \in Amounts
                                            /\ rows[i]["effective"] \in Amounts
                                            /\ rows[i]["unitPrice"] \in Amounts
  BY HeroFigures
<1> HIDE DEF rows
<1>3. IsFiniteSet(kwh) /\ kwh \subseteq Amounts
  <2> DEFINE f == [i \in 1 .. n |-> rows[i].kwh]
  <2>1. f = [i \in 1 .. n |-> f[i]] /\ (\A i \in 1 .. n : f[i] \in Amounts)
        /\ kwh = {f[i] : i \in 1 .. n}
    BY <1>2
  <2> HIDE DEF f, kwh
  <2> QED BY <2>1, ImageOfList
<1>4. IsFiniteSet(prices) /\ prices \subseteq Amounts
  <2> DEFINE f == [i \in 1 .. n |-> rows[i]["effective"]]
             g == [i \in 1 .. n |-> rows[i]["unitPrice"]]
  <2>1. f = [i \in 1 .. n |-> f[i]] /\ \A i \in 1 .. n : f[i] \in Amounts
    BY <1>2
  <2>2. g = [i \in 1 .. n |-> g[i]] /\ \A i \in 1 .. n : g[i] \in Amounts
    BY <1>2
  <2>3. prices = {f[i] : i \in 1 .. n} \cup {g[i] : i \in 1 .. n}
    BY <1>2
  <2> HIDE DEF f, g, prices
  <2>4. IsFiniteSet({f[i] : i \in 1 .. n}) /\ {f[i] : i \in 1 .. n} \subseteq Amounts
    BY <2>1, ImageOfList
  <2>5. IsFiniteSet({g[i] : i \in 1 .. n}) /\ {g[i] : i \in 1 .. n} \subseteq Amounts
    BY <2>2, ImageOfList
  <2>6. IsFiniteSet({f[i] : i \in 1 .. n} \cup {g[i] : i \in 1 .. n})
    BY <2>4, <2>5, FS_Union
  <2> QED BY <2>3, <2>4, <2>5, <2>6
<1> HIDE DEF kwh, prices
<1>5. Holds(ZeroBasedDomain(kwh, 4), Drawn(kwh))
  BY <1>3, ZeroBasedHolds
<1>6. BelowZero(Drawn(prices)) \/ Holds(PaddedDomain(prices, 4), Drawn(prices))
  BY <1>4, PaddedHolds
<1> QED BY <1>1, <1>5, <1>6

(***************************************************************************)
(* The axes hold their data: the scatter                                   *)
(***************************************************************************)
\* The figures of a parsed bill.
BillFigured(b) ==
  /\ b.total \in Fractions
  /\ b.consumption \in Amounts /\ b.unitPrice \in Amounts
  /\ b.fixedCharges \in Amounts /\ b.taxes \in Amounts
  /\ EffectivePrice(b) \in Amounts /\ EnergyCharge(b) \in Amounts

\* The bills of a page are numbers or unknown.
LEMMA ParsedList ==
  ASSUME DataInv
  PROVE  \E n \in Nat : /\ IsList(parsed, n) /\ DOMAIN parsed = 1 .. n /\ Len(parsed) = n
                        /\ \A i \in 1 .. n : BillFigured(parsed[i])
<1>1. Lists(parsed, Bills)
  BY BucketsList
<1>2. PICK n \in Nat : IsList(parsed, n)
  BY ParsedIsList
<1>3. DOMAIN parsed = 1 .. n /\ Len(parsed) = n
  BY <1>2 DEF IsList
<1>4. ASSUME NEW i \in 1 .. n PROVE BillFigured(parsed[i])
  <2>1. PICK b \in Bills : parsed[i] = ParseBill(b) /\ IsBill(b)
    BY <1>1, <1>3 DEF Lists
  <2> QED BY <2>1, BillFigures DEF BillFigured
<1> QED BY <1>2, <1>3, <1>4

\* A list of numbers has one in every rank, ...
LEMMA RankedIsOne ==
  ASSUME NEW n \in Nat, NEW values, IsList(values, n),
         \A i \in 1 .. n : values[i] \in Fractions, NEW k \in 1 .. n
  PROVE  Ranked(values, k) \in Fractions
<1> DEFINE N == 1 .. n
           S == ToSet(values)
           below(v) == {i \in N : Less(values[i], v)}
           upto(v) == {i \in N : Leq(values[i], v)}
           H == {v \in S : Cardinality(upto(v)) >= k}
           w == Least(H)
<1>1. DOMAIN values = N /\ S = {values[i] : i \in N}
  BY DEF IsList, ToSet
<1>2. IsFiniteSet(S) /\ S \subseteq Fractions
  <2>1. IsFiniteSet({values[i] : i \in 1 .. n})
    BY ImageOfList DEF IsList, Amounts
  <2> QED BY <1>1, <2>1
<1>3. IsFiniteSet(N) /\ Cardinality(N) = n
  BY FS_Interval
<1>4. \A v : below(v) \in SUBSET N /\ upto(v) \in SUBSET N
  OBVIOUS
<1>5. \A T \in SUBSET N : IsFiniteSet(T) /\ Cardinality(T) \in Nat
  <2> HIDE DEF N
  <2> QED BY <1>3, FS_Subset, FS_CardinalityType
<1>6. S # {}
  BY <1>1
<1> HIDE DEF S
<1>7. H # {}
  <2> DEFINE top == Greatest(S)
  <2>1. top \in S /\ \A v \in S : Leq(v, top)
    BY <1>2, <1>6, EndsWork
  <2> HIDE DEF top
  <2>2. upto(top) = N
    BY <1>1, <2>1
  <2> QED BY <1>3, <2>1, <2>2
<1>8. IsFiniteSet(H) /\ H \subseteq Fractions
  <2>1. H \in SUBSET S
    OBVIOUS
  <2> HIDE DEF H
  <2> QED BY <1>2, <2>1, FS_Subset
<1>9. w \in H /\ \A v \in H : Leq(w, v)
  <2> HIDE DEF H
  <2> QED BY <1>7, <1>8, EndsWork
<1> HIDE DEF w
<1>10. w \in S /\ w \in Fractions /\ Cardinality(upto(w)) >= k
  BY <1>8, <1>9
<1>11. Cardinality(below(w)) < k
  <2>1. CASE below(w) = {}
    BY <2>1, FS_EmptySet
  <2>2. CASE below(w) # {}
    <3> DEFINE L == {values[i] : i \in below(w)}
               u == Greatest(L)
    <3>1. L \in SUBSET S /\ L # {} /\ \A v \in L : Less(v, w)
      BY <1>1, <2>2
    <3> HIDE DEF L
    <3>2. IsFiniteSet(L) /\ L \subseteq Fractions
      BY <1>2, <3>1, FS_Subset
    <3>3. u \in L /\ \A v \in L : Leq(v, u)
      BY <3>1, <3>2, EndsWork
    <3> HIDE DEF u
    <3>4. u \in S /\ u \in Fractions /\ Less(u, w)
      BY <3>1, <3>2, <3>3
    <3>5. ~Leq(w, u)
      BY <1>10, <3>4, LeqIsAnOrder
    <3>6. ~(Cardinality(upto(u)) >= k)
      BY <1>9, <3>4, <3>5
    <3>7. below(w) \in SUBSET upto(u)
      BY <3>3 DEF L
    <3> DEFINE under == below(w)
               over == upto(u)
    <3>8. under \in SUBSET over /\ IsFiniteSet(over) /\ Cardinality(over) \in Nat
          /\ Cardinality(under) \in Nat /\ ~(Cardinality(over) >= k)
      BY <1>4, <1>5, <3>6, <3>7
    <3> HIDE DEF under, over
    <3>9. Cardinality(under) <= Cardinality(over)
      BY <3>8, FS_Subset
    <3>10. Cardinality(under) < k
      BY <3>8, <3>9
    <3> QED BY <3>10 DEF under
  <2> QED BY <2>1, <2>2
<1> DEFINE fits(v) == /\ Cardinality({i \in DOMAIN values : Less(values[i], v)}) < k
                      /\ Cardinality({i \in DOMAIN values : Leq(values[i], v)}) >= k
<1>12. fits(w)
  BY <1>1, <1>10, <1>11
<1>13. Ranked(values, k) = CHOOSE v \in S : fits(v)
  BY DEF Ranked, S
<1> HIDE DEF fits
<1> QED BY <1>2, <1>10, <1>12, <1>13

\* ... and a median, if it is not empty.
LEMMA MedianIsAmount ==
  ASSUME NEW n \in Nat, NEW values, IsList(values, n), \A i \in 1 .. n : values[i] \in Fractions
  PROVE  Median(values) \in Amounts
<1>1. DOMAIN values = 1 .. n /\ Len(values) = n
  BY DEF IsList
<1>2. CASE values = <<>>
  BY <1>2 DEF Median, Amounts
<1>3. CASE values # <<>>
  <2>1. n # 0
    BY <1>3 DEF IsList
  <2> DEFINE mid == (n \div 2) + 1
  <2>2. /\ n % 2 = 1 => mid \in 1 .. n
        /\ n % 2 # 1 => mid \in 1 .. n /\ mid - 1 \in 1 .. n
    BY <2>1
  <2>3. Median(values) = IF n % 2 = 1 THEN Ranked(values, mid)
                         ELSE Over(Plus(Ranked(values, mid - 1), Ranked(values, mid)), Whole(2))
    BY <1>1, <1>3 DEF Median
  <2> HIDE DEF mid
  <2>4. CASE n % 2 = 1
    BY <2>2, <2>3, <2>4, RankedIsOne DEF Amounts
  <2>5. CASE n % 2 # 1
    <3> DEFINE low == Ranked(values, mid - 1)
               high == Ranked(values, mid)
               sum == Plus(low, high)
    <3>1. low \in Fractions
      BY <2>2, <2>5, RankedIsOne
    <3>2. high \in Fractions
      BY <2>2, <2>5, RankedIsOne
    <3> HIDE DEF low, high
    <3>3. sum \in Fractions
      BY <3>1, <3>2, PlusIsFraction
    <3> HIDE DEF sum
    <3>4. Whole(2) \in Fractions /\ Whole(2)[1] # 0
      BY WholeIsFraction
    <3>5. Over(sum, Whole(2)) \in Fractions
      BY <3>3, <3>4, OverIsFraction
    <3> QED BY <2>3, <2>5, <3>5 DEF sum, low, high, Amounts
  <2> QED BY <2>4, <2>5
<1> QED BY <1>2, <1>3

\* What a record tells of its tariff are numbers or unknown.
IsTariff(tariff) ==
  /\ tariff.fixedPerBill \in Amounts /\ tariff.taxRate \in Amounts
  /\ tariff.firstUnitPrice \in Amounts /\ tariff.latestUnitPrice \in Amounts
LEMMA TariffIsAmount ==
  ASSUME DataInv
  PROVE  IsTariff(TariffShape(parsed))
<1>1. PICK n \in Nat : /\ IsList(parsed, n) /\ DOMAIN parsed = 1 .. n
                       /\ \A i \in 1 .. n : BillFigured(parsed[i])
  BY ParsedList
<1> DEFINE fixed == Known(parsed, "fixedCharges")
           fees == Column(fixed, "fixedCharges")
           S == {i \in DOMAIN parsed : IsSplit(parsed[i])}
           split == Sublist(parsed, S)
           rates == [i \in DOMAIN split |-> Over(split[i].taxes, TaxBase(split[i]))]
           priced == Known(parsed, "unitPrice")
           rate == ContractRateChange(parsed)
<1>2. /\ TariffShape(parsed).fixedPerBill = Median(fees)
      /\ TariffShape(parsed).taxRate = Median(rates)
      /\ TariffShape(parsed).firstUnitPrice = rate.first
      /\ TariffShape(parsed).latestUnitPrice = rate.latest
  BY DEF TariffShape
<1>3. Median(fees) \in Amounts
  <2>0. IsList(parsed, n)
    BY <1>1
  <2>1. PICK c \in Nat : /\ IsList(fixed, c)
                         /\ \A k \in 1 .. c : \E i \in 1 .. n :
                              fixed[k] = parsed[i] /\ parsed[i]["fixedCharges"] # Null
                         /\ c = 0 <=> \A i \in 1 .. n : parsed[i]["fixedCharges"] = Null
    BY <2>0, KnownWorks
  <2> HIDE DEF fixed
  <2>2. DOMAIN fixed = 1 .. c
    BY <2>1 DEF IsList
  <2>3. IsList(fees, c) /\ \A k \in 1 .. c : fees[k] = fixed[k].fixedCharges
    BY <2>2 DEF Column, IsList
  <2> HIDE DEF fees
  <2>4. \A k \in 1 .. c : fees[k] \in Fractions
    BY <1>1, <2>1, <2>3, AmountsAre DEF BillFigured
  <2> QED BY <2>3, <2>4, MedianIsAmount
<1>4. Median(rates) \in Amounts
  <2>1. S \subseteq 1 .. n /\ \A i \in S : IsSplit(parsed[i])
    BY <1>1
  <2> HIDE DEF S
  <2>2. IsFiniteSet(S) /\ S \subseteq Int
    <3> DEFINE N == 1 .. n
    <3>1. IsFiniteSet(N) /\ S \in SUBSET N
      BY <2>1, FS_Interval
    <3>2. S \subseteq Int
      BY <2>1
    <3> HIDE DEF N
    <3> QED BY <3>1, <3>2, FS_Subset
  <2> DEFINE c == Cardinality(S)
  <2>3. c \in Nat
    BY <2>2, FS_CardinalityType
  <2>4. /\ DOMAIN split = 1 .. c
        /\ \A k \in 1 .. c : InOrder(S)[k] \in S /\ split[k] = parsed[InOrder(S)[k]]
    BY <2>2, SublistWorks
  <2> HIDE DEF split, c
  <2>5. ASSUME NEW k \in 1 .. c PROVE rates[k] \in Fractions
    <3>1. PICK i \in S : split[k] = parsed[i]
      BY <2>4
    <3> DEFINE b == parsed[i]
    <3>2. BillFigured(b) /\ IsSplit(b)
      BY <1>1, <2>1
    <3>3. rates[k] = Over(b.taxes, TaxBase(b))
      BY <2>4, <3>1
    <3> HIDE DEF b
    <3>4. b.taxes \in Fractions /\ EnergyCharge(b) \in Fractions /\ b.fixedCharges \in Fractions
          /\ Less(Zero, TaxBase(b))
      BY <3>2, AmountsAre DEF BillFigured, IsSplit
    <3>5. TaxBase(b) \in Fractions
      BY <3>4, PlusIsFraction DEF TaxBase
    <3>6. ~Leq(TaxBase(b), Zero)
      BY <3>4, <3>5, ZeroIsFraction, LeqIsAnOrder
    <3> QED BY <3>3, <3>4, <3>5, <3>6, OverPositive
  <2>6. IsList(rates, c)
    BY <2>4 DEF IsList
  <2> HIDE DEF rates
  <2> QED BY <2>3, <2>5, <2>6, MedianIsAmount
<1>5. rate.first \in Amounts /\ rate.latest \in Amounts
  <2>0. IsList(parsed, n)
    BY <1>1
  <2>1. PICK c \in Nat : /\ IsList(priced, c)
                         /\ \A k \in 1 .. c : \E i \in 1 .. n :
                              priced[k] = parsed[i] /\ parsed[i]["unitPrice"] # Null
    BY <2>0, KnownWorks
  <2>2. rate.first = (IF priced = <<>> THEN Null ELSE Head(priced).unitPrice)
        /\ rate.latest = IF priced = <<>> THEN Null ELSE Last(priced).unitPrice
    BY DEF ContractRateChange
  <2> HIDE DEF priced, rate
  <2>3. CASE priced = <<>>
    BY <2>2, <2>3 DEF Amounts
  <2>4. CASE priced # <<>>
    <3>1. c # 0
      BY <2>1, <2>4 DEF IsList
    <3>2. DOMAIN priced = 1 .. c /\ Len(priced) = c
      BY <2>1 DEF IsList
    <3>3. Head(priced) = priced[1] /\ Last(priced) = priced[c]
      BY <3>1, <3>2 DEF Last
    <3>4. 1 \in 1 .. c /\ c \in 1 .. c
      BY <3>1
    <3> QED BY <1>1, <2>1, <2>2, <2>4, <3>3, <3>4 DEF BillFigured
  <2> QED BY <2>3, <2>4
<1> HIDE DEF fees, rates, rate
<1> QED BY <1>2, <1>3, <1>4, <1>5 DEF IsTariff

\* A level of use above zero has a price on the curve, if the tariff is known.
LEMMA CurveIsAmount ==
  ASSUME NEW tariff, IsTariff(tariff), NEW price \in Amounts, NEW kwh, Above(kwh)
  PROVE  Curve(tariff, price, kwh) \in Amounts
<1> DEFINE fixed == tariff.fixedPerBill
           tax == tariff.taxRate
<1>1. CASE Null \in {price, tax, fixed}
  BY <1>1 DEF Curve, Amounts
<1>2. CASE Null \notin {price, tax, fixed}
  <2>1. price \in Fractions /\ tax \in Fractions /\ fixed \in Fractions
        /\ kwh \in Fractions /\ kwh[1] # 0 /\ Whole(1) \in Fractions
    BY <1>2, AmountsAre, WholeIsFraction DEF IsTariff, Above
  <2>2. Curve(tariff, price, kwh) = Times(Plus(Whole(1), tax), Plus(price, Over(fixed, kwh)))
    BY <1>2 DEF Curve
  <2> HIDE DEF fixed, tax
  <2>3. Over(fixed, kwh) \in Fractions
    BY <2>1, OverIsFraction
  <2>4. Plus(Whole(1), tax) \in Fractions
    BY <2>1, PlusIsFraction
  <2>5. Plus(price, Over(fixed, kwh)) \in Fractions
    BY <2>1, <2>3, PlusIsFraction
  <2> QED BY <2>2, <2>4, <2>5, TimesIsFraction DEF Amounts
<1> QED BY <1>1, <1>2

\* So have its samples.
LEMMA SamplesWork ==
  ASSUME NEW tariff, IsTariff(tariff), NEW price \in Amounts, NEW from, Above(from),
         NEW to \in Fractions
  PROVE  IsFiniteSet(Samples(tariff, price, from, to)) /\ Samples(tariff, price, from, to) \subseteq Amounts
<1> DEFINE rough == Over(Minus(to, from), Whole(CurveSamples))
           step == IF Less(rough, Whole(1)) THEN Whole(1) ELSE rough
           n == Floor(Over(Minus(to, from), step))
           f == [i \in 1 .. n |-> Curve(tariff, price, Plus(from, Times(Whole(i), step)))]
<1>1. Minus(to, from) \in Fractions /\ Whole(1) \in Fractions /\ Whole(1)[1] = 1 /\ Whole(1)[2] = 1
      /\ Whole(CurveSamples) \in Fractions /\ Whole(CurveSamples)[1] # 0
  BY MinusIsFraction, WholeIsFraction DEF Above, CurveSamples
<1>2. rough \in Fractions
  BY <1>1, OverIsFraction
<1> HIDE DEF rough
<1>3. Above(step)
  <2>1. CASE Less(rough, Whole(1))
    BY <1>1, <2>1 DEF Above
  <2>2. CASE ~Less(rough, Whole(1))
    <3>1. rough[1] \in Int /\ rough[2] \in Nat \ {0}
      BY <1>2, FractionParts
    <3>2. rough[1] > 0
      BY <1>1, <2>2, <3>1 DEF Less
    <3> QED BY <1>2, <2>2, <3>2 DEF Above
  <2> QED BY <2>1, <2>2
<1>4. Samples(tariff, price, from, to) = {f[i] : i \in 1 .. n}
  BY DEF Samples, rough
<1> HIDE DEF step
<1>5. n \in Int
  <2> DEFINE q == Over(Minus(to, from), step)
  <2>1. q \in Fractions
    BY <1>1, <1>3, OverIsFraction DEF Above
  <2> HIDE DEF q
  <2>2. q[1] \in Int /\ q[2] \in Nat \ {0}
    BY <2>1, FractionParts
  <2> QED BY <2>2 DEF Floor, q
<1> HIDE DEF n
<1>6. ASSUME NEW i \in 1 .. n PROVE f[i] \in Amounts
  <2>1. Above(Whole(i))
    BY <1>5, WholeIsFraction DEF Above
  <2>2. Above(Times(Whole(i), step))
    BY <1>3, <2>1, TimesIsAbove
  <2>3. Above(Plus(from, Times(Whole(i), step)))
    <3> DEFINE more == Times(Whole(i), step)
    <3>1. more \in Fractions /\ more[1] > 0
      BY <2>2 DEF Above
    <3> HIDE DEF more
    <3>2. more[1] >= 0
      BY <3>1, FractionParts
    <3>3. Above(Plus(from, more))
      BY <3>1, <3>2, PlusIsAbove
    <3> QED BY <3>3 DEF more
  <2> DEFINE use == Plus(from, Times(Whole(i), step))
  <2>4. f[i] = Curve(tariff, price, use) /\ Above(use)
    BY <2>3
  <2> HIDE DEF use, f
  <2> QED BY <2>4, CurveIsAmount
<1>7. f = [i \in 1 .. n |-> f[i]]
  OBVIOUS
<1> HIDE DEF f
<1>8. CASE n >= 0
  <2>1. n \in Nat
    BY <1>5, <1>8
  <2> QED BY <1>4, <1>6, <1>7, <2>1, ImageOfList
<1>9. CASE n < 0
  <2>1. 1 .. n = {}
    BY <1>5, <1>9
  <2> QED BY <1>4, <2>1, FS_EmptySet
<1> QED BY <1>5, <1>8, <1>9

\* The ticks of an axis from zero are numbers.
LEMMA TicksAreFractions ==
  ASSUME NEW values, IsFiniteSet(values), values \subseteq Fractions, values # {},
         NEW ticks \in 2 .. 4
  PROVE  ToSet(Ticks(ZeroBasedDomain(values, ticks))) \subseteq Fractions
<1> DEFINE T == values \cup {Zero}
           low == Least(T)
           top == Greatest(T)
           step == NiceStep(Minus(top, low), ticks)
           min == Times(Whole(Floor(Over(low, step))), step)
           domain == ZeroBasedDomain(values, ticks)
           count == Nearest(Over(Minus(domain.max, domain.min), domain.step))
<1>1. Finite(values) = values
  BY DEF Finite
<1>2. low \in Fractions /\ top \in Fractions
  <2>1. IsFiniteSet(T) /\ T \subseteq Fractions /\ T # {}
    BY FS_AddElement, ZeroIsFraction
  <2> HIDE DEF T
  <2>2. low \in T /\ top \in T
    BY <2>1, EndsWork
  <2> QED BY <2>1, <2>2
<1>3. domain = DomainFrom(low, top, step)
  BY <1>1 DEF ZeroBasedDomain
<1> HIDE DEF low, top, domain
<1>4. step \in Fractions /\ Above(step)
  <2>1. Minus(top, low) \in Fractions
    BY <1>2, MinusIsFraction
  <2> QED BY <2>1, NiceStepWorks DEF Above
<1> HIDE DEF step
<1>5. min \in Fractions
  <2> DEFINE q == Over(low, step)
  <2>1. q \in Fractions
    BY <1>2, <1>4, OverIsFraction DEF Above
  <2> HIDE DEF q
  <2>2. Whole(Floor(q)) \in Fractions
    BY <2>1, WholeEnds
  <2> QED BY <1>4, <2>2, TimesIsFraction DEF q
<1>6. domain.min = min /\ domain.step = step
  BY <1>3 DEF DomainFrom
<1> HIDE DEF min
<1>7. \A i \in 1 .. count + 1 : Plus(min, Times(Whole(i - 1), step)) \in Fractions
  <2> SUFFICES ASSUME NEW i \in 1 .. count + 1
               PROVE  Plus(min, Times(Whole(i - 1), step)) \in Fractions
    OBVIOUS
  <2> HIDE DEF count
  <2>1. i - 1 \in Int
    OBVIOUS
  <2>2. Whole(i - 1) \in Fractions
    BY <2>1, WholeIsFraction
  <2>3. Times(Whole(i - 1), step) \in Fractions
    BY <1>4, <2>2, TimesIsFraction
  <2> QED BY <1>5, <2>3, PlusIsFraction
<1>8. Ticks(domain) = [i \in 1 .. count + 1 |-> Plus(min, Times(Whole(i - 1), step))]
  BY <1>6 DEF Ticks
<1> HIDE DEF count
<1> QED BY <1>7, <1>8 DEF ToSet, domain

\* The dots have used something, at a price.
LEMMA DotsWork ==
  ASSUME Inv, Dots # <<>>
  PROVE  \E n \in Nat \ {0} :
           /\ DOMAIN Dots = 1 .. n
           /\ \A i \in 1 .. n : Above(Dots[i].consumption) /\ EffectivePrice(Dots[i]) \in Amounts
<1> DEFINE A == {b \in ShownBills : Positive(b.consumption)}
           S == {i \in DOMAIN BillsInRange : EffectivePrice(BillsInRange[i]) # Null}
<1>1. Lists(Dots, A)
  BY DotsList
<1>2. PICK n \in Nat : DOMAIN Dots = 1 .. n
  BY <1>1 DEF Lists
<1>3. n # 0
  <2>1. Dots = [k \in 1 .. Cardinality(S) |-> BillsInRange[InOrder(S)[k]]]
    BY DEF Dots, Sublist
  <2> DEFINE c == Cardinality(S)
  <2>2. Dots = [k \in 1 .. c |-> Dots[k]] /\ DOMAIN Dots = 1 .. c
    BY <2>1
  <2> HIDE DEF c
  <2>3. 1 .. c = {} => Dots = <<>>
    BY <2>2
  <2>4. n = 0 => 1 .. n = {}
    OBVIOUS
  <2>5. 1 .. n = 1 .. c
    BY <1>2, <2>2
  <2> HIDE DEF Dots
  <2> QED BY <2>3, <2>4, <2>5
<1>4. ASSUME NEW i \in 1 .. n
      PROVE  Above(Dots[i].consumption) /\ EffectivePrice(Dots[i]) \in Amounts
  <2>1. PICK b \in A : Dots[i] = ParseBill(b) /\ IsBill(b)
    BY <1>1, <1>2 DEF Lists
  <2>2. Dots[i].consumption = b.consumption /\ b.consumption \in Amounts /\ Positive(b.consumption)
    BY <2>1, ParsedFields DEF IsBill
  <2>3. EffectivePrice(ParseBill(b)) \in Amounts
    BY <2>1, BillFigures
  <2> QED BY <2>1, <2>2, <2>3, PositiveIsAbove
<1> QED BY <1>2, <1>3, <1>4

\* Both axes of the scatter.
LEMMA ScatterWorks ==
  ASSUME Inv, Dots # <<>>
  PROVE  ScatterHolds(Evidence.axes)
<1> DEFINE dots == Dots
           tariff == TariffShape(parsed)
           kwh == ToSet(Column(dots, "consumption"))
           least == Least(kwh)
           greatest == Greatest(kwh)
           kMin == Times(least, Frac(9, 10))
           kMax == Times(greatest, Frac(106, 100))
           own == {EffectivePrice(b) : b \in ToSet(dots)}
           first == Samples(tariff, tariff.firstUnitPrice, kMin, kMax)
           latest == Samples(tariff, tariff.latestUnitPrice, kMin, kMax)
           prices == own \cup first \cup latest
           ticks == {t \in ToSet(Ticks(ZeroBasedDomain(kwh, 4))) : Leq(kMin, t) /\ Leq(t, kMax)}
           min == Whole(Floor(kMin))
           max == Whole(Ceil(kMax))
           axes == Evidence.axes
<1>1. /\ axes.use.values = kwh /\ axes.use.min = min /\ axes.use.max = max
      /\ axes.use.ticks = ticks
      /\ axes.price.values = prices /\ axes.price.domain = PaddedDomain(prices, 3)
  BY DEF Evidence, ScatterAxes
<1>2. IsTariff(tariff)
  BY TariffIsAmount DEF Inv
<1> HIDE DEF axes, tariff
<1>3. PICK n \in Nat \ {0} :
        /\ DOMAIN dots = 1 .. n
        /\ \A i \in 1 .. n : Above(dots[i].consumption) /\ EffectivePrice(dots[i]) \in Amounts
  BY DotsWork
<1> HIDE DEF dots
<1>4. IsFiniteSet(kwh) /\ kwh # {} /\ kwh \subseteq Fractions /\ \A v \in kwh : Above(v)
  <2> DEFINE f == [i \in 1 .. n |-> dots[i].consumption]
  <2>1. kwh = {f[i] : i \in 1 .. n}
    BY <1>3 DEF ToSet, Column
  <2>2. \A i \in 1 .. n : Above(f[i]) /\ f[i] \in Fractions /\ f[i] \in Amounts
    BY <1>3 DEF Above, Amounts
  <2>3. f = [i \in 1 .. n |-> f[i]] /\ 1 \in 1 .. n
    OBVIOUS
  <2> HIDE DEF f, kwh
  <2>4. IsFiniteSet({f[i] : i \in 1 .. n})
    BY <2>2, <2>3, ImageOfList
  <2> QED BY <2>1, <2>2, <2>3, <2>4
<1>5. IsFiniteSet(own) /\ own \subseteq Amounts
  <2> DEFINE f == [i \in 1 .. n |-> EffectivePrice(dots[i])]
  <2>1. own = {f[i] : i \in 1 .. n}
    BY <1>3 DEF ToSet
  <2>2. f = [i \in 1 .. n |-> f[i]] /\ \A i \in 1 .. n : f[i] \in Amounts
    BY <1>3
  <2> HIDE DEF f, own
  <2> QED BY <2>1, <2>2, ImageOfList
<1> HIDE DEF kwh, own
<1>6. /\ least \in kwh /\ greatest \in kwh
      /\ \A v \in kwh : Leq(least, v) /\ Leq(v, greatest)
  BY <1>4, EndsWork
<1> HIDE DEF least, greatest
<1>7. Above(kMin) /\ Leq(kMin, least)
  <2>1. 9 \in Nat \ {0} /\ 10 \in Nat \ {0} /\ 9 <= 10
    OBVIOUS
  <2> QED BY <1>4, <1>6, <2>1, ScaledAbove
<1>8. Above(kMax) /\ Leq(greatest, kMax)
  <2>1. 106 \in Nat \ {0} /\ 100 \in Nat \ {0} /\ 100 <= 106
    OBVIOUS
  <2> QED BY <1>4, <1>6, <2>1, ScaledAbove
<1> HIDE DEF kMin, kMax
<1>9. kMin \in Fractions /\ kMax \in Fractions
  BY <1>7, <1>8 DEF Above
<1>10. min \in Fractions /\ Leq(min, kMin) /\ max \in Fractions /\ Leq(kMax, max)
  BY <1>9, WholeEnds
<1> HIDE DEF min, max
<1>11. ASSUME NEW v \in kwh PROVE Leq(min, v) /\ Leq(v, max)
  <2>1. v \in Fractions /\ least \in Fractions /\ greatest \in Fractions
    BY <1>4, <1>6
  <2>2. Leq(kMin, v)
    BY <1>6, <1>7, <1>9, <2>1, LeqIsAnOrder
  <2>3. Leq(v, kMax)
    BY <1>6, <1>8, <1>9, <2>1, LeqIsAnOrder
  <2> QED BY <1>9, <1>10, <2>1, <2>2, <2>3, LeqIsAnOrder
<1>12. ASSUME NEW t \in ticks PROVE Leq(min, t) /\ Leq(t, max)
  <2>1. t \in Fractions
    BY <1>4, TicksAreFractions
  <2>2. Leq(kMin, t) /\ Leq(t, kMax)
    OBVIOUS
  <2> QED BY <1>9, <1>10, <2>1, <2>2, LeqIsAnOrder
<1>13. IsFiniteSet(prices) /\ prices \subseteq Amounts
  <2>1. IsFiniteSet(first) /\ first \subseteq Amounts
    BY <1>2, <1>7, <1>9, SamplesWork DEF IsTariff
  <2>2. IsFiniteSet(latest) /\ latest \subseteq Amounts
    BY <1>2, <1>7, <1>9, SamplesWork DEF IsTariff
  <2> HIDE DEF first, latest
  <2> DEFINE both == own \cup first
  <2>3. IsFiniteSet(both)
    BY <1>5, <2>1, FS_Union
  <2> HIDE DEF both
  <2>4. IsFiniteSet(both \cup latest)
    BY <2>2, <2>3, FS_Union
  <2> QED BY <1>5, <2>1, <2>2, <2>4 DEF both
<1> HIDE DEF prices, ticks
<1>14. \/ BelowZero(Drawn(prices))
       \/ Holds(PaddedDomain(prices, 3), Drawn(prices))
  BY <1>13, PaddedHolds
<1>15. \A v \in kwh \cup ticks : Leq(min, v) /\ Leq(v, max)
  BY <1>11, <1>12
<1> QED BY <1>1, <1>14, <1>15 DEF ScatterHolds, axes

\* The strip of all bills on a bill's page.
LEMMA RunHolds ==
  ASSUME Inv, NEW screen \in BillScreens
  PROVE  Holds(screen.run.domain, Drawn(screen.run.values))
<1> DEFINE totals == {parsed[i].total : i \in DOMAIN parsed}
<1>1. screen.run.values = totals /\ screen.run.domain = ZeroBasedDomain(totals, 3)
  BY DEF BillScreens, BillScreen, BillRun
<1>2. Lists(parsed, Bills)
  BY BucketsFacts DEF Inv
<1>3. PICK n \in Nat : DOMAIN parsed = 1 .. n
  BY <1>2 DEF Lists
<1>4. ASSUME NEW i \in 1 .. n PROVE parsed[i].total \in Amounts
  <2>1. PICK b : IsBill(b) /\ parsed[i] = ParseBill(b)
    BY <1>2, <1>3 DEF Lists
  <2> QED BY <2>1, BillFigures DEF Amounts
<1>5. IsFiniteSet(totals) /\ totals \subseteq Amounts
  <2> DEFINE f == [i \in 1 .. n |-> parsed[i].total]
  <2>1. f = [i \in 1 .. n |-> f[i]] /\ (\A i \in 1 .. n : f[i] \in Amounts)
        /\ totals = {f[i] : i \in 1 .. n}
    BY <1>3, <1>4
  <2> HIDE DEF f, totals
  <2> QED BY <2>1, ImageOfList
<1> HIDE DEF totals
<1>6. Holds(ZeroBasedDomain(totals, 3), Drawn(totals))
  BY <1>5, ZeroBasedHolds
<1> QED BY <1>1, <1>6

\* The charts of the comparison, in full and in miniature.
LEMMA CompareHolds ==
  ASSUME Inv, NEW density
  PROVE  LET chart == ChartOf(metricId, density)
         IN  \/ IsPadded(metricId) /\ modeId # "mom" /\ BelowZero(Marks(chart))
             \/ Holds(chart.domain, Marks(chart))
<1> DEFINE list == InRange(buckets)
           chart == ChartOf(metricId, density)
<1>1. PICK n \in Nat : IsFiguredList(list, n)
  BY RangeFigured
<1>2. metricId \in MetricIds /\ modeId \in {"yoy", "years", "mom", "same"}
  BY DEF Inv, ControlsInv, ModeIds
<1>3. chart = Build(modeId, list, metricId, SelectedYears, sameMonth, density)
  BY DEF ChartOf
<1> HIDE DEF list, chart
<1>4. CASE modeId = "yoy"
  <2>1. chart = BuildYoy(list, metricId, density)
    BY <1>3, <1>4 DEF Build
  <2>2. \/ IsPadded(metricId) /\ BelowZero(Marks(chart))
        \/ Holds(chart.domain, Marks(chart))
    BY <1>1, <1>2, <2>1, YearOnYearHolds
  <2> QED BY <1>4, <2>2 DEF chart
<1>5. CASE modeId = "years"
  <2>1. chart = BuildYears(list, metricId, SelectedYears, density)
    BY <1>3, <1>5 DEF Build
  <2>2. \/ IsPadded(metricId) /\ BelowZero(Marks(chart))
        \/ Holds(chart.domain, Marks(chart))
    BY <1>1, <1>2, <2>1, YearsHold
  <2> QED BY <1>5, <2>2 DEF chart
<1>6. CASE modeId = "mom"
  <2>1. chart = BuildMom(list, metricId, density)
    BY <1>3, <1>6 DEF Build
  <2>2. Holds(chart.domain, Marks(chart))
    BY <1>1, <1>2, <2>1, ChangesHold
  <2> QED BY <2>2 DEF chart
<1>7. CASE modeId = "same"
  <2>1. chart = BuildSame(list, metricId, sameMonth, density)
    BY <1>3, <1>7 DEF Build
  <2>2. \/ IsPadded(metricId) /\ BelowZero(Marks(chart))
        \/ Holds(chart.domain, Marks(chart))
    BY <1>1, <1>2, <2>1, OneMonthHolds
  <2> QED BY <1>7, <2>2 DEF chart
<1> QED BY <1>2, <1>4, <1>5, <1>6, <1>7

\* Every page's axes hold what is drawn on them.
LEMMA InvAxes == Inv => AxisHoldsData
<1> SUFFICES ASSUME Inv PROVE AxisHoldsData
  OBVIOUS
<1>1. CASE page = "dashboard"
  <2>1. /\ Holds(HeroAxes.left.domain, Drawn(HeroAxes.left.values))
        /\ \/ BelowZero(Drawn(HeroAxes.right.values))
           \/ Holds(HeroAxes.right.domain, Drawn(HeroAxes.right.values))
    BY HeroHolds
  <2>2. Dots # <<>> => ScatterHolds(Evidence.axes)
    BY ScatterWorks
  <2> QED BY <1>1, <2>1, <2>2 DEF AxisHoldsData
<1>2. CASE page = "bill"
  <2>1. \A screen \in BillScreens : Holds(screen.run.domain, Drawn(screen.run.values))
    BY RunHolds
  <2> QED BY <1>2, <2>1 DEF AxisHoldsData
<1>3. CASE page = "compare" /\ IsMix
  <2>1. PICK n \in Nat : IsFiguredList(InRange(buckets), n)
    BY RangeFigured
  <2>2. Chart = BuildMix(InRange(buckets))
    BY <1>3 DEF Chart
  <2>3. Holds(Chart.domain, Drawn(Chart.totals))
    BY <2>1, <2>2, MixHolds
  <2> QED BY <1>3, <2>3 DEF AxisHoldsData
<1>4. CASE page = "compare" /\ ~IsMix
  <2>1. \A density \in {"full", "mini"} :
          LET chart == ChartOf(metricId, density)
          IN  \/ IsPadded(metricId) /\ modeId # "mom" /\ BelowZero(Marks(chart))
              \/ Holds(chart.domain, Marks(chart))
    BY CompareHolds
  <2> QED BY <1>4, <2>1, Zenon DEF AxisHoldsData
<1>5. CASE page \notin {"dashboard", "bill", "compare"}
  BY <1>5 DEF AxisHoldsData
<1> QED BY <1>1, <1>2, <1>3, <1>4, <1>5

\* Whatever the bills and the controls, no axis of axis.ts cuts off its data or
\* ends between two ticks, and it has two to six of them (both of the traps its
\* comment names): for any figures, since the step grows with the span.  The
\* use axis of RateEvidence, whose domain is not one of axis.ts, holds its dots
\* and its ticks, of which it may have none.
THEOREM AxesHoldTheirData == Spec => []AxisHoldsData
BY Invariant, InvAxes, PTL

(***************************************************************************)
(* The headline's finding                                                  *)
(***************************************************************************)
\* p and q are at most n halves of an s-th apart.
Within(p, q, n, s) ==
  \E e \in Nat \ {0}, x, y \in Int : /\ At(p, (2 * s) * e, x) /\ At(q, (2 * s) * e, y)
                                     /\ x - y <= n * e /\ y - x <= n * e

\* What was rounded is half an s-th away at most, ...
LEMMA NearIsWithin ==
  ASSUME NEW p \in Fractions, NEW q \in Fractions, NEW s \in Nat \ {0}, Near(p, q, s)
  PROVE  Within(p, q, 1, s)
<1> DEFINE g == 2 * s
           u == Frac(1, g)
           t == Minus(p, q)
<1>1. g \in Nat \ {0}
  OBVIOUS
<1>2. PICK d \in Nat \ {0}, x, y, z \in Int : At(p, d, x) /\ At(q, d, y) /\ At(p, d, z)
  BY AtExists
<1> HIDE DEF g, u, t
<1> DEFINE a == x * g
           b == y * g
<1>3. At(p, d * g, a) /\ At(q, d * g, b)
  BY <1>1, <1>2, AtScales
<1>4. d * g = g * d
  BY <1>1
<1>5. At(p, g * d, a) /\ At(q, g * d, b)
  BY <1>3, <1>4
<1>6. a \in Int /\ b \in Int
  BY <1>1
<1> HIDE DEF a, b
<1>7. At(t, g * d, a - b)
  BY <1>5, AtPlus DEF t
<1>8. t \in Fractions
  BY <1>7 DEF At
<1>9. At(AbsOf(t), g * d, IF a - b < 0 THEN -(a - b) ELSE a - b)
  BY <1>7, <1>8, AbsWorks
<1>10. At(u, g * d, d)
  <2>1. At(u, g, 1)
    BY <1>1, AtFrac DEF u
  <2>2. At(u, g * d, 1 * d)
    BY <2>1, AtScales
  <2>3. 1 * d = d
    OBVIOUS
  <2> QED BY <2>2, <2>3
<1>11. Leq(AbsOf(t), u)
  BY DEF Near, t, u, g
<1>12. (IF a - b < 0 THEN -(a - b) ELSE a - b) <= d
  BY <1>9, <1>10, <1>11, AtLeq
<1>13. a - b <= 1 * d /\ b - a <= 1 * d
  BY <1>6, <1>12
<1> QED BY <1>5, <1>6, <1>13 DEF Within, g

Together(p, q, n, r, t, m, s) ==
  \E e \in Nat \ {0}, x, y, v, w \in Int :
    /\ At(p, (2 * s) * e, x) /\ At(q, (2 * s) * e, y)
    /\ At(r, (2 * s) * e, v) /\ At(t, (2 * s) * e, w)
    /\ x - y <= n * e /\ y - x <= n * e
    /\ v - w <= m * e /\ w - v <= m * e

\* ... two of these are found over one denominator, ...
LEMMA WithinTogether ==
  ASSUME NEW s \in Nat \ {0}, NEW n \in Nat, NEW m \in Nat,
         NEW p, NEW q, Within(p, q, n, s), NEW r, NEW t, Within(r, t, m, s)
  PROVE  Together(p, q, n, r, t, m, s)
<1> DEFINE g == 2 * s
<1>1. g \in Nat \ {0}
  OBVIOUS
<1>2. PICK e \in Nat \ {0}, x, y \in Int :
        At(p, g * e, x) /\ At(q, g * e, y) /\ x - y <= n * e /\ y - x <= n * e
  BY DEF Within
<1>3. PICK f \in Nat \ {0}, v, w \in Int :
        At(r, g * f, v) /\ At(t, g * f, w) /\ v - w <= m * f /\ w - v <= m * f
  BY DEF Within
<1> HIDE DEF g
<1> DEFINE h == e * f
<1>4. h \in Nat \ {0}
  BY PositiveProduct
<1>5. (g * e) * f = g * h /\ (g * f) * e = g * h
  BY <1>1
<1>6. /\ At(p, g * h, x * f) /\ At(q, g * h, y * f)
      /\ At(r, g * h, v * e) /\ At(t, g * h, w * e)
  <2>1. At(p, (g * e) * f, x * f) /\ At(q, (g * e) * f, y * f)
    BY <1>2, AtScales
  <2>2. At(r, (g * f) * e, v * e) /\ At(t, (g * f) * e, w * e)
    BY <1>3, AtScales
  <2> HIDE DEF h
  <2> QED BY <1>5, <2>1, <2>2
<1>7. ASSUME NEW a \in Int, NEW b \in Int, NEW c \in Int, NEW k \in Nat \ {0}, a - b <= c
      PROVE  a * k - b * k <= c * k
  <2>1. (c - (a - b)) * k >= 0
    BY <1>7
  <2>2. (c - (a - b)) * k = c * k - (a * k - b * k)
    BY <1>7
  <2> QED BY <1>7, <2>1, <2>2
<1>8. x * f - y * f <= (n * e) * f /\ y * f - x * f <= (n * e) * f
  BY <1>2, <1>7
<1>9. v * e - w * e <= (m * f) * e /\ w * e - v * e <= (m * f) * e
  BY <1>3, <1>7
<1>10. (n * e) * f = n * h /\ (m * f) * e = m * h
  OBVIOUS
<1>11. x * f \in Int /\ y * f \in Int /\ v * e \in Int /\ w * e \in Int
  OBVIOUS
<1> HIDE DEF h
<1> DEFINE a == x * f  b == y * f  c == v * e  k == w * e
<1>12. /\ At(p, g * h, a) /\ At(q, g * h, b) /\ At(r, g * h, c) /\ At(t, g * h, k)
       /\ a - b <= n * h /\ b - a <= n * h /\ c - k <= m * h /\ k - c <= m * h
       /\ a \in Int /\ b \in Int /\ c \in Int /\ k \in Int
  BY <1>6, <1>8, <1>9, <1>10, <1>11
<1> HIDE DEF a, b, c, k
<1> QED BY <1>4, <1>12 DEF g, Together

\* ... sums add up what they are apart, ...
LEMMA WithinAdds ==
  ASSUME NEW s \in Nat \ {0}, NEW n \in Nat, NEW m \in Nat,
         NEW p, NEW q, Within(p, q, n, s), NEW r, NEW t, Within(r, t, m, s)
  PROVE  Within(Plus(p, r), Plus(q, t), n + m, s)
<1>1. PICK e \in Nat \ {0}, x, y, v, w \in Int :
           /\ At(p, (2 * s) * e, x) /\ At(q, (2 * s) * e, y)
           /\ At(r, (2 * s) * e, v) /\ At(t, (2 * s) * e, w)
           /\ x - y <= n * e /\ y - x <= n * e
           /\ v - w <= m * e /\ w - v <= m * e
  <2>1. Together(p, q, n, r, t, m, s)
    BY WithinTogether
  <2> QED BY <2>1 DEF Together
<1>2. At(Plus(p, r), (2 * s) * e, x + v) /\ At(Plus(q, t), (2 * s) * e, y + w)
  BY <1>1, AtPlus
<1>3. (n + m) * e = n * e + m * e /\ n * e \in Int /\ m * e \in Int
  OBVIOUS
<1>4. (x + v) - (y + w) <= (n + m) * e /\ (y + w) - (x + v) <= (n + m) * e
  BY <1>1, <1>3
<1>5. x + v \in Int /\ y + w \in Int
  OBVIOUS
<1> QED BY <1>2, <1>4, <1>5 DEF Within

\* ... and what is less is less but for the roundings.
LEMMA WithinLess ==
  ASSUME NEW s \in Nat \ {0}, NEW n \in Nat,
         NEW p, NEW q, Within(p, q, n, s), NEW r, NEW t, Within(r, t, n, s), Less(p, r)
  PROVE  Less(Minus(q, Frac(n, s)), t)
<1> DEFINE g == 2 * s
<1>1. PICK e \in Nat \ {0}, x, y, v, w \in Int :
           /\ At(p, g * e, x) /\ At(q, g * e, y)
           /\ At(r, g * e, v) /\ At(t, g * e, w)
           /\ x - y <= n * e /\ y - x <= n * e
           /\ v - w <= n * e /\ w - v <= n * e
  <2>1. Together(p, q, n, r, t, n, s)
    BY WithinTogether
  <2> QED BY <2>1 DEF Together
<1>2. x < v
  BY <1>1, AtLeq
<1> DEFINE f == 2 * e
           k == n * f
<1>3. At(Frac(n, s), g * e, k)
  <2>1. At(Frac(n, s), s, n)
    BY AtFrac
  <2>2. f \in Nat \ {0} /\ s * f = g * e
    OBVIOUS
  <2> HIDE DEF f, g
  <2>3. At(Frac(n, s), s * f, k)
    BY <2>1, <2>2, AtScales
  <2> HIDE DEF k
  <2> QED BY <2>2, <2>3
<1>4. At(Minus(q, Frac(n, s)), g * e, y - k)
  BY <1>1, <1>3, AtPlus
<1>5. k = n * e + n * e /\ n * e \in Int
  OBVIOUS
<1> HIDE DEF f, k, g
<1>6. y - k < w
  BY <1>1, <1>2, <1>5
<1> QED BY <1>1, <1>4, <1>6, AtLeq

\* What is near to nothing is small.
LEMMA WithinZero ==
  ASSUME NEW s \in Nat \ {0}, NEW n \in Nat, NEW q, Within(Zero, q, n, s)
  PROVE  Leq(AbsOf(q), Frac(n, 2 * s))
<1> DEFINE g == 2 * s
<1>1. g \in Nat \ {0}
  OBVIOUS
<1>2. PICK e \in Nat \ {0}, x, y \in Int :
        At(Zero, g * e, x) /\ At(q, g * e, y) /\ x - y <= n * e /\ y - x <= n * e
  BY DEF Within
<1>3. x = 0
  <2>1. 0 * (g * e) = x * 1
    BY <1>2, ZeroIsFraction DEF At
  <2> QED BY <1>1, <2>1
<1>4. q \in Fractions
  BY <1>2 DEF At
<1>5. At(AbsOf(q), g * e, IF y < 0 THEN -y ELSE y)
  BY <1>2, <1>4, AbsWorks
<1>6. At(Frac(n, g), g * e, n * e)
  <2>1. At(Frac(n, g), g, n)
    BY <1>1, AtFrac
  <2> QED BY <2>1, AtScales
<1>7. (IF y < 0 THEN -y ELSE y) <= n * e
  BY <1>2, <1>3
<1> HIDE DEF g
<1>8. Leq(AbsOf(q), Frac(n, g))
  BY <1>5, <1>6, <1>7, AtLeq
<1> QED BY <1>8 DEF g

\* Parts of a number add up, ...
LEMMA PartsAdd ==
  ASSUME NEW v \in Fractions, NEW c \in Nat, NEW k \in Nat, NEW n \in Nat \ {0}
  PROVE  /\ Times(v, Frac(c, n)) \in Fractions
         /\ Times(v, Frac(c + k, n)) = Plus(Times(v, Frac(c, n)), Times(v, Frac(k, n)))
<1> DEFINE d == v[2]
           x == v[1]
<1>1. x \in Int /\ d \in Nat \ {0}
  BY FractionParts
<1>2. At(v, d, x)
  BY <1>1 DEF At
<1>3. At(Frac(c, n), n, c) /\ At(Frac(k, n), n, k) /\ At(Frac(c + k, n), n, c + k)
  <2>1. c + k \in Int
    OBVIOUS
  <2> QED BY <2>1, AtFrac
<1> HIDE DEF d, x
<1> DEFINE e == d * n
           a == x * c
           b == x * k
           f == x * (c + k)
<1>4. /\ At(Times(v, Frac(c, n)), e, a) /\ At(Times(v, Frac(k, n)), e, b)
      /\ At(Times(v, Frac(c + k, n)), e, f)
  BY <1>2, <1>3, AtTimes
<1>5. f = a + b
  BY <1>1
<1> HIDE DEF e, a, b, f
<1>6. At(Plus(Times(v, Frac(c, n)), Times(v, Frac(k, n))), e, a + b)
  BY <1>4, AtPlus
<1>7. Times(v, Frac(c + k, n)) = Plus(Times(v, Frac(c, n)), Times(v, Frac(k, n)))
  BY <1>4, <1>5, <1>6, AtLeq
<1> QED BY <1>4, <1>7 DEF At

\* ... no part of it is nothing, ...
LEMMA PartOfNone ==
  ASSUME NEW v \in Fractions, NEW n \in Nat \ {0}
  PROVE  Times(v, Frac(0, n)) = Zero
<1> DEFINE d == v[2]
           x == v[1]
           e == d * n
<1>1. x \in Int /\ d \in Nat \ {0}
  BY FractionParts
<1>2. At(v, d, x)
  BY <1>1 DEF At
<1>3. At(Frac(0, n), n, 0)
  BY AtFrac
<1> HIDE DEF d, x
<1>4. At(Times(v, Frac(0, n)), e, x * 0)
  BY <1>2, <1>3, AtTimes
<1>5. x * 0 = 0 /\ e \in Nat \ {0}
  BY <1>1, PositiveProduct
<1>6. At(Zero, e, 0)
  BY <1>5, ZeroIsFraction DEF At
<1> QED BY <1>4, <1>5, <1>6, AtLeq

\* ... months have no day in common, ...
LEMMA MonthsApart ==
  ASSUME NEW m \in CalendarMonths, NEW o \in CalendarMonths, m # o
  PROVE  (MonthStart[m] .. LastDay(m)) \cap (MonthStart[o] .. LastDay(o)) = {}
<1>1. ASSUME NEW p \in CalendarMonths, NEW q \in CalendarMonths, p < q
      PROVE  LastDay(p) < MonthStart[q]
  <2>1. p \in Int /\ q \in Int /\ p + 1 \in 1 .. Months /\ q \in 1 .. Months
    BY CalendarFacts
  <2>2. /\ LastDay(p) = MonthStart[p + 1] - 1
        /\ MonthStart[p + 1] \in Nat /\ MonthStart[q] \in Nat
    BY MonthFacts
  <2>3. CASE p + 1 = q
    BY <2>2, <2>3
  <2>4. CASE p + 1 # q
    <3>1. p + 1 < q
      BY <1>1, <2>1, <2>4
    <3>2. MonthStart[p + 1] < MonthStart[q]
      BY <2>1, <3>1, MonthsFollow
    <3> QED BY <2>2, <3>2
  <2> QED BY <2>3, <2>4
<1>2. /\ m \in Int /\ o \in Int
      /\ MonthStart[m] \in Int /\ LastDay(m) \in Int
      /\ MonthStart[o] \in Int /\ LastDay(o) \in Int
  BY MonthFacts
<1>3. m < o \/ o < m
  BY <1>2
<1>4. LastDay(m) < MonthStart[o] \/ LastDay(o) < MonthStart[m]
  BY <1>1, <1>3
<1> QED BY <1>2, <1>4

\* ... so what falls on one more month is added, ...
LEMMA OnDaysAdds ==
  ASSUME NEW B, IsFiniteSet(B), \A b \in B : IsBill(b),
         NEW field, \A b \in B : b[field] \in Fractions,
         NEW S, S \subseteq CalendarMonths, NEW m \in CalendarMonths, m \notin S
  PROVE  /\ OnDays(B, S, field) \in Fractions /\ OnDays(B, {m}, field) \in Fractions
         /\ OnDays(B, S \cup {m}, field) = Plus(OnDays(B, S, field), OnDays(B, {m}, field))
<1> DEFINE days(b, T) == UNION {DaysIn(b, o) : o \in T}
           whole(b)   == b.period_start .. b.period_end
           c(b, T)    == Cardinality(days(b, T))
           n(b)       == Cardinality(whole(b))
           value(b, T) == Times(b[field], Frac(c(b, T), n(b)))
           part(T)    == [b \in B |-> value(b, T)]
<1>1. \A T : OnDays(B, T, field) = Total(part(T))
  BY DEF OnDays
<1>2. ASSUME NEW b \in B
      PROVE  /\ c(b, S) \in Nat /\ c(b, {m}) \in Nat /\ n(b) \in Nat \ {0}
             /\ c(b, S \cup {m}) = c(b, S) + c(b, {m})
  <2>1. b.period_start \in Int /\ b.period_end \in Int /\ b.period_start <= b.period_end
    BY CalendarFacts DEF IsBill
  <2>2. IsFiniteSet(whole(b)) /\ n(b) \in Nat \ {0}
    <3>1. \A x, y \in Int : /\ IsFiniteSet(x .. y)
                            /\ Cardinality(x .. y) = IF x > y THEN 0 ELSE y - x + 1
      BY FS_Interval
    <3> QED BY <2>1, <3>1
  <2>3. \A T : days(b, T) \subseteq whole(b)
    BY DEF DaysIn
  <2>4. \A T : IsFiniteSet(days(b, T)) /\ c(b, T) \in Nat
    BY <2>2, <2>3, FS_Subset, FS_CardinalityType
  <2>5. days(b, S \cup {m}) = days(b, S) \cup days(b, {m})
    OBVIOUS
  <2>6. days(b, S) \cap days(b, {m}) = {}
    <3>1. \A o \in S : o \in CalendarMonths /\ o # m
      OBVIOUS
    <3>2. \A o \in S : (MonthStart[o] .. LastDay(o)) \cap (MonthStart[m] .. LastDay(m)) = {}
      BY <3>1, MonthsApart
    <3>3. \A o \in S : DaysIn(b, o) \cap DaysIn(b, m) = {}
      BY <3>2 DEF DaysIn
    <3> QED BY <3>3
  <2> HIDE DEF days, whole
  <2>7. c(b, S \cup {m}) = c(b, S) + c(b, {m}) - Cardinality(days(b, S) \cap days(b, {m}))
    BY <2>4, <2>5, FS_Union
  <2>8. Cardinality(days(b, S) \cap days(b, {m})) = 0
    BY <2>6, FS_EmptySet
  <2> QED BY <2>2, <2>4, <2>7, <2>8
<1> HIDE DEF c, n
<1>3. ASSUME NEW b \in B
      PROVE  /\ value(b, S) \in Fractions /\ value(b, {m}) \in Fractions
             /\ value(b, S \cup {m}) = Plus(value(b, S), value(b, {m}))
  <2> DEFINE v == b[field]
             x == c(b, S)
             y == c(b, {m})
             z == n(b)
  <2>1. v \in Fractions /\ x \in Nat /\ y \in Nat /\ z \in Nat \ {0} /\ c(b, S \cup {m}) = x + y
    BY <1>2
  <2> HIDE DEF v, x, y, z
  <2>2. Times(v, Frac(x + y, z)) = Plus(Times(v, Frac(x, z)), Times(v, Frac(y, z)))
    BY <2>1, PartsAdd
  <2>3. Times(v, Frac(x, z)) \in Fractions /\ Times(v, Frac(y, z)) \in Fractions
    BY <2>1, PartsAdd
  <2> QED BY <2>1, <2>2, <2>3 DEF v, x, y, z
<1> HIDE DEF value
<1>4. /\ DOMAIN part(S) = B /\ DOMAIN part({m}) = B /\ DOMAIN part(S \cup {m}) = B
      /\ \A b \in B : /\ part(S)[b] \in Fractions /\ part({m})[b] \in Fractions
                      /\ part(S \cup {m})[b] = Plus(part(S)[b], part({m})[b])
  BY <1>3
<1> HIDE DEF part
<1>5. Total(part(S \cup {m})) = Plus(Total(part(S)), Total(part({m})))
  BY <1>4, TotalOfSums, SMTT(30)
<1>6. Total(part(S)) \in Fractions /\ Total(part({m})) \in Fractions
  BY <1>4, TotalIsFraction
<1> QED BY <1>1, <1>5, <1>6 DEF value

\* ... and bills without a day of a month bring it nothing.
LEMMA OnDaysOfMonth ==
  ASSUME NEW B, IsFiniteSet(B), \A b \in B : IsBill(b),
         NEW field, \A b \in B : b[field] \in Fractions, NEW m \in CalendarMonths
  PROVE  OnDays(B, {m}, field) = OnDays({b \in B : DaysIn(b, m) # {}}, {m}, field)
<1> DEFINE C == {b \in B : DaysIn(b, m) # {}}
           n(b) == Cardinality(b.period_start .. b.period_end)
           k(b) == Cardinality(UNION {DaysIn(b, o) : o \in {m}})
           part(b) == Times(b[field], Frac(k(b), n(b)))
           f == [b \in B |-> part(b)]
           g == [b \in C |-> part(b)]
           h == [b \in C |-> b]
<1>1. OnDays(B, {m}, field) = Total(f) /\ OnDays(C, {m}, field) = Total(g)
  BY DEF OnDays
<1>2. ASSUME NEW b \in B
      PROVE  /\ n(b) \in Nat \ {0} /\ k(b) \in Nat
             /\ b \notin C => k(b) = 0
  <2>1. b.period_start \in Int /\ b.period_end \in Int /\ b.period_start <= b.period_end
    BY CalendarFacts DEF IsBill
  <2>2. IsFiniteSet(b.period_start .. b.period_end) /\ n(b) \in Nat \ {0}
    <3>1. \A x, y \in Int : /\ IsFiniteSet(x .. y)
                            /\ Cardinality(x .. y) = IF x > y THEN 0 ELSE y - x + 1
      BY FS_Interval
    <3> QED BY <2>1, <3>1
  <2>3. UNION {DaysIn(b, o) : o \in {m}} = DaysIn(b, m)
    OBVIOUS
  <2>4. DaysIn(b, m) \subseteq b.period_start .. b.period_end
    BY DEF DaysIn
  <2>5. k(b) \in Nat
    BY <2>2, <2>3, <2>4, FS_Subset, FS_CardinalityType
  <2>6. b \notin C => k(b) = 0
    BY <2>3, FS_EmptySet
  <2> QED BY <2>2, <2>5, <2>6
<1> HIDE DEF n, k
<1>3. \A b \in B : part(b) \in Fractions
  BY <1>2, PartsAdd
<1>4. \A b \in B : b \notin C => part(b) = Zero
  <2>1. SUFFICES ASSUME NEW b \in B, b \notin C PROVE part(b) = Zero
    OBVIOUS
  <2>2. k(b) = 0 /\ n(b) \in Nat \ {0} /\ b[field] \in Fractions
    BY <1>2, <2>1
  <2> QED BY <2>2, PartOfNone
<1> HIDE DEF part
<1>5. IsFiniteSet(C)
  BY FS_Subset
<1>6. Matches(B, f, C, g, h)
  BY <1>3, <1>4, <1>5 DEF Matches
<1>7. Total(f) = Total(g)
  BY <1>6, TotalsMatch
<1> QED BY <1>1, <1>7

\* On no day at all there is nothing.
LEMMA OnDaysOfNone ==
  ASSUME NEW B, IsFiniteSet(B), \A b \in B : IsBill(b),
         NEW field, \A b \in B : b[field] \in Fractions
  PROVE  OnDays(B, {}, field) = Zero
<1> DEFINE n(b) == Cardinality(b.period_start .. b.period_end)
           k(b) == Cardinality(UNION {DaysIn(b, o) : o \in {}})
           part(b) == Times(b[field], Frac(k(b), n(b)))
           f == [b \in B |-> part(b)]
<1>1. OnDays(B, {}, field) = Total(f)
  BY DEF OnDays
<1>2. ASSUME NEW b \in B PROVE part(b) = Zero
  <2>1. b.period_start \in Int /\ b.period_end \in Int /\ b.period_start <= b.period_end
    BY CalendarFacts DEF IsBill
  <2>2. n(b) \in Nat \ {0}
    <3>1. \A x, y \in Int : Cardinality(x .. y) = IF x > y THEN 0 ELSE y - x + 1
      BY FS_Interval
    <3> QED BY <2>1, <3>1
  <2>3. UNION {DaysIn(b, o) : o \in {}} = {}
    OBVIOUS
  <2>4. k(b) = 0
    BY <2>3, FS_EmptySet
  <2> HIDE DEF n, k
  <2> QED BY <2>2, <2>4, PartOfNone
<1> HIDE DEF part
<1>3. DOMAIN f = B /\ \A b \in B : f[b] = Zero
  BY <1>2
<1> HIDE DEF f
<1> QED BY <1>1, <1>3, TotalOfZeros

\* The rounded figures of successive months are the figure of their days, up
\* to half a unit a month.
LEMMA MonthsAddUp ==
  ASSUME NEW B, IsFiniteSet(B), \A b \in B : IsBill(b),
         NEW field, \A b \in B : b[field] \in Fractions,
         NEW s \in Nat \ {0}, NEW p \in Int, NEW k \in Nat,
         NEW f, f = [i \in 1 .. k |-> f[i]],
         \A i \in 1 .. k : /\ f[i] \in Fractions /\ p + i \in CalendarMonths
                           /\ Near(f[i], OnDays(B, {p + i}, field), s)
  PROVE  Within(Total(f), OnDays(B, {p + i : i \in 1 .. k}, field), k, s)
<1> DEFINE F(n) == [i \in 1 .. n |-> f[i]]
           S(n) == {p + i : i \in 1 .. n}
           D(n) == OnDays(B, S(n), field)
           N == {n \in Nat : n <= k => Within(Total(F(n)), D(n), n, s)}
<1>1. 0 \in N
  <2>1. S(0) = {} /\ DOMAIN F(0) = {}
    OBVIOUS
  <2>2. Total(F(0)) = Zero
    BY <2>1, TotalOfNone
  <2>3. D(0) = Zero
    BY <2>1, OnDaysOfNone
  <2>4. Within(Zero, Zero, 0, s)
    <3> DEFINE g == 2 * s
    <3>1. g \in Nat \ {0} /\ g * 1 \in Nat \ {0} /\ 1 \in Nat \ {0}
      OBVIOUS
    <3>2. At(Zero, g * 1, 0)
      BY <3>1, ZeroIsFraction DEF At
    <3>3. 0 - 0 <= 0 * 1 /\ 0 \in Int
      OBVIOUS
    <3> HIDE DEF g
    <3> QED BY <3>1, <3>2, <3>3 DEF Within, g
  <2> HIDE DEF F, D
  <2> QED BY <2>2, <2>3, <2>4
<1>2. ASSUME NEW n \in Nat, n \in N PROVE n + 1 \in N
  <2>1. SUFFICES ASSUME n + 1 <= k PROVE Within(Total(F(n + 1)), D(n + 1), n + 1, s)
    OBVIOUS
  <2> DEFINE j == n + 1
             m == p + j
  <2>2. Within(Total(F(n)), D(n), n, s)
    BY <1>2, <2>1
  <2>3. j \in 1 .. k /\ j \in 1 .. j
    BY <2>1
  <2>4. f[j] \in Fractions /\ m \in CalendarMonths /\ Near(f[j], OnDays(B, {m}, field), s)
    BY <2>3
  <2>5. S(n) \subseteq CalendarMonths /\ m \notin S(n) /\ S(j) = S(n) \cup {m}
    <3>1. \A i \in 1 .. n : i \in 1 .. k /\ i # j /\ i \in 1 .. j
      BY <2>1
    <3>2. \A i \in 1 .. j : i = j \/ i \in 1 .. n
      BY <2>1
    <3>3. S(n) \subseteq CalendarMonths
      BY <3>1
    <3>4. \A i \in 1 .. n : p + i # m
      BY <3>1
    <3>5. S(j) = S(n) \cup {m}
      BY <2>3, <3>1, <3>2
    <3> QED BY <3>3, <3>4, <3>5
  <2>6. Total(F(j)) = Plus(f[j], Total(F(n)))
    <3>1. IsFiniteSet(1 .. j)
      <4>1. \A x, y \in Int : IsFiniteSet(x .. y)
        BY FS_Interval
      <4>2. 1 \in Int /\ j \in Int
        OBVIOUS
      <4> HIDE DEF j
      <4> QED BY <4>1, <4>2
    <3>2. DOMAIN F(j) = 1 .. j /\ \A i \in 1 .. j : F(j)[i] \in Fractions
      <4>1. \A i \in 1 .. j : i \in 1 .. k
        BY <2>1
      <4> QED BY <4>1
    <3>3. Without(F(j), 1 .. j, j) = F(n)
      <4>1. (1 .. j) \ {j} = 1 .. n
        OBVIOUS
      <4> QED BY <4>1 DEF Without
    <3>4. F(j)[j] = f[j]
      BY <2>3
    <3> HIDE DEF F, j
    <3> QED BY <2>3, <3>1, <3>2, <3>3, <3>4, TotalTakesAny
  <2>7. \A i \in 1 .. n : F(n)[i] \in Fractions
    <3>1. \A i \in 1 .. n : i \in 1 .. k
      BY <2>1
    <3> QED BY <3>1
  <2>8. Total(F(n)) \in Fractions
    <3>1. \A x, y \in Int : IsFiniteSet(x .. y)
      BY FS_Interval
    <3>2. IsFiniteSet(1 .. n) /\ DOMAIN F(n) = 1 .. n
      BY <3>1
    <3> HIDE DEF F
    <3> QED BY <2>7, <3>2, TotalIsFraction
  <2> HIDE DEF F, m, j, S
  <2>9. D(j) = Plus(D(n), OnDays(B, {m}, field))
    BY <2>4, <2>5, OnDaysAdds
  <2>10. OnDays(B, {m}, field) \in Fractions
    BY <2>4, <2>5, OnDaysAdds
  <2>11. Within(f[j], OnDays(B, {m}, field), 1, s)
    BY <2>4, <2>10, NearIsWithin
  <2>12. Within(Plus(Total(F(n)), f[j]), Plus(D(n), OnDays(B, {m}, field)), n + 1, s)
    <3> HIDE DEF D
    <3> QED BY <2>2, <2>11, WithinAdds
  <2>13. Plus(Total(F(n)), f[j]) = Plus(f[j], Total(F(n)))
    BY <2>4, <2>8, PlusCommutes
  <2> QED BY <2>6, <2>9, <2>12, <2>13 DEF j
<1>3. k \in N
  <2> HIDE DEF N
  <2> QED BY <1>1, <1>2, NatBySets
<1>4. F(k) = f
  OBVIOUS
<1> QED BY <1>3, <1>4

\* A change in percent has the sign of the change.
LEMMA ChangeTellsSign ==
  ASSUME NEW p \in Fractions, NEW q \in Fractions, p # Zero
  PROVE  LET c == PctChange(p, q)
         IN  /\ c \in Fractions
             /\ c[1] < 0 <=> Less(q, p)
             /\ c[1] > 0 <=> Less(p, q)
<1> DEFINE d == Minus(q, p)
           a == AbsOf(p)
           o == Over(d, a)
           h == Whole(100)
           t == Times(o, h)
<1>1. PctChange(p, q) = t
  BY DEF PctChange
<1>2. PICK e \in Nat \ {0}, x, y, z \in Int : At(p, e, x) /\ At(q, e, y) /\ At(p, e, z)
  BY AtExists
<1>3. At(d, e, y - x)
  BY <1>2, AtPlus
<1> DEFINE w == IF x < 0 THEN -x ELSE x
<1>4. At(a, e, w)
  BY <1>2, AbsWorks
<1>5. x # 0
  <2> SUFFICES ASSUME x = 0 PROVE FALSE
    OBVIOUS
  <2>1. At(Zero, e, 0)
    BY ZeroIsFraction DEF At
  <2> QED BY <1>2, <2>1, AtLeq
<1>6. w > 0 /\ w \in Int
  BY <1>5
<1> HIDE DEF d, a, w
<1>7. o \in Fractions /\ o[1] * w = (y - x) * o[2]
  BY <1>3, <1>4, <1>6, AtOver
<1> HIDE DEF o
<1>8. h \in Fractions /\ h[1] = 100 /\ h[2] = 1
  BY WholeIsFraction
<1> HIDE DEF h
<1>9. t \in Fractions /\ t[1] * (o[2] * h[2]) = (o[1] * h[1]) * t[2]
  BY <1>7, <1>8, TimesIsFraction
<1> HIDE DEF t
<1>10. o[1] \in Int /\ o[2] \in Nat \ {0} /\ t[1] \in Int /\ t[2] \in Nat \ {0}
  BY <1>7, <1>9, FractionParts
<1> DEFINE m == o[1]  n == o[2]  u == t[1]  v == t[2]
<1>11. /\ m \in Int /\ n \in Nat \ {0} /\ u \in Int /\ v \in Nat \ {0}
       /\ m * w = (y - x) * n /\ u * n = (m * 100) * v
  BY <1>7, <1>8, <1>9, <1>10
<1> HIDE DEF m, n, u, v
<1>12. ASSUME NEW i \in Int, NEW j \in Int, NEW k \in Nat \ {0}, NEW l \in Nat \ {0},
              i * k = j * l
       PROVE  (i < 0 <=> j < 0) /\ (i > 0 <=> j > 0)
  <2>1. (i > 0 => i * k > 0) /\ (i < 0 => i * k < 0) /\ (i = 0 => i * k = 0)
    BY <1>12
  <2>2. (j > 0 => j * l > 0) /\ (j < 0 => j * l < 0) /\ (j = 0 => j * l = 0)
    BY <1>12
  <2> DEFINE r == i * k
             s == j * l
  <2>3. r = s /\ r \in Int /\ s \in Int
    BY <1>12
  <2> HIDE DEF r, s
  <2>4. (i > 0 => r > 0) /\ (i < 0 => r < 0) /\ (i = 0 => r = 0)
    BY <2>1 DEF r
  <2>5. (j > 0 => s > 0) /\ (j < 0 => s < 0) /\ (j = 0 => s = 0)
    BY <2>2 DEF s
  <2> QED BY <2>3, <2>4, <2>5
<1>13. (m < 0 <=> y - x < 0) /\ (m > 0 <=> y - x > 0)
  <2>1. w \in Nat \ {0} /\ y - x \in Int
    BY <1>6
  <2> QED BY <1>11, <1>12, <2>1
<1>14. (u < 0 <=> m * 100 < 0) /\ (u > 0 <=> m * 100 > 0)
  <2>1. m * 100 \in Int
    BY <1>11
  <2> QED BY <1>11, <1>12, <2>1
<1>15. (u < 0 <=> y < x) /\ (u > 0 <=> x < y)
  BY <1>11, <1>13, <1>14
<1>16. (Less(q, p) <=> y < x) /\ (Less(p, q) <=> x < y)
  BY <1>2, AtLeq
<1> QED BY <1>1, <1>9, <1>15, <1>16 DEF u

\* The finding of a headline over two whole years is true of any money and kWh
\* that the years' figures stand for up to the rounding of their months.
LEMMA HeadlineTells ==
  ASSUME NEW p \in Fractions, NEW q \in Fractions, NEW u \in Fractions, NEW v \in Fractions,
         NEW comparison,
         comparison.current.months = MonthsPerYear, comparison.prior.months = MonthsPerYear,
         comparison.cost = Delta(p, q), comparison.kwh = Delta(u, v),
         NEW paid, Within(q, paid, MonthsPerYear, MoneyScale),
         NEW paidBefore, Within(p, paidBefore, MonthsPerYear, MoneyScale),
         NEW used, Within(v, used, MonthsPerYear, MoneyScale),
         NEW usedBefore, Within(u, usedBefore, MonthsPerYear, MoneyScale)
  PROVE  FindingHolds(Headline(comparison), paid, paidBefore, used, usedBefore)
<1> DEFINE spend == comparison.cost.pct
           use   == comparison.kwh.pct
           finding == Headline(comparison)
           moved(c, least) == c # Null /\ ~Less(AbsOf(c), Whole(least))
<1>1. MonthsPerYear \in Nat /\ MonthsPerYear > 1 /\ MoneyScale \in Nat \ {0}
  BY CalendarAssumption, YearAssumption
<1>2. spend = PctChange(p, q) /\ use = PctChange(u, v)
  <2>1. p # Null /\ q # Null /\ u # Null /\ v # Null
    BY AmountsAre
  <2> QED BY <2>1 DEF Delta
<1>3. finding = IF spend = Null THEN "insufficient"
                ELSE IF Leq(spend, Whole(-5)) THEN "savings"
                ELSE IF Less(Whole(5), AbsOf(spend)) /\ use # Null /\ ~moved(use, 3)
                THEN "price"
                ELSE IF moved(use, 3) /\ SameSign(use, spend)
                THEN "consumption"
                ELSE "steady"
  <2>1. ~(comparison.current.months < 2 \/ comparison.prior.months = 0)
    BY <1>1
  <2> QED BY <2>1 DEF Headline
<1>4. /\ Less(q, p) => More(paidBefore, paid)
      /\ Less(p, q) => More(paid, paidBefore)
      /\ Less(v, u) => More(usedBefore, used)
      /\ Less(u, v) => More(used, usedBefore)
  BY <1>1, WithinLess DEF More
<1>5. CASE spend = Null
  <2>1. p = Zero
    <3> SUFFICES ASSUME p # Zero PROVE FALSE
      OBVIOUS
    <3>1. spend \in Fractions
      BY <1>2, ChangeTellsSign
    <3> QED BY <1>5, <3>1, AmountsAre
  <2>2. Leq(AbsOf(paidBefore), Frac(MonthsPerYear, 2 * MoneyScale))
    BY <1>1, <2>1, WithinZero
  <2>3. finding = "insufficient"
    BY <1>3, <1>5
  <2> HIDE DEF finding
  <2>4. FindingHolds(finding, paid, paidBefore, used, usedBefore)
    BY <2>2, <2>3 DEF FindingHolds
  <2> QED BY <2>4 DEF finding
<1>6. CASE spend # Null
  <2>1. p # Zero
    BY <1>2, <1>6 DEF PctChange
  <2>2. /\ spend \in Fractions
        /\ spend[1] < 0 <=> Less(q, p)
        /\ spend[1] > 0 <=> Less(p, q)
    BY <1>2, <2>1, ChangeTellsSign
  <2>3. use # Null => /\ use \in Fractions
                      /\ use[1] < 0 <=> Less(v, u)
                      /\ use[1] > 0 <=> Less(u, v)
    <3> SUFFICES ASSUME use # Null
                 PROVE  /\ use \in Fractions
                        /\ use[1] < 0 <=> Less(v, u)
                        /\ use[1] > 0 <=> Less(u, v)
      OBVIOUS
    <3>1. u # Zero
      BY <1>2 DEF PctChange
    <3> QED BY <1>2, <3>1, ChangeTellsSign
  <2> HIDE DEF spend, use, finding
  <2>4. \A c \in Fractions : /\ Leq(c, Whole(-5)) => c[1] < 0
                             /\ Less(Whole(5), AbsOf(c)) => c[1] > 0 \/ Leq(c, Whole(-5))
                             /\ ~Less(AbsOf(c), Whole(3)) => c[1] # 0
                             /\ Less(Zero, c) <=> c[1] > 0
                             /\ Less(c, Zero) <=> c[1] < 0
                             /\ c[1] \in Int
    <3> SUFFICES ASSUME NEW c \in Fractions
                 PROVE  /\ Leq(c, Whole(-5)) => c[1] < 0
                        /\ Less(Whole(5), AbsOf(c)) => c[1] > 0 \/ Leq(c, Whole(-5))
                        /\ ~Less(AbsOf(c), Whole(3)) => c[1] # 0
                        /\ Less(Zero, c) <=> c[1] > 0
                        /\ Less(c, Zero) <=> c[1] < 0
                        /\ c[1] \in Int
      OBVIOUS
    <3> DEFINE n == c[1]
               d == c[2]
               w == IF n < 0 THEN -n ELSE n
    <3>1. n \in Int /\ d \in Nat \ {0}
      BY FractionParts
    <3>2. AbsOf(c)[1] = w /\ AbsOf(c)[2] = d
      BY DEF AbsOf, Abs
    <3>3. /\ Leq(c, Whole(-5)) <=> n * 1 <= (-5) * d
          /\ Less(Whole(5), AbsOf(c)) <=> 5 * d < w * 1
          /\ Less(AbsOf(c), Whole(3)) <=> w * 1 < 3 * d
          /\ Less(Zero, c) <=> 0 * d < n * 1
          /\ Less(c, Zero) <=> n * 1 < 0 * d
      <4>1. /\ Whole(-5)[1] = -5 /\ Whole(-5)[2] = 1
            /\ Whole(5)[1] = 5 /\ Whole(5)[2] = 1
            /\ Whole(3)[1] = 3 /\ Whole(3)[2] = 1
        BY DEF Whole
      <4> HIDE DEF w
      <4> QED BY <3>2, <4>1, ZeroIsFraction DEF Leq, Less
    <3> HIDE DEF n, d
    <3>4. /\ n * 1 <= (-5) * d => n < 0
          /\ 5 * d < w * 1 => n > 0 \/ n * 1 <= (-5) * d
          /\ ~(w * 1 < 3 * d) => n # 0
          /\ 0 * d < n * 1 <=> n > 0
          /\ n * 1 < 0 * d <=> n < 0
      BY <3>1
    <3> QED BY <3>1, <3>3, <3>4 DEF n
  <2>5. CASE finding = "savings"
    <3>1. Leq(spend, Whole(-5))
      BY <1>3, <1>6, <2>5
    <3>2. More(paidBefore, paid)
      BY <1>4, <2>2, <2>4, <3>1
    <3> QED BY <2>5, <3>2 DEF FindingHolds, finding
  <2>6. CASE finding = "price"
    <3>1. ~Leq(spend, Whole(-5)) /\ Less(Whole(5), AbsOf(spend))
      BY <1>3, <1>6, <2>6
    <3>2. More(paid, paidBefore)
      BY <1>4, <2>2, <2>4, <3>1
    <3> QED BY <2>6, <3>2 DEF FindingHolds, finding
  <2>7. CASE finding = "consumption"
    <3>1. moved(use, 3) /\ SameSign(use, spend)
      BY <1>3, <1>6, <2>7
    <3>2. use \in Fractions /\ use[1] # 0 /\ use[1] \in Int
      BY <2>3, <2>4, <3>1
    <3>3. /\ use[1] > 0 <=> spend[1] > 0
          /\ use[1] < 0 <=> spend[1] < 0
      BY <2>2, <2>4, <3>1, <3>2 DEF SameSign
    <3>4. \/ More(paid, paidBefore) /\ More(used, usedBefore)
          \/ More(paidBefore, paid) /\ More(usedBefore, used)
      <4>1. use[1] > 0 \/ use[1] < 0
        BY <3>2
      <4>2. CASE use[1] > 0
        BY <1>4, <2>2, <2>3, <3>1, <3>3, <4>2
      <4>3. CASE use[1] < 0
        BY <1>4, <2>2, <2>3, <3>1, <3>3, <4>3
      <4> QED BY <4>1, <4>2, <4>3
    <3> QED BY <2>7, <3>4 DEF FindingHolds, finding
  <2>8. CASE finding = "steady"
    BY <2>8 DEF FindingHolds, finding
  <2>9. finding \in {"savings", "price", "consumption", "steady"}
    BY <1>3, <1>6
  <2> QED BY <2>5, <2>6, <2>7, <2>8, <2>9 DEF finding
<1> QED BY <1>5, <1>6

\* The bills of a record are finitely many.
LEMMA BillsAreFinite ==
  ASSUME NEW P, NEW B, Lists(P, B)
  PROVE  IsFiniteSet(B)
<1> DEFINE f == [i \in DOMAIN P |-> Zero]
           g == [b \in B |-> Zero]
<1>1. /\ DOMAIN f = DOMAIN P /\ \A i \in DOMAIN P : f[i] \in Fractions
      /\ DOMAIN g = B /\ B \subseteq B
      /\ \A i \in DOMAIN P, b \in B :
           P[i] = ParseBill(b) => f[i] = IF b \in B THEN g[b] ELSE Zero
  BY ZeroIsFraction
<1> HIDE DEF f, g
<1> QED BY <1>1, TotalsOverBills

\* A month of metered bills: the figures shown, and what they stand for.
LEMMA ShownMonth ==
  ASSUME DataInv, AllMetered(Bills), NEW j \in DOMAIN buckets
  PROVE  LET m == buckets[j].period
         IN  /\ m \in CalendarMonths
             /\ buckets[j].cost # Null /\ OnGrid(buckets[j].cost, MoneyScale)
             /\ buckets[j].kwh # Null /\ OnGrid(buckets[j].kwh, MoneyScale)
             /\ Near(buckets[j].cost, OnDays(Bills, {m}, "total_amount"), MoneyScale)
             /\ Near(buckets[j].kwh, OnDays(Bills, {m}, "consumption"), MoneyScale)
<1> DEFINE b == buckets[j]
           m == b.period
           C == BillsOf(m)
<1>1. PICK c \in Nat : /\ IsList(buckets, c) /\ Follow(buckets, c) /\ OfCalendar(buckets, c)
  BY BucketsList
<1>2. j \in 1 .. c
  BY <1>1 DEF IsList
<1>3. m \in CalendarMonths /\ HasMonth(buckets, m) /\ FindMonth(buckets, m) = b
  BY <1>1, <1>2, MonthIsFound DEF OfCalendar
<1>4. Lists(parsed, Bills) /\ \A x \in Bills : IsBill(x)
  BY BucketsFacts DEF Lists
<1>5. IsFiniteSet(Bills)
  BY <1>4, BillsAreFinite
<1>6. \A x \in Bills : /\ x["total_amount"] \in Fractions
                       /\ x["consumption"] \in Fractions /\ x["consumption"] # Null
  BY <1>4, AmountsAre DEF IsBill, AllMetered, Positive
<1>7. {x \in C : x.consumption # Null} = C
  BY <1>6 DEF BillsOf
<1> HIDE DEF b, m
<1>8. MonthMatches(m)
  BY <1>3, MonthsMatch
<1>9. C = {x \in Bills : DaysIn(x, m) # {}}
  BY DEF BillsOf
<1>10. /\ OnDays(Bills, {m}, "total_amount") = OnDays(C, {m}, "total_amount")
       /\ OnDays(Bills, {m}, "consumption") = OnDays(C, {m}, "consumption")
  <2> HIDE DEF C
  <2>1. \A x \in Bills : x["total_amount"] \in Fractions
    BY <1>6
  <2>2. \A x \in Bills : x["consumption"] \in Fractions
    BY <1>6
  <2>3. OnDays(Bills, {m}, "total_amount") = OnDays(C, {m}, "total_amount")
    BY <1>3, <1>4, <1>5, <1>9, <2>1, OnDaysOfMonth
  <2>4. OnDays(Bills, {m}, "consumption") = OnDays(C, {m}, "consumption")
    BY <1>3, <1>4, <1>5, <1>9, <2>2, OnDaysOfMonth
  <2> QED BY <2>3, <2>4
<1> HIDE DEF C
<1>11. /\ C # {}
       /\ Near(b.cost, OnDays(C, {m}, "total_amount"), MoneyScale)
       /\ b.kwh # Null /\ Near(b.kwh, OnDays(C, {m}, "consumption"), MoneyScale)
  BY <1>3, <1>7, <1>8 DEF MonthMatches, C
<1>12. b.cost # Null /\ OnGrid(b.cost, MoneyScale) /\ OnGrid(b.kwh, MoneyScale)
  BY <1>11, MonthFigures DEF b
<1> QED BY <1>3, <1>10, <1>11, <1>12 DEF b, m

\* What is known of every entry is summed over all of them.
LEMMA SumOfAll ==
  ASSUME NEW n \in Nat, NEW list, IsList(list, n), NEW field,
         \A i \in 1 .. n : list[i][field] # Null
  PROVE  /\ Known(list, field) = list
         /\ TotalOf(list, field) = Total([i \in 1 .. n |-> list[i][field]])
<1>1. DOMAIN list = 1 .. n
  BY DEF IsList
<1>2. {i \in DOMAIN list : list[i][field] # Null} = 1 .. n
  BY <1>1
<1>3. Known(list, field) = list
  BY <1>2, SublistOfAll DEF Known
<1>4. Column(list, field) = [i \in 1 .. n |-> list[i][field]]
  BY <1>1 DEF Column
<1> QED BY <1>3, <1>4 DEF TotalOf

\* The totals of k months are what falls on the days of the months S, up to
\* half a unit a month.
TotalsTold(list, S, k) ==
  LET t == WindowTotals(list)
  IN  /\ t.months = k /\ t.cost \in Fractions /\ t.kwh \in Fractions
      /\ Within(t.cost, OnDays(Bills, S, "total_amount"), k, MoneyScale)
      /\ Within(t.kwh, OnDays(Bills, S, "consumption"), k, MoneyScale)

\* Successive months of metered bills, totalled, are what falls on their days,
\* up to half a unit a month.
LEMMA WindowTold ==
  ASSUME DataInv, AllMetered(Bills),
         NEW k \in Nat \ {0}, NEW p \in Int, NEW list, IsList(list, k),
         \A i \in 1 .. k : /\ \E j \in DOMAIN buckets : list[i] = buckets[j]
                           /\ list[i].period = p + i
  PROVE  TotalsTold(list, {p + i : i \in 1 .. k}, k)
<1> DEFINE t == WindowTotals(list)
           S == {p + i : i \in 1 .. k}
           costs == [i \in 1 .. k |-> list[i]["cost"]]
           uses  == [i \in 1 .. k |-> list[i]["kwh"]]
<1>1. ASSUME NEW i \in 1 .. k
      PROVE  /\ p + i \in CalendarMonths
             /\ list[i].cost # Null /\ OnGrid(list[i].cost, MoneyScale)
             /\ list[i].kwh # Null /\ OnGrid(list[i].kwh, MoneyScale)
             /\ Near(list[i].cost, OnDays(Bills, {p + i}, "total_amount"), MoneyScale)
             /\ Near(list[i].kwh, OnDays(Bills, {p + i}, "consumption"), MoneyScale)
  <2>1. PICK j \in DOMAIN buckets : list[i] = buckets[j]
    OBVIOUS
  <2>2. buckets[j].period = p + i
    BY <2>1
  <2> QED BY <2>1, <2>2, ShownMonth
<1>2. MoneyScale \in Nat \ {0} /\ k \in Nat
  BY CalendarAssumption
<1>3. /\ TotalOf(list, "cost") = Total(costs)
      /\ Known(list, "kwh") = list /\ TotalOf(list, "kwh") = Total(uses)
  <2>1. \A i \in 1 .. k : list[i]["cost"] # Null
    BY <1>1
  <2>2. \A i \in 1 .. k : list[i]["kwh"] # Null
    BY <1>1
  <2>3. TotalOf(list, "cost") = Total(costs)
    BY <1>2, <2>1, SumOfAll
  <2>4. Known(list, "kwh") = list /\ TotalOf(list, "kwh") = Total(uses)
    BY <1>2, <2>2, SumOfAll
  <2> QED BY <2>3, <2>4
<1>4. /\ TotalOf(list, "cost") \in Fractions
      /\ Rounded(TotalOf(list, "cost"), MoneyScale) = TotalOf(list, "cost")
  <2>1. \A i \in 1 .. k : list[i]["cost"] # Null => OnGrid(list[i]["cost"], MoneyScale)
    BY <1>1
  <2> QED BY <1>2, <2>1, SumsStay
<1>5. /\ TotalOf(list, "kwh") \in Fractions
      /\ Rounded(TotalOf(list, "kwh"), MoneyScale) = TotalOf(list, "kwh")
  <2>1. \A i \in 1 .. k : list[i]["kwh"] # Null => OnGrid(list[i]["kwh"], MoneyScale)
    BY <1>1
  <2> QED BY <1>2, <2>1, SumsStay
<1>6. list # <<>> /\ Len(list) = k
  BY DEF IsList
<1>7. t.months = k /\ t.cost = Total(costs) /\ t.kwh = Total(uses)
  BY <1>3, <1>4, <1>5, <1>6 DEF WindowTotals
<1>8. IsFiniteSet(Bills) /\ \A b \in Bills : IsBill(b)
  BY BucketsFacts, BillsAreFinite DEF Lists
<1>9. \A b \in Bills : b["total_amount"] \in Fractions /\ b["consumption"] \in Fractions
  BY <1>8, AmountsAre DEF IsBill, AllMetered, Positive
<1>10. Within(Total(costs), OnDays(Bills, S, "total_amount"), k, MoneyScale)
  <2>1. costs = [i \in 1 .. k |-> costs[i]]
    OBVIOUS
  <2>2. \A i \in 1 .. k : /\ costs[i] \in Fractions /\ p + i \in CalendarMonths
                          /\ Near(costs[i], OnDays(Bills, {p + i}, "total_amount"), MoneyScale)
    BY <1>1 DEF OnGrid
  <2>3. \A b \in Bills : b["total_amount"] \in Fractions
    BY <1>9
  <2> HIDE DEF costs
  <2> QED BY <1>2, <1>8, <2>1, <2>2, <2>3, MonthsAddUp
<1>11. Within(Total(uses), OnDays(Bills, S, "consumption"), k, MoneyScale)
  <2>1. uses = [i \in 1 .. k |-> uses[i]]
    OBVIOUS
  <2>2. \A i \in 1 .. k : /\ uses[i] \in Fractions /\ p + i \in CalendarMonths
                          /\ Near(uses[i], OnDays(Bills, {p + i}, "consumption"), MoneyScale)
    BY <1>1 DEF OnGrid
  <2>3. \A b \in Bills : b["consumption"] \in Fractions
    BY <1>9
  <2> HIDE DEF uses
  <2> QED BY <1>2, <1>8, <2>1, <2>2, <2>3, MonthsAddUp
<1> HIDE DEF t, costs, uses, S
<1>12. t.cost \in Fractions /\ t.kwh \in Fractions
  BY <1>3, <1>4, <1>5, <1>7
<1> QED BY <1>7, <1>10, <1>11, <1>12 DEF TotalsTold, t, S

\* The headline tells what the days of the bills of two years say.
LEMMA FindingTold ==
  ASSUME DataInv, Gapless, Len(buckets) >= 2 * MonthsPerYear, AllMetered(Bills)
  PROVE  LET now    == YearFrom(Last(buckets).period - MonthsPerYear + 1)
             before == YearFrom(Last(buckets).period - 2 * MonthsPerYear + 1)
         IN  FindingHolds(Finding,
               OnDays(Bills, now, "total_amount"), OnDays(Bills, before, "total_amount"),
               OnDays(Bills, now, "consumption"), OnDays(Bills, before, "consumption"))
<1> DEFINE n      == MonthsPerYear
           last   == Last(buckets).period
           now    == YearFrom(last - n + 1)
           before == YearFrom(last - 2 * n + 1)
           late   == Trailing(buckets, n)
           early  == BeforeTrailing(buckets, n)
<1>1. n \in Nat \ {0} /\ MoneyScale \in Nat \ {0}
  BY CalendarAssumption
<1>2. buckets # <<>>
  BY <1>1
<1>3. PICK c \in Nat \ {0}, q \in Int : IsRun(buckets, c, q)
  BY <1>2, RunOfBuckets
<1>4. /\ IsList(buckets, c) /\ DOMAIN buckets = 1 .. c /\ Len(buckets) = c
      /\ \A i \in 1 .. c : buckets[i].period = q + i /\ q + i \in CalendarMonths
  BY <1>3 DEF IsRun, IsList, OfCalendar
<1>5. c >= 2 * n /\ last = q + c
  <2>1. Last(buckets) = buckets[c]
    BY <1>4 DEF Last
  <2> QED BY <1>4, <2>1
<1> HIDE DEF n, last
<1>6. /\ IsList(late, n)
      /\ \A i \in 1 .. n : /\ \E j \in DOMAIN buckets : late[i] = buckets[j]
                           /\ late[i].period = (q + c - n) + i
  <2> DEFINE k == IF c <= n THEN c ELSE n
  <2>1. k \in 0 .. c /\ PartOfList(late, buckets, c - k, k)
    BY <1>1, <1>4, TrailingWorks
  <2>2. k = n
    BY <1>1, <1>5
  <2>3. late = [i \in 1 .. n |-> buckets[(c - n) + i]]
    BY <2>1, <2>2 DEF PartOfList
  <2> HIDE DEF late, k
  <2>4. \A i \in 1 .. n : (c - n) + i \in 1 .. c
    BY <1>1, <1>5
  <2>5. \A i \in 1 .. n : late[i] = buckets[(c - n) + i]
    BY <2>3
  <2>6. \A i \in 1 .. n : buckets[(c - n) + i].period = q + ((c - n) + i)
    BY <1>4, <2>4
  <2>7. \A i \in 1 .. n : q + ((c - n) + i) = (q + c - n) + i
    BY <1>1
  <2>8. IsList(late, n)
    BY <2>3 DEF IsList
  <2> QED BY <1>4, <2>4, <2>5, <2>6, <2>7, <2>8
<1>7. /\ IsList(early, n)
      /\ \A i \in 1 .. n : /\ \E j \in DOMAIN buckets : early[i] = buckets[j]
                           /\ early[i].period = (q + c - 2 * n) + i
  <2>1. PICK k \in Nat, a \in Nat : /\ PartOfList(early, buckets, a, k)
                                    /\ a + k <= c
                                    /\ c >= 2 * n => k = n /\ a = c - 2 * n
    BY <1>1, <1>4, BeforeTrailingWorks
  <2>2. k = n /\ a = c - 2 * n
    BY <1>5, <2>1
  <2>3. early = [i \in 1 .. n |-> buckets[a + i]]
    BY <2>1, <2>2 DEF PartOfList
  <2> HIDE DEF early
  <2>4. \A i \in 1 .. n : a + i \in 1 .. c
    BY <1>1, <2>1, <2>2
  <2>5. \A i \in 1 .. n : early[i] = buckets[a + i]
    BY <2>3
  <2>6. \A i \in 1 .. n : buckets[a + i].period = q + (a + i)
    BY <1>4, <2>4
  <2>7. \A i \in 1 .. n : q + (a + i) = (q + c - 2 * n) + i
    BY <1>1, <2>2
  <2>8. IsList(early, n)
    BY <2>3 DEF IsList
  <2> QED BY <1>4, <2>4, <2>5, <2>6, <2>7, <2>8
<1>8. \A p \in Int : (\A i \in 1 .. n : p + i \in CalendarMonths) =>
        YearFrom(p + 1) = {p + i : i \in 1 .. n}
  <2>1. SUFFICES ASSUME NEW p \in Int, \A i \in 1 .. n : p + i \in CalendarMonths
                 PROVE  YearFrom(p + 1) = {p + i : i \in 1 .. n}
    OBVIOUS
  <2>2. ASSUME NEW x \in YearFrom(p + 1) PROVE x \in {p + i : i \in 1 .. n}
    <3>1. x \in CalendarMonths /\ p + 1 <= x /\ x < p + 1 + n
      BY DEF YearFrom, n
    <3>2. x \in Int
      BY <3>1, CalendarFacts
    <3>3. x - p \in 1 .. n /\ p + (x - p) = x
      BY <1>1, <3>1, <3>2
    <3> QED BY <3>3
  <2>3. ASSUME NEW i \in 1 .. n PROVE p + i \in YearFrom(p + 1)
    <3>1. p + i \in CalendarMonths
      BY <2>1
    <3>2. p + 1 <= p + i /\ p + i < p + 1 + n
      BY <1>1
    <3> QED BY <3>1, <3>2 DEF YearFrom, n
  <2> QED BY <2>2, <2>3
<1> DEFINE p == q + c - n
           o == q + c - 2 * n
<1>9. /\ now = {p + i : i \in 1 .. n} /\ before = {o + i : i \in 1 .. n}
      /\ p \in Int /\ o \in Int
  <2>1. p \in Int /\ o \in Int /\ last - n + 1 = p + 1 /\ last - 2 * n + 1 = o + 1
    BY <1>1, <1>5
  <2>2. \A i \in 1 .. n : p + i \in CalendarMonths
    <3>1. \A i \in 1 .. n : (c - n) + i \in 1 .. c /\ q + ((c - n) + i) = p + i
      BY <1>1, <1>5
    <3> QED BY <1>4, <3>1
  <2>3. \A i \in 1 .. n : o + i \in CalendarMonths
    <3>1. \A i \in 1 .. n : (c - 2 * n) + i \in 1 .. c /\ q + ((c - 2 * n) + i) = o + i
      BY <1>1, <1>5
    <3> QED BY <1>4, <3>1
  <2> HIDE DEF p, o
  <2> QED BY <1>8, <2>1, <2>2, <2>3
<1> HIDE DEF late, early, now, before, p, o
<1> DEFINE t == WindowTotals(late)
           s == WindowTotals(early)
<1>10. /\ t.months = n /\ t.cost \in Fractions /\ t.kwh \in Fractions
       /\ Within(t.cost, OnDays(Bills, now, "total_amount"), n, MoneyScale)
       /\ Within(t.kwh, OnDays(Bills, now, "consumption"), n, MoneyScale)
  <2>1. \A i \in 1 .. n : /\ \E j \in DOMAIN buckets : late[i] = buckets[j]
                          /\ late[i].period = p + i
    BY <1>6 DEF p
  <2>2. TotalsTold(late, {p + i : i \in 1 .. n}, n)
    BY <1>1, <1>6, <1>9, <2>1, WindowTold
  <2> QED BY <1>9, <2>2 DEF TotalsTold
<1>11. /\ s.months = n /\ s.cost \in Fractions /\ s.kwh \in Fractions
       /\ Within(s.cost, OnDays(Bills, before, "total_amount"), n, MoneyScale)
       /\ Within(s.kwh, OnDays(Bills, before, "consumption"), n, MoneyScale)
  <2>1. \A i \in 1 .. n : /\ \E j \in DOMAIN buckets : early[i] = buckets[j]
                          /\ early[i].period = o + i
    BY <1>7 DEF o
  <2>2. TotalsTold(early, {o + i : i \in 1 .. n}, n)
    BY <1>1, <1>7, <1>9, <2>1, WindowTold
  <2> QED BY <1>9, <2>2 DEF TotalsTold
<1> DEFINE x == TrailingComparison(buckets)
<1>12. /\ x.current = t /\ x.prior = s
       /\ x.cost = Delta(s.cost, t.cost) /\ x.kwh = Delta(s.kwh, t.kwh)
  BY DEF TrailingComparison, late, early, n
<1> HIDE DEF t, s, x
<1>13. x.current.months = n /\ x.prior.months = n
  BY <1>10, <1>11, <1>12
<1>14. FindingHolds(Headline(x),
         OnDays(Bills, now, "total_amount"), OnDays(Bills, before, "total_amount"),
         OnDays(Bills, now, "consumption"), OnDays(Bills, before, "consumption"))
  BY <1>10, <1>11, <1>12, <1>13, HeadlineTells DEF n
<1> QED BY <1>14 DEF Finding, x, now, before, last, n

(***************************************************************************)
(* The start of the record                                                 *)
(***************************************************************************)
\* Entries of the months are no further apart than their periods, ...
LEMMA EntriesApart ==
  ASSUME NEW n \in Nat, NEW list, Follow(list, n), OfCalendar(list, n),
         NEW i \in 1 .. n, NEW j \in 1 .. n, i <= j
  PROVE  j - i <= list[j].period - list[i].period
<1> DEFINE D == {d \in Nat : i + d \in 1 .. n => d <= list[i + d].period - list[i].period}
<1>1. \A k \in 1 .. n : list[k].period \in Int
  BY CalendarFacts DEF OfCalendar
<1>2. 0 \in D
  BY <1>1
<1>3. ASSUME NEW d \in Nat, d \in D PROVE d + 1 \in D
  <2> SUFFICES ASSUME i + (d + 1) \in 1 .. n
               PROVE  d + 1 <= list[i + (d + 1)].period - list[i].period
    OBVIOUS
  <2> DEFINE k == i + d
             l == i + (d + 1)
  <2>1. k \in 1 .. n /\ l \in 1 .. n /\ k < l
    OBVIOUS
  <2>2. d <= list[k].period - list[i].period
    BY <1>3, <2>1
  <2> HIDE DEF k, l
  <2>3. list[k].period < list[l].period
    BY <2>1 DEF Follow
  <2>4. list[k].period \in Int /\ list[l].period \in Int /\ list[i].period \in Int
    BY <1>1, <2>1
  <2>5. d + 1 <= list[l].period - list[i].period
    BY <2>2, <2>3, <2>4
  <2> QED BY <2>5 DEF l
<1> HIDE DEF D
<1>4. j - i \in D
  <2>1. j - i \in Nat
    OBVIOUS
  <2> QED BY <1>2, <1>3, <2>1, NatBySets
<1>5. i + (j - i) = j
  OBVIOUS
<1> QED BY <1>4, <1>5 DEF D

\* ... the prices of a place without credits are none below zero, ...
LEMMA PricesNotBelow ==
  ASSUME DataInv, ~\E b \in Bills : IsCredit(b), NEW i \in DOMAIN buckets
  PROVE  LET price == buckets[i].effective IN price = Null \/ NotBelow(price)
<1> DEFINE b == buckets[i]
           m == b.period
           C == CoveredBy(Bills, m)
<1>1. m \in CalendarMonths
  BY MonthShows
<1>2. ShowsMonth(b, C, m)
  BY MonthShows
<1>3. \A x \in C : IsBill(x) /\ Covers(x, m) /\ x \in Bills
  BY MonthShows
<1> HIDE DEF b, m, C
<1>4. \A x \in C : NotBelow(Times(x["total_amount"], DayShare(x, m)))
  <2> SUFFICES ASSUME NEW x \in C PROVE NotBelow(Times(x["total_amount"], DayShare(x, m)))
    OBVIOUS
  <2>1. x.total_amount \in Fractions /\ ~Less(x.total_amount, Zero)
    BY <1>3 DEF IsBill, IsCredit
  <2>2. NotBelow(x.total_amount)
    <3> DEFINE v == x.total_amount
    <3>1. v[1] \in Int /\ v[2] \in Nat \ {0}
      BY <2>1, FractionParts
    <3> HIDE DEF v
    <3>2. ~Less(v, Zero) => v[1] >= 0
      BY <3>1, ZeroIsFraction DEF Less
    <3> QED BY <2>1, <3>2 DEF NotBelow, v
  <2>3. Above(DayShare(x, m))
    BY <1>1, <1>3, ShareIsAbove
  <2>4. NotBelow(DayShare(x, m))
    <3>1. DayShare(x, m)[1] \in Int
      BY <2>3, FractionParts DEF Above
    <3> QED BY <2>3, <3>1 DEF Above, NotBelow
  <2> QED BY <2>2, <2>4, TimesNotBelow
<1>5. IsFiniteSet(C)
  BY <1>2 DEF ShowsMonth
<1> DEFINE part == [x \in C |-> Times(x["total_amount"], DayShare(x, m))]
<1>6. DOMAIN part = C /\ \A x \in C : NotBelow(part[x])
  BY <1>4
<1>7. Cost(C, m) = Total(part)
  BY DEF Cost, ExactSum
<1> HIDE DEF part
<1>8. NotBelow(Cost(C, m))
  BY <1>5, <1>6, <1>7, TotalNotBelow
<1> DEFINE k == Kwh(C, m)
           o == Over(Cost(C, m), k)
<1>9. k \in Fractions /\ (b.effective = Null \/ (~Leq(k, Zero) /\ b.effective = Rounded(o, PriceScale)))
  BY <1>2 DEF ShowsMonth
<1> HIDE DEF k
<1>10. CASE ~Leq(k, Zero) /\ b.effective = Rounded(o, PriceScale)
  <2>1. Above(k)
    <3>1. k[1] \in Int /\ k[2] \in Nat \ {0}
      BY <1>9, FractionParts
    <3>2. ~Leq(k, Zero) => k[1] > 0
      BY <3>1, ZeroIsFraction DEF Leq
    <3> QED BY <1>9, <1>10, <3>2 DEF Above
  <2>2. NotBelow(o)
    BY <1>8, <2>1, OverNotBelow
  <2>3. NotBelow(Rounded(o, PriceScale))
    BY <2>2, RoundedNotBelow, CalendarAssumption
  <2> QED BY <1>10, <2>3 DEF b
<1> QED BY <1>9, <1>10 DEF b

\* ... and a month in which a bill with a price ends has a price.
LEMMA PricedBillPrices ==
  ASSUME DataInv, ~\E b \in Bills : IsCredit(b),
         NEW i \in DOMAIN parsed, EffectivePrice(parsed[i]) # Null,
         NEW j \in DOMAIN buckets, buckets[j].period = PeriodOf(parsed[i])
  PROVE  buckets[j].effective \in Fractions
<1> DEFINE b == buckets[j]
           m == b.period
           C == CoveredBy(Bills, m)
           Q == Metered(C)
<1>1. m \in CalendarMonths
  BY MonthShows
<1>2. ShowsMonth(b, C, m)
  BY MonthShows
<1>3. \A x \in C : IsBill(x) /\ Covers(x, m) /\ x \in Bills
  BY MonthShows
<1>4. PICK a \in Bills : parsed[i] = ParseBill(a)
  BY BucketsList DEF Lists
<1>5. IsBill(a) /\ Positive(a.consumption)
  <2>1. IsBill(a)
    BY BucketsList DEF Lists
  <2> QED BY <1>4, <2>1, PricedWhenPositive
<1>6. a \in C
  <2>1. PeriodOf(parsed[i]) = MonthOf(a.period_end)
    BY <1>4, <1>5, ParsedFields DEF PeriodOf
  <2>2. Covers(a, MonthOf(a.period_end))
    BY <1>5, LastMonthWorks
  <2> QED BY <2>1, <2>2 DEF CoveredBy
<1> HIDE DEF b, m, C
<1>7. a \in Q /\ Above(a.consumption)
  <2>1. a.consumption \in Amounts
    BY <1>5 DEF IsBill
  <2> QED BY <1>5, <1>6, <2>1, PositiveIsAbove DEF Metered
<1> DEFINE part == [x \in Q |-> Times(x["consumption"], DayShare(x, m))]
<1>8. ASSUME NEW x \in Q
      PROVE  /\ NotBelow(x.consumption) /\ Above(DayShare(x, m)) /\ NotBelow(DayShare(x, m))
  <2>1. x \in C /\ x.consumption # Null
    BY DEF Metered
  <2>2. x.consumption \in Fractions /\ ~Less(x.consumption, Zero)
    BY <1>3, <2>1, AmountsAre DEF IsBill, IsCredit, NegativeUse
  <2>3. NotBelow(x.consumption)
    <3> DEFINE v == x.consumption
    <3>1. v[1] \in Int /\ v[2] \in Nat \ {0}
      BY <2>2, FractionParts
    <3> HIDE DEF v
    <3>2. ~Less(v, Zero) => v[1] >= 0
      BY <3>1, ZeroIsFraction DEF Less
    <3> QED BY <2>2, <3>2 DEF NotBelow, v
  <2>4. Above(DayShare(x, m))
    BY <1>1, <1>3, <2>1, ShareIsAbove
  <2>5. NotBelow(DayShare(x, m))
    <3>1. DayShare(x, m)[1] \in Int
      BY <2>4, FractionParts DEF Above
    <3> QED BY <2>4, <3>1 DEF Above, NotBelow
  <2> QED BY <2>3, <2>4, <2>5
<1> HIDE DEF Q
<1>9. /\ DOMAIN part = Q /\ \A x \in Q : NotBelow(part[x])
      /\ Above(part[a])
  <2>1. \A x \in Q : NotBelow(Times(x["consumption"], DayShare(x, m)))
    BY <1>8, TimesNotBelow
  <2>2. Above(Times(a["consumption"], DayShare(a, m)))
    BY <1>7, <1>8, TimesIsAbove
  <2> QED BY <1>7, <2>1, <2>2
<1>10. Total(part) = Kwh(C, m)
  BY DEF Kwh, ExactSum, Q
<1>11. IsFiniteSet(Q)
  BY <1>2 DEF ShowsMonth, Q
<1> HIDE DEF part
<1>12. Above(Kwh(C, m))
  BY <1>7, <1>9, <1>10, <1>11, TotalNotBelow
<1> DEFINE k == Kwh(C, m)
           o == Over(Cost(C, m), k)
<1>13. /\ Cost(C, m) \in Fractions
       /\ b.effective = IF Q # {} /\ ~Leq(k, Zero) THEN Rounded(o, PriceScale) ELSE Null
  BY <1>2 DEF ShowsMonth, Q
<1>14. k \in Fractions /\ k[1] \in Int /\ k[2] \in Nat \ {0} /\ k[1] > 0
  BY <1>12, FractionParts DEF Above
<1> HIDE DEF k
<1>15. ~Leq(k, Zero)
  BY <1>14, ZeroIsFraction DEF Leq
<1>16. o \in Fractions
  BY <1>13, <1>14, OverIsFraction
<1> HIDE DEF o
<1>17. Rounded(o, PriceScale) \in Fractions
  BY <1>16, RoundedIsNear, CalendarAssumption
<1> QED BY <1>7, <1>13, <1>15, <1>17 DEF b

\* An average of known figures, none below zero and one of them above, is
\* above zero.
LEMMA AverageIsAbove ==
  ASSUME NEW n \in Nat, NEW list, IsList(list, n), NEW field,
         \A i \in 1 .. n : list[i][field] = Null \/ NotBelow(list[i][field]),
         NEW j \in 1 .. n, list[j][field] # Null, Above(list[j][field])
  PROVE  LET window == Known(list, field)
         IN  /\ window # <<>>
             /\ Above(Over(TotalOf(window, field), Whole(Len(window))))
<1> DEFINE S == {i \in DOMAIN list : list[i][field] # Null}
           K == Known(list, field)
<1>1. DOMAIN list = 1 .. n
  BY DEF IsList
<1>2. S \subseteq 1 .. n /\ S \subseteq Int /\ IsFiniteSet(S) /\ j \in S
  <2>1. S \subseteq 1 .. n /\ S \subseteq Int /\ j \in S
    BY <1>1
  <2>2. IsFiniteSet(1 .. n)
    BY FS_Interval
  <2> QED BY <2>1, <2>2, FS_Subset
<1>3. PICK c \in Nat : /\ IsList(K, c)
                       /\ \A k \in 1 .. c : \E i \in 1 .. n :
                            K[k] = list[i] /\ list[i][field] # Null
                       /\ c = 0 <=> \A i \in 1 .. n : list[i][field] = Null
  BY KnownWorks
<1>4. K = Sublist(list, S)
  BY DEF Known
<1>5. DOMAIN K = 1 .. c
  BY <1>3 DEF IsList
<1> HIDE DEF K, S
<1>6. PICK k \in 1 .. c : K[k] = list[j]
  <2>1. ToSet(K) = {list[i] : i \in S}
    BY <1>2, <1>4, SublistMembers
  <2>2. list[j] \in ToSet(K)
    BY <1>2, <2>1
  <2> QED BY <1>5, <2>2 DEF ToSet
<1>7. \A i \in 1 .. c : K[i][field] # Null /\ NotBelow(K[i][field])
  BY <1>3
<1>8. TotalOf(K, field) = Total([i \in 1 .. c |-> K[i][field]])
  <2>1. IsList(K, c)
    BY <1>3
  <2>2. \A i \in 1 .. c : K[i][field] # Null
    BY <1>7
  <2> QED BY <2>1, <2>2, SumOfAll, ZenonT(30)
<1>9. Above(TotalOf(K, field))
  <2> DEFINE f == [i \in 1 .. c |-> K[i][field]]
  <2>1. DOMAIN f = 1 .. c /\ \A i \in 1 .. c : NotBelow(f[i])
    BY <1>7
  <2>2. Above(f[k])
    BY <1>6
  <2>3. IsFiniteSet(1 .. c)
    BY FS_Interval
  <2>4. TotalOf(K, field) = Total(f)
    BY <1>8
  <2> HIDE DEF f
  <2> QED BY <2>1, <2>2, <2>3, <2>4, TotalNotBelow
<1>10. Len(K) = c /\ c > 0 /\ K # <<>>
  BY <1>3, <1>5, <1>6 DEF IsList
<1>11. Above(Whole(c)) /\ NotBelow(TotalOf(K, field))
  <2>1. Whole(c) \in Fractions /\ Whole(c)[1] > 0
    BY <1>10, WholeIsFraction
  <2>2. TotalOf(K, field)[1] \in Int
    BY <1>9, FractionParts DEF Above
  <2> QED BY <1>9, <2>1, <2>2 DEF Above, NotBelow
<1>12. Above(Over(TotalOf(K, field), Whole(c)))
  BY <1>9, <1>11, OverNotBelow
<1> QED BY <1>10, <1>12 DEF K

\* The average of the months before an entry is above zero when one of them,
\* less than a year earlier, has a price above zero and none a price below.
LEMMA YearBeforeAverages ==
  ASSUME NEW c \in Nat, NEW list, IsList(list, c), Follow(list, c), OfCalendar(list, c),
         \A i \in 1 .. c : list[i]["effective"] = Null \/ NotBelow(list[i]["effective"]),
         NEW i \in 1 .. c, NEW j \in 1 .. c,
         list[j].period < list[i].period,
         list[j].period >= list[i].period - MonthsPerYear,
         list[j]["effective"] # Null, Above(list[j]["effective"])
  PROVE  LET window == Known(SubSeq(list, Max({1, i - MonthsPerYear}), i - 1), "effective")
         IN  /\ window # <<>>
             /\ Above(Over(TotalOf(window, "effective"), Whole(Len(window))))
<1> DEFINE n == MonthsPerYear
           a == Max({1, i - n})
           k == i - a
           W == SubSeq(list, a, i - 1)
<1>1. n \in Nat
  BY CalendarAssumption
<1>2. \A x \in 1 .. c : list[x].period \in Int
  BY CalendarFacts DEF OfCalendar
<1>3. j < i
  <2>1. CASE i <= j
    <3>1. j - i <= list[j].period - list[i].period
      BY <2>1, EntriesApart
    <3> QED BY <1>2, <2>1, <3>1
  <2> QED BY <2>1
<1>4. i - j <= n
  <2>1. j <= i
    BY <1>3
  <2>2. i - j <= list[i].period - list[j].period
    BY <2>1, EntriesApart
  <2>3. list[i].period \in Int /\ list[j].period \in Int
    BY <1>2
  <2> QED BY <1>1, <2>2, <2>3
<1>5. a = IF 1 >= i - n THEN 1 ELSE i - n
  <2>1. 1 \in Int /\ i - n \in Int
    BY <1>1
  <2> HIDE DEF n
  <2> QED BY <2>1, MaxOfTwo
<1> HIDE DEF a, n
<1>6. a \in Int /\ a >= 1 /\ a <= j /\ k \in Nat /\ j - a + 1 \in 1 .. k
  BY <1>1, <1>3, <1>4, <1>5
<1>7. W = [x \in 1 .. k |-> list[a + x - 1]]
  <2>1. \A x \in Int, y \in Int : SubSeq(list, x, y) = [z \in 1 .. y - x + 1 |-> list[x + z - 1]]
    OBVIOUS
  <2>2. (i - 1) - a + 1 = k
    BY <1>6
  <2> QED BY <1>6, <2>1, <2>2
<1>8. \A x \in 1 .. k : a + x - 1 \in 1 .. c /\ W[x] = list[a + x - 1]
  BY <1>6, <1>7
<1>9. IsList(W, k)
  BY <1>7 DEF IsList
<1>10. \A x \in 1 .. k : W[x]["effective"] = Null \/ NotBelow(W[x]["effective"])
  BY <1>8
<1> DEFINE l == j - a + 1
<1>11. l \in 1 .. k /\ a + l - 1 = j
  BY <1>6
<1>12. W[l]["effective"] # Null /\ Above(W[l]["effective"])
  BY <1>8, <1>11
<1> HIDE DEF W, k, l
<1>13. LET window == Known(W, "effective")
       IN  window # <<>> /\ Above(Over(TotalOf(window, "effective"), Whole(Len(window))))
  BY <1>6, <1>9, <1>10, <1>11, <1>12, AverageIsAbove
<1> QED BY <1>13 DEF W, a, n

\* What is above zero is not zero.
LEMMA AboveIsNotZero ==
  ASSUME NEW p, Above(p)
  PROVE  p # Zero
BY ZeroIsFraction DEF Above

\* Where a month is in a list.
PlaceOf(list, m) == CHOOSE j \in DOMAIN list : list[j].period = m

\* A month that is listed has a place.
LEMMA MonthIsAt ==
  ASSUME NEW n \in Nat, NEW list, IsList(list, n), Follow(list, n), OfCalendar(list, n),
         NEW m, HasMonth(list, m)
  PROVE  PlaceOf(list, m) \in 1 .. n /\ list[PlaceOf(list, m)].period = m
BY DEF HasMonth, IsList, PlaceOf

\* A month of the year before m that has a price.
PricedBefore(b, m) ==
  /\ b.period < m
  /\ b.period >= m - MonthsPerYear
  /\ Positive(b.effective)

\* A bill that has a price and, in the year before, a month with one, is
\* compared with the average.
LEMMA StartOfRecord ==
  ASSUME DataInv, ~\E b \in Bills : IsCredit(b),
         NEW screen \in BillScreens, Reading(screen) = "start of the record"
  PROVE  ~\E b \in ToSet(buckets) : PricedBefore(b, screen.period)
<1> SUFFICES ASSUME NEW row \in ToSet(buckets), PricedBefore(row, screen.period)
             PROVE  FALSE
  OBVIOUS
<1>1. PICK p \in DOMAIN parsed : screen = BillScreen(parsed[p])
  BY DEF BillScreens
<1> DEFINE m == PeriodOf(parsed[p])
           cell == BillComparisons(buckets, m)["twelveMonthAverage"]
<1>2. /\ screen.period = m /\ screen.cells = BillComparisons(buckets, m)
      /\ screen.effective = EffectivePrice(parsed[p])
  BY <1>1 DEF BillScreen
<1>3. EffectivePrice(parsed[p]) # Null /\ cell.delta.pct = Null
  BY <1>2 DEF Reading
<1>4. HasMonth(buckets, m)
  BY PeriodIsMonth
<1> HIDE DEF m
<1>5. PICK c \in Nat : IsList(buckets, c) /\ Follow(buckets, c) /\ OfCalendar(buckets, c)
  BY BucketsList
<1>6. DOMAIN buckets = 1 .. c
  BY <1>5 DEF IsList
<1> DEFINE i == PlaceOf(buckets, m)
<1>7. i \in 1 .. c /\ buckets[i].period = m
  BY <1>4, <1>5, MonthIsAt
<1>8. (CHOOSE x \in DOMAIN buckets : buckets[x].period = m) = i
  BY DEF PlaceOf
<1> HIDE DEF i
<1> DEFINE value   == buckets[i].effective
           window  == Known(SubSeq(buckets, Max({1, i - MonthsPerYear}), i - 1), "effective")
           average == Over(TotalOf(window, "effective"), Whole(Len(window)))
<1>9. value \in Fractions
  BY <1>3, <1>6, <1>7, PricedBillPrices DEF m
<1>10. PICK j \in 1 .. c : row = buckets[j]
  BY <1>6 DEF ToSet
<1>11. /\ buckets[j].period < buckets[i].period
       /\ buckets[j].period >= buckets[i].period - MonthsPerYear
  BY <1>2, <1>7, <1>10 DEF PricedBefore
<1>12. \A x \in 1 .. c : buckets[x]["effective"] = Null \/ NotBelow(buckets[x]["effective"])
  BY <1>6, PricesNotBelow
<1>13. buckets[j]["effective"] # Null /\ Above(buckets[j]["effective"])
  <2> DEFINE price == buckets[j].effective
  <2>1. Positive(price) /\ price # Null
    BY <1>10 DEF PricedBefore, Positive
  <2>2. price = Null \/ NotBelow(price)
    BY <1>12
  <2>3. price \in Fractions
    BY <2>1, <2>2 DEF NotBelow
  <2>4. price \in Amounts
    BY <2>3 DEF Amounts
  <2> HIDE DEF price
  <2>5. Above(price)
    BY <2>1, <2>4, PositiveIsAbove
  <2> QED BY <2>1, <2>5 DEF price
<1>14. window # <<>> /\ Above(average)
  BY <1>5, <1>7, <1>11, <1>12, <1>13, YearBeforeAverages
<1>15. cell = IF window = <<>> \/ value = Null THEN NoComparison
              ELSE [against      |-> Len(window),
                    againstValue |-> Rounded(average, PriceScale),
                    delta        |-> Delta(average, value)]
  BY <1>4, <1>8 DEF BillComparisons
<1>16. value # Null /\ average \in Fractions /\ average # Null /\ average # Zero
  <2>1. average \in Fractions
    BY <1>14 DEF Above
  <2>2. average # Zero
    <3>1. Above(average)
      BY <1>14
    <3> HIDE DEF average
    <3> QED BY <3>1, AboveIsNotZero
  <2> QED BY <1>9, <2>1, <2>2, AmountsAre
<1> HIDE DEF cell, value, window, average
<1>17. cell.delta.pct = PctChange(average, value)
  BY <1>14, <1>15, <1>16 DEF Delta
<1>18. PctChange(average, value) \in Fractions
  BY <1>9, <1>16, ChangeTellsSign
<1> QED BY <1>3, <1>17, <1>18, AmountsAre

\* What the headline and the reading of a bill tell, in every state.
LEMMA InvFinding == Inv => FindingIsTrue
<1> SUFFICES ASSUME Inv PROVE FindingIsTrue
  OBVIOUS
<1>1. DataInv
  BY DEF Inv
<1> DEFINE now    == YearFrom(Last(buckets).period - MonthsPerYear + 1)
           before == YearFrom(Last(buckets).period - 2 * MonthsPerYear + 1)
<1>2. Gapless /\ Len(buckets) >= 2 * MonthsPerYear /\ AllMetered(Bills) =>
        FindingHolds(Finding,
          OnDays(Bills, now, "total_amount"), OnDays(Bills, before, "total_amount"),
          OnDays(Bills, now, "consumption"), OnDays(Bills, before, "consumption"))
  BY <1>1, FindingTold
<1>3. ASSUME ~\E b \in Bills : IsCredit(b), NEW screen \in BillScreens,
             Reading(screen) = "start of the record"
      PROVE  ~\E b \in ToSet(buckets) : /\ b.period < screen.period
                                        /\ b.period >= screen.period - MonthsPerYear
                                        /\ Positive(b.effective)
  <2>1. ~\E b \in ToSet(buckets) : PricedBefore(b, screen.period)
    BY <1>1, <1>3, StartOfRecord
  <2> QED BY <2>1 DEF PricedBefore
<1> HIDE DEF now, before
<1> QED BY <1>2, <1>3 DEF FindingIsTrue, now, before

\* The headline of the dashboard and the reading of a bill's page are what the
\* days of the bills say (metrics.ts finding and trailingComparison,
\* BillDetailPage): the sign of a change survives the rounding of the months
\* and of the year, and a month with a price in the year before is found.
THEOREM FindingsAreTrue == Spec => []FindingIsTrue
BY Invariant, InvFinding, PTL

(***************************************************************************)
(* Library figures: months without gaps                                    *)
(***************************************************************************)
\* Numbers that are counted upwards are in order.
LEMMA InOrderIs ==
  ASSUME NEW c \in Nat, NEW h, h = [k \in 1 .. c |-> h[k]], NEW S,
         S = {h[k] : k \in 1 .. c}, S \subseteq Int,
         \A k, l \in 1 .. c : k < l => h[k] < h[l]
  PROVE  IsFiniteSet(S) /\ Cardinality(S) = c /\ InOrder(S) = h
<1>1. ASSUME NEW n \in 0 .. c
      PROVE  LET T == {h[k] : k \in 1 .. n} IN IsFiniteSet(T) /\ Cardinality(T) = n
  <2> DEFINE T == {h[k] : k \in 1 .. n}
             g == [k \in 1 .. n |-> h[k]]
  <2>1. ASSUME NEW k \in 1 .. n, NEW l \in 1 .. n, h[k] = h[l] PROVE k = l
    <3>1. k \in 1 .. c /\ l \in 1 .. c /\ h[k] \in Int /\ h[l] \in Int
      OBVIOUS
    <3>2. ~(k < l) /\ ~(l < k)
      BY <2>1, <3>1
    <3> QED BY <3>1, <3>2
  <2>2. g \in Bijection(1 .. n, T)
    BY <2>1 DEF Bijection, Injection, Surjection, IsInjective
  <2>3. ExistsBijection(1 .. n, T)
    BY <2>2 DEF ExistsBijection
  <2>4. IsFiniteSet(1 .. n) /\ Cardinality(1 .. n) = n
    <3>1. n \in Nat
      OBVIOUS
    <3> HIDE DEF T, g
    <3> QED BY <3>1, FS_Interval
  <2> HIDE DEF T
  <2>5. IsFiniteSet(T) /\ Cardinality(T) = n
    BY <2>3, <2>4, FS_Bijection
  <2> QED BY <2>5 DEF T
<1>2. IsFiniteSet(S) /\ Cardinality(S) = c
  BY <1>1
<1>3. ASSUME NEW k \in 1 .. c PROVE Cardinality({j \in S : j <= h[k]}) = k
  <2>1. ASSUME NEW i \in 1 .. c PROVE h[i] <= h[k] <=> i <= k
    <3>1. h[i] \in Int /\ h[k] \in Int
      OBVIOUS
    <3>2. (i < k => h[i] < h[k]) /\ (k < i => h[k] < h[i]) /\ (i = k => h[i] = h[k])
      OBVIOUS
    <3> QED BY <3>1, <3>2
  <2>2. {j \in S : j <= h[k]} = {h[i] : i \in 1 .. k}
    BY <2>1
  <2>3. k \in 0 .. c
    OBVIOUS
  <2> QED BY <1>1, <2>2, <2>3
<1>4. ASSUME NEW k \in 1 .. c
      PROVE  (CHOOSE n \in S : Cardinality({j \in S : j <= n}) = k) = h[k]
  <2>1. h[k] \in S
    OBVIOUS
  <2>2. ASSUME NEW n \in S, Cardinality({j \in S : j <= n}) = k PROVE n = h[k]
    <3>1. PICK l \in 1 .. c : n = h[l]
      OBVIOUS
    <3> QED BY <1>3, <2>2, <3>1
  <2> QED BY <1>3, <2>1, <2>2
<1>5. InOrder(S) = [k \in 1 .. c |-> h[k]]
  BY <1>2, <1>4 DEF InOrder
<1> QED BY <1>2, <1>5

\* fillMonths makes up nulls only, and a contiguous axis.
LEMMA GapsAreFilled ==
  ASSUME DataInv, buckets # <<>>
  PROVE  FillsTheGaps(FillMonths(buckets))
<1> DEFINE fill  == FillMonths(buckets)
           first == buckets[1].period
           last  == Last(buckets).period
           size  == last - first + 1
           S     == {i \in DOMAIN fill : fill[i] # Null}
<1>1. PICK c \in Nat : IsList(buckets, c) /\ Follow(buckets, c) /\ OfCalendar(buckets, c)
  BY BucketsList
<1>2. DOMAIN buckets = 1 .. c /\ Len(buckets) = c
  BY <1>1 DEF IsList
<1>3. c # 0
  <2>1. c = 0 => buckets = <<>>
    BY <1>1 DEF IsList
  <2> QED BY <2>1
<1>4. 1 \in 1 .. c /\ c \in 1 .. c /\ last = buckets[c].period
  BY <1>2, <1>3 DEF Last
<1>5. \A k \in 1 .. c : buckets[k].period \in Int
  BY <1>1, CalendarFacts DEF OfCalendar
<1> HIDE DEF last
<1>6. ASSUME NEW k \in 1 .. c PROVE first <= buckets[k].period /\ buckets[k].period <= last
  <2>1. 1 < k => first < buckets[k].period
    BY <1>1, <1>4 DEF Follow
  <2>2. k < c => buckets[k].period < buckets[c].period
    BY <1>1, <1>4 DEF Follow
  <2>3. (k = 1 \/ 1 < k) /\ (k = c \/ k < c)
    OBVIOUS
  <2> QED BY <1>4, <1>5, <2>1, <2>2, <2>3
<1> DEFINE h == [k \in 1 .. c |-> buckets[k].period - first + 1]
<1>7. first \in Int /\ last \in Int /\ first <= last
  BY <1>4, <1>5, <1>6
<1>8. fill = [i \in 1 .. size |-> IF HasMonth(buckets, first + i - 1)
                                  THEN FindMonth(buckets, first + i - 1) ELSE Null]
  BY DEF FillMonths, last
<1> HIDE DEF first
<1>9. size \in Nat \ {0}
  BY <1>7
<1> HIDE DEF size, fill
<1>10. DOMAIN fill = 1 .. size /\ Len(fill) = size
  BY <1>8, <1>9
<1>11. ASSUME NEW k \in 1 .. c PROVE h[k] \in 1 .. size /\ fill[h[k]] = buckets[k] /\ fill[h[k]] # Null
  <2>1. h[k] \in 1 .. size /\ first + h[k] - 1 = buckets[k].period
    BY <1>5, <1>6, <1>7 DEF size
  <2>2. HasMonth(buckets, buckets[k].period) /\ FindMonth(buckets, buckets[k].period) = buckets[k]
    BY <1>1, MonthIsFound
  <2> HIDE DEF h
  <2>3. fill[h[k]] = buckets[k]
    BY <1>8, <2>1, <2>2
  <2> QED BY <1>2, <2>1, <2>3, MonthIsNotNull
<1>12. ASSUME NEW i \in 1 .. size, fill[i] # Null PROVE \E k \in 1 .. c : h[k] = i
  <2>1. HasMonth(buckets, first + i - 1)
    BY <1>8, <1>12
  <2>2. PICK k \in 1 .. c : buckets[k].period = first + i - 1
    BY <1>2, <2>1 DEF HasMonth
  <2>3. h[k] = i
    BY <1>7, <1>9, <2>2
  <2> QED BY <2>3
<1>13. S = {h[k] : k \in 1 .. c}
  <2> HIDE DEF h
  <2> QED BY <1>10, <1>11, <1>12
<1>14. \A k, l \in 1 .. c : k < l => h[k] < h[l]
  <2>1. ASSUME NEW k \in 1 .. c, NEW l \in 1 .. c, k < l PROVE h[k] < h[l]
    <3>1. buckets[k].period < buckets[l].period
      BY <1>1, <2>1 DEF Follow
    <3> QED BY <1>5, <1>7, <3>1
  <2> QED BY <2>1
<1>15. h = [k \in 1 .. c |-> h[k]] /\ S \subseteq Int
  <2>1. S \subseteq 1 .. size /\ 1 .. size \subseteq Int
    BY <1>9, <1>10
  <2> QED BY <2>1
<1> HIDE DEF h, S
<1>16. Cardinality(S) = c /\ InOrder(S) = h
  BY <1>13, <1>14, <1>15, InOrderIs
<1>17. Sublist(fill, S) = [k \in 1 .. c |-> fill[h[k]]]
  BY <1>16 DEF Sublist
<1>18. Sublist(fill, S) = [k \in 1 .. c |-> buckets[k]]
  BY <1>11, <1>17
<1>19. Sublist(fill, S) = buckets
  BY <1>1, <1>18 DEF IsList
<1>20. Len(fill) = last - first + 1
  BY <1>10 DEF size
<1> QED BY <1>19, <1>20 DEF FillsTheGaps, S, fill, first, last

(***************************************************************************)
(* Library figures: what a cost is made of                                 *)
(***************************************************************************)
\* A sum of numbers is one.
LEMMA TotalOfNumbers ==
  ASSUME NEW n \in Nat, NEW list, IsList(list, n), NEW field,
         \A i \in 1 .. n : list[i][field] \in Amounts
  PROVE  TotalOf(list, field) \in Fractions
<1> DEFINE K == Known(list, field)
<1>1. PICK c \in Nat : /\ IsList(K, c)
                       /\ \A k \in 1 .. c : \E i \in 1 .. n :
                            K[k] = list[i] /\ list[i][field] # Null
  BY KnownWorks
<1> HIDE DEF K
<1> DEFINE values == Column(K, field)
<1>2. DOMAIN values = 1 .. c /\ \A k \in 1 .. c : values[k] = K[k][field]
  BY <1>1 DEF IsList, Column
<1>3. TotalOf(list, field) = Total(values)
  BY DEF TotalOf, K
<1> HIDE DEF values
<1>4. \A k \in 1 .. c : values[k] \in Fractions
  BY <1>1, <1>2, AmountsAre
<1>5. IsFiniteSet(1 .. c)
  BY FS_Interval
<1> QED BY <1>2, <1>3, <1>4, <1>5, TotalIsFraction

\* A part of a composition.
PartsKnown == {"energy", "fixed", "taxes"}
PartTold(items, f) ==
  IF items = <<>> \/ Known(items, f) # items THEN Null
  ELSE Rounded(TotalOf(items, f), MoneyScale)
TotalTold(items) == Rounded(TotalOf(items, "total"), MoneyScale)
PartsTold(items) ==
  Plus(PartTold(items, "energy"), Plus(PartTold(items, "fixed"), PartTold(items, "taxes")))

\* A composition in those terms.
LEMMA CompositionIs ==
  ASSUME NEW items
  PROVE  LET mix == Composition(items)
         IN  /\ mix.part.energy = PartTold(items, "energy")
             /\ mix.part.fixed = PartTold(items, "fixed")
             /\ mix.part.taxes = PartTold(items, "taxes")
             /\ mix.total = TotalTold(items)
             /\ mix.unexplained =
                  IF \A f \in PartsKnown : PartTold(items, f) # Null
                  THEN Rounded(Minus(TotalTold(items), PartsTold(items)), MoneyScale)
                  ELSE Null
<1> DEFINE mix  == Composition(items)
           part == [f \in PartsKnown |-> PartTold(items, f)]
<1>1. mix.part = part /\ mix.total = TotalTold(items)
  BY DEF Composition, PartTold, TotalTold, PartsKnown
<1>2. part.energy = PartTold(items, "energy") /\ part.fixed = PartTold(items, "fixed")
      /\ part.taxes = PartTold(items, "taxes")
  BY DEF PartsKnown
<1>3. mix.unexplained =
        IF ~(\A f \in DOMAIN part : part[f] # Null) THEN Null
        ELSE Rounded(Minus(TotalTold(items),
                           Plus(part.energy, Plus(part.fixed, part.taxes))), MoneyScale)
  BY DEF Composition, PartTold, TotalTold, PartsKnown
<1>4. \A f \in PartsKnown : part[f] = PartTold(items, f)
  OBVIOUS
<1>5. DOMAIN part = PartsKnown
  OBVIOUS
<1> HIDE DEF mix, part
<1>6. mix.unexplained =
        IF \A f \in PartsKnown : PartTold(items, f) # Null
        THEN Rounded(Minus(TotalTold(items), PartsTold(items)), MoneyScale)
        ELSE Null
  BY <1>2, <1>3, <1>4, <1>5 DEF PartsTold
<1> QED BY <1>1, <1>2, <1>6 DEF mix

\* The parts and the rest of a list of numbers are its total.
LEMMA CompositionAddsUp ==
  ASSUME NEW n \in Nat, NEW items, IsList(items, n),
         \A i \in 1 .. n : items[i].total \in Amounts /\ \A f \in PartsKnown : items[i][f] \in Amounts
  PROVE  AddsUp(Composition(items))
<1> DEFINE mix == Composition(items)
           T == TotalTold(items)
           P == PartsTold(items)
<1>1. SUFFICES ASSUME mix.unexplained # Null
               PROVE  Plus(mix.unexplained,
                           Plus(mix.part.energy, Plus(mix.part.fixed, mix.part.taxes))) = mix.total
  BY DEF AddsUp
<1>2. \A f \in PartsKnown : PartTold(items, f) # Null
  BY <1>1, CompositionIs
<1>3. mix.unexplained = Rounded(Minus(T, P), MoneyScale)
  BY <1>2, CompositionIs
<1>4. Plus(mix.part.energy, Plus(mix.part.fixed, mix.part.taxes)) = P /\ mix.total = T
  BY CompositionIs DEF PartsTold
<1>5. MoneyScale \in Nat \ {0}
  BY CalendarAssumption
<1>6. OnGrid(T, MoneyScale)
  BY <1>5, TotalOfNumbers, RoundedOnGrid DEF TotalTold
<1>7. ASSUME NEW f \in PartsKnown PROVE OnGrid(PartTold(items, f), MoneyScale)
  <2>1. TotalOf(items, f) \in Fractions
    BY TotalOfNumbers
  <2>2. PartTold(items, f) = Rounded(TotalOf(items, f), MoneyScale)
    BY <1>2 DEF PartTold
  <2> QED BY <1>5, <2>1, <2>2, RoundedOnGrid
<1>8. OnGrid(P, MoneyScale)
  <2>1. /\ OnGrid(PartTold(items, "energy"), MoneyScale)
        /\ OnGrid(PartTold(items, "fixed"), MoneyScale)
        /\ OnGrid(PartTold(items, "taxes"), MoneyScale)
    BY <1>7 DEF PartsKnown
  <2> QED BY <1>5, <2>1, PlusOnGrid DEF PartsTold
<1> HIDE DEF mix, T, P
<1>9. Rounded(Minus(T, P), MoneyScale) = Minus(T, P)
  BY <1>5, <1>6, <1>8, MinusOnGrid, RoundedStays
<1>10. T \in Fractions /\ P \in Fractions
  BY <1>6, <1>8 DEF OnGrid
<1> QED BY <1>3, <1>4, <1>9, <1>10, PlusOfMinus

\* A bill as an item of a composition.
ItemOf(b) == [energy |-> EnergyCharge(b), fixed |-> b.fixedCharges, taxes |-> b.taxes,
              total |-> b.total]

\* What one item sums up to.
LEMMA TotalOfItem ==
  ASSUME NEW item, NEW f, item[f] \in Fractions
  PROVE  Known(<<item>>, f) = <<item>> /\ TotalOf(<<item>>, f) = item[f]
<1> DEFINE list == <<item>>
           n == 1
           values == [i \in 1 .. n |-> list[i][f]]
<1>1. IsList(list, n) /\ list[1] = item /\ n \in Nat
  BY DEF IsList
<1>2. \A i \in 1 .. n : list[i][f] # Null
  BY <1>1, AmountsAre
<1>4. DOMAIN values = {1} /\ values[1] = item[f]
  BY <1>1
<1> HIDE DEF list, n
<1>3. Known(list, f) = list /\ TotalOf(list, f) = Total(values)
  BY <1>1, <1>2, SumOfAll
<1> HIDE DEF values
<1>5. Total(values) = values[1]
  BY <1>4, TotalOfOne
<1> QED BY <1>3, <1>4, <1>5 DEF list

\* The sum of three, from the left or from the right.
LEMMA RestOfThree ==
  ASSUME NEW t \in Fractions, NEW e \in Fractions, NEW f \in Fractions, NEW x \in Fractions,
         NEW r \in Fractions
  PROVE  /\ Minus(t, Plus(Plus(e, f), x)) = Minus(Minus(t, Plus(f, x)), e)
         /\ Minus(t, Plus(r, Plus(f, x))) = Minus(Minus(t, Plus(f, x)), r)
<1>1. PICK d \in Nat \ {0}, i \in Int, j \in Int, k \in Int, l \in Int, m \in Int, n \in Int :
        SixAt(t, e, f, x, r, r, d, i, j, k, l, m, n)
  BY SixExist
<1>2. At(t, d, i) /\ At(e, d, j) /\ At(f, d, k) /\ At(x, d, l) /\ At(r, d, m)
  BY <1>1 DEF SixAt
<1>3. At(Plus(f, x), d, k + l) /\ At(Plus(e, f), d, j + k)
  BY <1>2, AtPlus
<1>4. /\ At(Plus(Plus(e, f), x), d, (j + k) + l)
      /\ At(Plus(r, Plus(f, x)), d, m + (k + l))
      /\ At(Minus(t, Plus(f, x)), d, i - (k + l))
  BY <1>2, <1>3, AtPlus
<1>5. /\ At(Minus(t, Plus(Plus(e, f), x)), d, i - ((j + k) + l))
      /\ At(Minus(t, Plus(r, Plus(f, x))), d, i - (m + (k + l)))
      /\ At(Minus(Minus(t, Plus(f, x)), e), d, (i - (k + l)) - j)
      /\ At(Minus(Minus(t, Plus(f, x)), r), d, (i - (k + l)) - m)
  BY <1>2, <1>4, AtPlus
<1>6. i - ((j + k) + l) = (i - (k + l)) - j /\ i - (m + (k + l)) = (i - (k + l)) - m
  OBVIOUS
<1> QED BY <1>5, <1>6, AtLeq

\* What is in cents is a number of them.
LEMMA CentsOnGrid ==
  ASSUME NEW p \in Fractions
  PROVE  InCents(p) <=> OnGrid(p, MoneyScale)
BY CalendarAssumption, RoundedOnGrid, RoundedStays DEF InCents

\* A bill leaves one rest, beside the subtotal of its page and in a composition.
LEMMA OneRest ==
  ASSUME NEW b, BillFigured(b)
  PROVE  RestOf(b, Breakdown(b), ItemOf(b))
<1> DEFINE item  == ItemOf(b)
           items == <<item>>
           e == EnergyCharge(b)
           f == b.fixedCharges
           x == b.taxes
           t == b.total
           s == MoneyScale
           mix == Composition(items)
           rest == Rounded(Minus(t, Plus(Breakdown(b).subtotal, x)), s)
           apart == Minus(rest, mix.unexplained)
<1>1. SUFFICES ASSUME Breakdown(b).split, InCents(t), InCents(f), InCents(x)
               PROVE  apart = Zero \/ (HalfACent(e) /\ AbsOf(apart) = Frac(1, s))
  <2>1. Breakdown(b).energy = e
    BY DEF Breakdown
  <2> QED BY <2>1 DEF RestOf
<1>2. e # Null /\ f # Null /\ x # Null
  BY <1>1 DEF Breakdown
<1>3. e \in Fractions /\ f \in Fractions /\ x \in Fractions /\ t \in Fractions /\ s \in Nat \ {0}
  BY <1>2, AmountsAre, CalendarAssumption DEF BillFigured
<1>4. Breakdown(b).subtotal = Plus(e, f)
  BY <1>2 DEF Breakdown
<1>5. item["energy"] = e /\ item["fixed"] = f /\ item["taxes"] = x /\ item["total"] = t
  BY DEF ItemOf
<1> HIDE DEF e, f, x, t, s, item
<1>6. /\ Rounded(f, s) = f /\ Rounded(x, s) = x /\ Rounded(t, s) = t
      /\ OnGrid(f, s) /\ OnGrid(x, s) /\ OnGrid(t, s)
  BY <1>1, <1>3, CentsOnGrid DEF InCents, s
<1> DEFINE r == Rounded(e, s)
           g == Minus(t, Plus(f, x))
<1>7. OnGrid(r, s) /\ r \in Fractions /\ r # Null
  <2>1. OnGrid(r, s)
    BY <1>3, RoundedOnGrid
  <2> QED BY <2>1, AmountsAre DEF OnGrid
<1> HIDE DEF r
<1>8. items # <<>>
  OBVIOUS
<1>9. ASSUME NEW n, item[n] \in Fractions
      PROVE  PartTold(items, n) = Rounded(item[n], s) /\ Rounded(TotalOf(items, n), s) = Rounded(item[n], s)
  BY <1>8, <1>9, TotalOfItem DEF PartTold, s
<1> HIDE DEF items
<1>10. /\ PartTold(items, "energy") = r /\ PartTold(items, "fixed") = f
       /\ PartTold(items, "taxes") = x /\ TotalTold(items) = t
  BY <1>3, <1>5, <1>6, <1>9 DEF TotalTold, r, s
<1>11. \A n \in PartsKnown : PartTold(items, n) # Null
  BY <1>2, <1>7, <1>10 DEF PartsKnown
<1>12. mix.unexplained = Rounded(Minus(t, Plus(r, Plus(f, x))), s)
  <2>1. mix.unexplained = Rounded(Minus(TotalTold(items), PartsTold(items)), MoneyScale)
    BY <1>11, CompositionIs
  <2>2. PartsTold(items) = Plus(r, Plus(f, x))
    BY <1>10 DEF PartsTold
  <2> QED BY <1>10, <2>1, <2>2 DEF s
<1> HIDE DEF mix
<1>13. OnGrid(g, s)
  BY <1>3, <1>6, PlusOnGrid, MinusOnGrid
<1>14. /\ Minus(t, Plus(Plus(e, f), x)) = Minus(g, e)
       /\ Minus(t, Plus(r, Plus(f, x))) = Minus(g, r)
  BY <1>3, <1>7, RestOfThree
<1>15. rest = Rounded(Minus(g, e), s)
  BY <1>4, <1>14
<1>16. mix.unexplained = Minus(g, r)
  <2>1. Rounded(Minus(g, r), s) = Minus(g, r)
    BY <1>3, <1>7, <1>13, MinusOnGrid, RoundedStays
  <2> QED BY <1>12, <1>14, <2>1
<1> HIDE DEF rest, g
<1>17. apart = RoundedApart(g, e, s)
  BY <1>15, <1>16 DEF RoundedApart, r
<1> HIDE DEF apart
<1>18. \/ apart = Zero
       \/ Rounded(e, s) # e /\ OnGrid(Times(Whole(2), e), s) /\ AbsOf(apart) = Frac(1, s)
  BY <1>3, <1>13, <1>17, RestsAreNear
<1>19. Rounded(e, s) # e /\ OnGrid(Times(Whole(2), e), s) => HalfACent(e)
  <2>1. Whole(2) \in Fractions
    BY WholeIsFraction
  <2>2. Times(Whole(2), e) \in Fractions
    BY <1>3, <2>1, TimesIsFraction
  <2> QED BY <2>2, CentsOnGrid DEF HalfACent, InCents, s
<1> QED BY <1>18, <1>19 DEF apart

(***************************************************************************)
(* Library figures: an index                                               *)
(***************************************************************************)
\* The places an index may start from.
Bases(values) == {i \in DOMAIN values : values[i] \notin {Null, Zero}}

\* It starts from the first of them.
LEMMA FirstBase ==
  ASSUME NEW n \in Nat, NEW values, DOMAIN values = 1 .. n, Bases(values) # {}
  PROVE  /\ Min(Bases(values)) \in 1 .. n
         /\ values[Min(Bases(values))] \notin {Null, Zero}
         /\ 1 \in Bases(values) => Min(Bases(values)) = 1
<1> DEFINE B == Bases(values)
<1>1. B \subseteq 1 .. n /\ \A i \in B : values[i] \notin {Null, Zero}
  BY DEF Bases
<1>2. B # {}
  OBVIOUS
<1> HIDE DEF B
<1>3. B \subseteq Nat /\ B \subseteq Int
  BY <1>1
<1>4. PICK x \in B : \A y \in B : x <= y
  BY <1>2, <1>3, LeastNat
<1>5. Min(B) = x
  BY <1>3, <1>4, EndsOfNumbers
<1>6. 1 \in B => x = 1
  <2>1. x \in 1 .. n /\ (1 \in B => x <= 1)
    BY <1>1, <1>4
  <2> QED BY <2>1
<1> QED BY <1>1, <1>4, <1>5, <1>6 DEF B

\* The entries of an index.
LEMMA IndexWorks ==
  ASSUME NEW n \in Nat, NEW values, DOMAIN values = 1 .. n
  PROVE  /\ DOMAIN IndexToFirst(values) = 1 .. n
         /\ IndexToFirst(values) =
              [i \in 1 .. n |->
                 IF Bases(values) = {} \/ values[i] = Null THEN Null
                 ELSE Times(Over(values[i], values[Min(Bases(values))]), Whole(100))]
BY DEF IndexToFirst, Bases

\* An index of doubled values is the index.
LEMMA IndexOfDouble ==
  ASSUME NEW n \in Nat, NEW values, DOMAIN values = 1 .. n,
         \A i \in 1 .. n : values[i] \in Fractions
  PROVE  IndexToFirst(values) =
           IndexToFirst([i \in DOMAIN values |-> Times(Whole(2), values[i])])
<1> DEFINE double == [i \in DOMAIN values |-> Times(Whole(2), values[i])]
           B == Bases(values)
<1>1. Whole(2) \in Fractions /\ Whole(2)[1] = 2
  BY WholeIsFraction
<1>2. ASSUME NEW i \in 1 .. n
      PROVE  /\ double[i] = Times(Whole(2), values[i]) /\ double[i] \in Fractions
             /\ double[i] = Zero <=> values[i] = Zero
             /\ double[i] # Null /\ values[i] # Null
  <2> DEFINE v == values[i]
             w == Times(Whole(2), v)
  <2>1. v \in Fractions /\ w \in Fractions /\ w[1] * (Whole(2)[2] * v[2]) = (Whole(2)[1] * v[1]) * w[2]
    BY <1>1, TimesIsFraction
  <2>2. /\ Whole(2)[2] = 1 /\ v[1] \in Int /\ v[2] \in Nat \ {0} /\ w[1] \in Int /\ w[2] \in Nat \ {0}
    BY <2>1, WholeIsFraction, FractionParts
  <2>3. double[i] = w
    OBVIOUS
  <2> HIDE DEF v, w
  <2>4. w[1] * v[2] = (2 * v[1]) * w[2]
    BY <1>1, <2>1, <2>2
  <2> DEFINE a == v[1]  b == v[2]  c == w[1]  d == w[2]
  <2>5. /\ a \in Int /\ b \in Nat \ {0} /\ c \in Int /\ d \in Nat \ {0}
        /\ c * b = (2 * a) * d
    BY <2>2, <2>4
  <2> HIDE DEF a, b, c, d
  <2>6. c = 0 <=> a = 0
    <3>1. c = 0 => a = 0
      <4>1. c = 0 => (2 * a) * d = 0
        BY <2>5
      <4>2. a # 0 => (2 * a) * d # 0
        BY <2>5, NonzeroProduct
      <4> QED BY <4>1, <4>2
    <3>2. a = 0 => c = 0
      <4>1. a = 0 => c * b = 0
        BY <2>5
      <4>2. c # 0 => c * b # 0
        BY <2>5, NonzeroProduct
      <4> QED BY <4>1, <4>2
    <3> QED BY <3>1, <3>2
  <2>7. (w = Zero <=> c = 0) /\ (v = Zero <=> a = 0)
    BY <2>1, ZeroNumerator DEF a, c
  <2>8. w # Null /\ v # Null
    BY <2>1, AmountsAre
  <2> QED BY <2>1, <2>3, <2>6, <2>7, <2>8 DEF v, w
<1>3. DOMAIN double = 1 .. n
  OBVIOUS
<1> HIDE DEF double
<1>4. Bases(double) = B
  BY <1>2, <1>3 DEF Bases
<1>5. ASSUME B # {}, NEW i \in 1 .. n
      PROVE  Over(double[i], double[Min(B)]) = Over(values[i], values[Min(B)])
  <2> DEFINE j == Min(B)
  <2>1. j \in 1 .. n /\ values[j] \notin {Null, Zero}
    BY <1>5, FirstBase
  <2> HIDE DEF j
  <2>2. values[j] \in Fractions /\ values[j][1] # 0 /\ values[i] \in Fractions
    BY <2>1, ZeroNumerator
  <2>3. double[i] = Times(Whole(2), values[i]) /\ double[j] = Times(Whole(2), values[j])
    BY <1>2, <2>1
  <2>4. Whole(2)[1] # 0
    BY <1>1
  <2>5. Over(double[i], double[j]) = Over(values[i], values[j])
    BY <1>1, <2>2, <2>3, <2>4, OverScales
  <2> QED BY <2>5 DEF j
<1> HIDE DEF B
<1>6. /\ IndexToFirst(values) =
           [i \in 1 .. n |-> IF B = {} \/ values[i] = Null THEN Null
                             ELSE Times(Over(values[i], values[Min(B)]), Whole(100))]
      /\ IndexToFirst(double) =
           [i \in 1 .. n |-> IF B = {} \/ double[i] = Null THEN Null
                             ELSE Times(Over(double[i], double[Min(B)]), Whole(100))]
  BY <1>3, <1>4, IndexWorks DEF B
<1>7. ASSUME NEW i \in 1 .. n
      PROVE  (IF B = {} \/ values[i] = Null THEN Null
              ELSE Times(Over(values[i], values[Min(B)]), Whole(100))) =
             (IF B = {} \/ double[i] = Null THEN Null
              ELSE Times(Over(double[i], double[Min(B)]), Whole(100)))
  BY <1>2, <1>5
<1>8. IndexToFirst(values) = IndexToFirst(double)
  BY <1>6, <1>7
<1> QED BY <1>8 DEF double

\* An index from the first price ends where the change since then says.
LEMMA IndexEnds ==
  ASSUME DataInv, buckets # <<>>, AllInSince # Null, Positive(buckets[1].effective)
  PROVE  Last(IndexToFirst(Column(buckets, "effective"))) = Plus(Whole(100), AllInSince)
<1> DEFINE values == Column(buckets, "effective")
           index == IndexToFirst(values)
           p == buckets[1].effective
           q == Last(buckets).effective
<1>1. PICK c \in Nat : IsList(buckets, c)
  BY BucketsList
<1>2. DOMAIN buckets = 1 .. c /\ Len(buckets) = c
  BY <1>1 DEF IsList
<1>3. c # 0
  <2>1. c = 0 => buckets = <<>>
    BY <1>1 DEF IsList
  <2> QED BY <2>1
<1>4. q = buckets[c].effective /\ 1 \in 1 .. c /\ c \in 1 .. c
  BY <1>2, <1>3 DEF Last
<1>5. DOMAIN values = 1 .. c /\ values[1] = p /\ values[c] = q
  BY <1>2, <1>4 DEF Column
<1>6. AllInSince = Delta(p, q).pct
  BY DEF AllInSince
<1>7. p # Null /\ q # Null
  BY <1>6 DEF Delta, NoDelta
<1>8. p \in Amounts /\ q \in Amounts
  <2>1. PICK k \in Nat : IsFiguredList(buckets, k)
    BY BucketsFigured
  <2>2. \A i \in DOMAIN buckets : IsFigured(buckets[i])
    BY <2>1 DEF IsFiguredList, IsList
  <2> QED BY <1>2, <1>4, <2>2 DEF IsFigured, Figures
<1>9. Above(p) /\ p \in Fractions /\ q \in Fractions
  BY <1>7, <1>8, PositiveIsAbove, AmountsAre
<1>10. p # Zero
  BY <1>9, AboveIsNotZero
<1> HIDE DEF values, p, q
<1>11. AllInSince = Times(Over(Minus(q, p), AbsOf(p)), Whole(100))
  BY <1>6, <1>7, <1>10 DEF Delta, PctChange
<1>12. Min(Bases(values)) = 1 /\ Bases(values) # {}
  <2>1. 1 \in Bases(values)
    BY <1>4, <1>5, <1>7, <1>10 DEF Bases
  <2> QED BY <1>5, <2>1, FirstBase
<1>13. DOMAIN index = 1 .. c /\ index[c] = Times(Over(q, p), Whole(100))
  BY <1>4, <1>5, <1>7, <1>12, IndexWorks
<1>14. Last(index) = index[c]
  <2> HIDE DEF index
  <2>1. Len(index) = c
    <3>1. index = [i \in 1 .. c |-> index[i]]
      BY <1>5, IndexWorks DEF index
    <3> QED BY <3>1
  <2> QED BY <2>1 DEF Last
<1> HIDE DEF index
<1>15. Last(index) = Plus(Whole(100), AllInSince)
  BY <1>9, <1>11, <1>13, <1>14, ShareAndChange
<1> QED BY <1>15 DEF index, values

(***************************************************************************)
(* Library figures: the months ahead                                       *)
(***************************************************************************)
\* A month ahead can be told when its year-ago month has a reading.
ReadYearAgo(m) ==
  /\ HasMonth(buckets, m - MonthsPerYear)
  /\ FindMonth(buckets, m - MonthsPerYear).kwh # Null
Reached(p, count) == {n \in 1 .. count : \A j \in 1 .. n : ReadYearAgo(p + j)}
Drift(window) ==
  Over(Minus(Last(window).effective, Head(window).effective), Whole(Len(window) - 1))
MonthAhead(price, drift, p, i) ==
  [period |-> p + i,
   value  |-> Rounded(Times(Plus(price, Times(Whole(i), drift)),
                            FindMonth(buckets, (p + i) - MonthsPerYear).kwh), MoneyScale)]

\* A forecast in those terms.
LEMMA ForecastIs ==
  ASSUME NEW count \in Nat, ~(Len(Known(buckets, "effective")) < 2)
  PROVE  LET priced == Known(buckets, "effective")
             p == Last(priced).period
         IN  Forecast(buckets, count) =
               [i \in 1 .. Cardinality(Reached(p, count)) |->
                  MonthAhead(Last(priced).effective, Drift(Trailing(priced, 4)), p, i)]
<1> DEFINE priced == Known(buckets, "effective")
           window == Trailing(priced, 4)
           p      == Last(priced).period
           drift  == Over(Minus(Last(window).effective, Head(window).effective),
                          Whole(Len(window) - 1))
           last   == Last(priced).effective
           twin(i)    == FindMonth(buckets, (p + i) - MonthsPerYear)
           reaches(i) == \A j \in 1 .. i :
                           /\ HasMonth(buckets, (p + j) - MonthsPerYear)
                           /\ twin(j).kwh # Null
           ahead(i)   == [period |-> p + i,
                          value  |-> Rounded(Times(Plus(last, Times(Whole(i), drift)),
                                                   twin(i).kwh), MoneyScale)]
<1>1. Forecast(buckets, count) =
        [i \in 1 .. Cardinality({n \in 1 .. count : reaches(n)}) |-> ahead(i)]
  <2>1. Forecast(buckets, count) =
          IF Len(priced) < 2 THEN <<>>
          ELSE [i \in 1 .. Cardinality({n \in 1 .. count : reaches(n)}) |-> ahead(i)]
    BY Zenon DEF Forecast
  <2> HIDE DEF priced, ahead, reaches
  <2>2. ~(Len(priced) < 2)
    BY DEF priced
  <2> QED BY <2>1, <2>2
<1>2. drift = Drift(window)
  BY DEF Drift
<1>3. \A i : ahead(i) = MonthAhead(last, drift, p, i)
  BY DEF MonthAhead
<1> HIDE DEF ahead, drift, window, last, p
<1>4. \A n \in 1 .. count : reaches(n) <=> \A j \in 1 .. n : ReadYearAgo(p + j)
  BY DEF ReadYearAgo
<1> HIDE DEF reaches
<1>5. {n \in 1 .. count : reaches(n)} = Reached(p, count)
  BY <1>4 DEF Reached
<1>6. Forecast(buckets, count) =
        [i \in 1 .. Cardinality(Reached(p, count)) |-> MonthAhead(last, Drift(window), p, i)]
  BY <1>1, <1>2, <1>3, <1>5
<1> QED BY <1>6 DEF window, last, p

\* The months with a price.
LEMMA PricedMonths ==
  ASSUME DataInv
  PROVE  LET priced == Known(buckets, "effective")
         IN  \E n \in Nat :
               /\ IsList(priced, n) /\ DOMAIN priced = 1 .. n /\ Len(priced) = n
               /\ \A i \in 1 .. n : /\ priced[i].period \in Int
                                    /\ priced[i].effective \in Fractions
                                    /\ \E j \in DOMAIN buckets : priced[i] = buckets[j]
               /\ priced = <<>> <=> n = 0
<1> DEFINE priced == Known(buckets, "effective")
<1>1. PICK c \in Nat : IsList(buckets, c) /\ OfCalendar(buckets, c)
  BY BucketsList
<1>2. PICK n \in Nat : /\ IsList(priced, n)
                       /\ \A k \in 1 .. n : \E i \in 1 .. c :
                            priced[k] = buckets[i] /\ buckets[i]["effective"] # Null
  BY <1>1, KnownWorks
<1> HIDE DEF priced
<1>3. DOMAIN priced = 1 .. n /\ Len(priced) = n /\ (priced = <<>> <=> n = 0)
  BY <1>2 DEF IsList
<1>4. DOMAIN buckets = 1 .. c
  BY <1>1 DEF IsList
<1>5. \A i \in 1 .. c : buckets[i].effective \in Amounts
  <2>1. PICK k \in Nat : IsFiguredList(buckets, k)
    BY BucketsFigured
  <2>2. \A i \in DOMAIN buckets : IsFigured(buckets[i])
    BY <2>1 DEF IsFiguredList, IsList
  <2> QED BY <1>4, <2>2 DEF IsFigured, Figures
<1>6. ASSUME NEW i \in 1 .. n
      PROVE  /\ priced[i].period \in Int /\ priced[i].effective \in Fractions
             /\ \E j \in DOMAIN buckets : priced[i] = buckets[j]
  <2>1. PICK j \in 1 .. c : priced[i] = buckets[j] /\ buckets[j]["effective"] # Null
    BY <1>2
  <2>2. buckets[j].period \in Int
    BY <1>1, CalendarFacts DEF OfCalendar
  <2> QED BY <1>4, <1>5, <2>1, <2>2, AmountsAre
<1> QED BY <1>2, <1>3, <1>6 DEF priced

\* A month ahead takes an even step on.
TakesOn(recent, step) ==
  \A j \in 2 .. Len(recent) :
    Minus(recent[j].effective, recent[j - 1].effective) = step
AheadTold(ahead, last, step, i) ==
  ahead[i].value = Rounded(Times(Plus(last.effective, Times(Whole(i), step)),
                                 FindMonth(buckets, ahead[i].period - MonthsPerYear).kwh),
                           MoneyScale)

\* What it is to walk on, in those terms.
LEMMA WalksOnIs ==
  ASSUME NEW ahead, NEW priced, NEW count,
         Len(priced) >= 2 =>
           LET recent == Trailing(priced, 4)
               step   == Minus(recent[2].effective, recent[1].effective)
           IN  /\ Len(ahead) < count => ~ReadYearAgo(Last(priced).period + Len(ahead) + 1)
               /\ \A i \in DOMAIN ahead :
                    /\ ahead[i].period = Last(priced).period + i
                    /\ ReadYearAgo(ahead[i].period)
                    /\ TakesOn(recent, step) => AheadTold(ahead, Last(priced), step, i)
  PROVE  WalksOn(ahead, priced, count)
<1> DEFINE recent == Trailing(priced, 4)
           step   == Minus(recent[2].effective, recent[1].effective)
<1>1. SUFFICES ASSUME Len(priced) >= 2 
      PROVE  /\ Len(ahead) < count => ~ReadYearAgo(Last(priced).period + Len(ahead) + 1)
             /\ \A i \in DOMAIN ahead :
                  /\ ahead[i].period = Last(priced).period + i
                  /\ ReadYearAgo(ahead[i].period)
                  /\ TakesOn(recent, step) => AheadTold(ahead, Last(priced), step, i)
  BY Zenon DEF WalksOn, ReadYearAgo, TakesOn, AheadTold
<1> QED BY <1>1, Zenon

\* A forecast walks on.
LEMMA ForecastWalksOn ==
  ASSUME DataInv, NEW count \in Nat
  PROVE  WalksOn(Forecast(buckets, count), Known(buckets, "effective"), count)
<1> DEFINE priced == Known(buckets, "effective")
           ahead == Forecast(buckets, count)
           recent == Trailing(priced, 4)
           step == Minus(recent[2].effective, recent[1].effective)
           p == Last(priced).period
           R == Reached(p, count)
           L == Cardinality(R)
<1>1. PICK n \in Nat :
        /\ IsList(priced, n) /\ DOMAIN priced = 1 .. n /\ Len(priced) = n
        /\ \A i \in 1 .. n : priced[i].period \in Int /\ priced[i].effective \in Fractions
  BY PricedMonths
<1>2. SUFFICES ASSUME n >= 2
      PROVE  /\ Len(ahead) < count => ~ReadYearAgo(p + Len(ahead) + 1)
             /\ \A i \in DOMAIN ahead :
                  /\ ahead[i].period = p + i /\ ReadYearAgo(ahead[i].period)
                  /\ TakesOn(recent, step) => AheadTold(ahead, Last(priced), step, i)
  BY <1>1, WalksOnIs, Zenon
<1>3. ahead = [i \in 1 .. L |-> MonthAhead(Last(priced).effective, Drift(recent), p, i)]
  <2>1. ~(Len(priced) < 2)
    BY <1>1, <1>2
  <2> QED BY <2>1, ForecastIs
<1>4. Last(priced) = priced[n] /\ n \in 1 .. n
  BY <1>1, <1>2 DEF Last
<1>5. PICK k \in Nat : k >= 2 /\ k <= n /\ PartOfList(recent, priced, n - k, k)
  <2> HIDE DEF priced, recent
  <2>1. LET h == IF n <= 4 THEN n ELSE 4
        IN  PartOfList(Trailing(priced, 4), priced, n - h, h)
    BY <1>1, TrailingWorks
  <2>2. CASE n <= 4
    BY <1>2, <2>1, <2>2 DEF recent
  <2>3. CASE n > 4
    <3>1. PartOfList(Trailing(priced, 4), priced, n - 4, 4) /\ 4 \in Nat /\ 4 >= 2 /\ 4 <= n
      BY <2>1, <2>3
    <3> QED BY <3>1 DEF recent
  <2> QED BY <2>2, <2>3
<1>6. p \in Int
  BY <1>1, <1>4
<1> HIDE DEF ahead, recent, priced, p
<1>7. DOMAIN recent = 1 .. k /\ Len(recent) = k
      /\ \A j \in 1 .. k : recent[j] = priced[(n - k) + j]
  BY <1>5 DEF PartOfList
<1>8. \A j \in 1 .. k : recent[j].effective \in Fractions
  <2>1. ASSUME NEW j \in 1 .. k PROVE recent[j].effective \in Fractions
    <3>1. (n - k) + j \in 1 .. n
      BY <1>5
    <3> QED BY <1>1, <1>7, <3>1
  <2> QED BY <2>1
<1>9. Last(recent) = recent[k] /\ Head(recent) = recent[1]
  BY <1>5, <1>7 DEF Last
<1>10. ASSUME TakesOn(recent, step) PROVE Drift(recent) = step
  <2> DEFINE e == [j \in 1 .. k |-> recent[j].effective]
  <2>1. \A j \in 1 .. k : e[j] \in Fractions /\ e[j] = recent[j].effective
    BY <1>8
  <2>2. 1 \in 1 .. k /\ 2 \in 1 .. k /\ k \in 1 .. k
    BY <1>5
  <2>3. e[1] = recent[1].effective /\ e[2] = recent[2].effective /\ e[k] = recent[k].effective
    BY <2>1, <2>2
  <2> HIDE DEF e
  <2>4. ASSUME NEW j \in 2 .. k PROVE Minus(e[j], e[j - 1]) = Minus(e[2], e[1])
    <3>1. j \in 1 .. k /\ j - 1 \in 1 .. k
      BY <1>5
    <3>2. Minus(recent[j].effective, recent[j - 1].effective) = step
      BY <1>7, <1>10 DEF TakesOn
    <3> QED BY <2>1, <2>3, <3>1, <3>2
  <2>5. Over(Minus(e[k], e[1]), Whole(k - 1)) = Minus(e[2], e[1])
    BY <1>5, <2>1, <2>4, StepsAddUp
  <2> QED BY <1>7, <1>9, <2>3, <2>5 DEF Drift
<1>11. L \in 0 .. count /\ R = 1 .. L
  <2>1. R \subseteq 1 .. count
    BY DEF Reached
  <2>2. ASSUME NEW i \in R, NEW j \in 1 .. i PROVE j \in R
    <3>1. i \in 1 .. count /\ \A h \in 1 .. i : ReadYearAgo(p + h)
      BY <2>2 DEF Reached
    <3>2. j \in 1 .. count /\ \A h \in 1 .. j : h \in 1 .. i
      BY <2>2, <3>1
    <3> QED BY <3>1, <3>2 DEF Reached
  <2> HIDE DEF R
  <2> QED BY <2>1, <2>2, ReachedIsFirst
<1>12. ASSUME NEW i \in 1 .. L PROVE ReadYearAgo(p + i)
  <2>1. i \in R
    BY <1>11
  <2> QED BY <2>1 DEF Reached
<1>13. ASSUME L < count PROVE ~ReadYearAgo(p + L + 1)
  <2>1. SUFFICES ASSUME ReadYearAgo(p + L + 1) PROVE FALSE
    OBVIOUS
  <2> HIDE DEF L
  <2>2. L + 1 \in 1 .. count
    BY <1>11, <1>13
  <2>3. ASSUME NEW j \in 1 .. L + 1 PROVE ReadYearAgo(p + j)
    <3>1. CASE j = L + 1
      <4>1. p + j = p + L + 1
        BY <1>6, <1>11, <3>1
      <4> QED BY <2>1, <4>1
    <3>2. CASE j # L + 1
      <4>1. j \in 1 .. L
        BY <1>11, <3>2
      <4> QED BY <1>12, <4>1
    <3> QED BY <3>1, <3>2
  <2>4. L + 1 \in R
    BY <2>2, <2>3 DEF Reached
  <2> HIDE DEF R
  <2>5. ~(L + 1 \in 1 .. L)
    BY <1>11
  <2> QED BY <1>11, <2>4, <2>5
<1> HIDE DEF L
<1>14. DOMAIN ahead = 1 .. L /\ Len(ahead) = L
  BY <1>3, <1>11
<1>15. ASSUME NEW i \in 1 .. L
       PROVE  /\ ahead[i].period = p + i
              /\ TakesOn(recent, step) => AheadTold(ahead, Last(priced), step, i)
  <2>1. ahead[i] = MonthAhead(Last(priced).effective, Drift(recent), p, i)
    BY <1>3
  <2>2. ahead[i].period = p + i
    BY <2>1 DEF MonthAhead
  <2>3. ahead[i].value =
          Rounded(Times(Plus(Last(priced).effective, Times(Whole(i), Drift(recent))),
                        FindMonth(buckets, (p + i) - MonthsPerYear).kwh), MoneyScale)
    BY <2>1 DEF MonthAhead
  <2> HIDE DEF step
  <2>4. ahead[i].period - MonthsPerYear = (p + i) - MonthsPerYear
    BY <2>2
  <2> DEFINE twin == FindMonth(buckets, (p + i) - MonthsPerYear).kwh
             told(d) == Rounded(Times(Plus(Last(priced).effective, Times(Whole(i), d)), twin),
                                MoneyScale)
  <2>5. ahead[i].value = told(Drift(recent))
    BY <2>3
  <2>6. AheadTold(ahead, Last(priced), step, i) <=> ahead[i].value = told(step)
    BY <2>4 DEF AheadTold
  <2> HIDE DEF told, twin
  <2>7. TakesOn(recent, step) => AheadTold(ahead, Last(priced), step, i)
    BY <1>10, <2>5, <2>6
  <2> QED BY <2>2, <2>7
<1> QED BY <1>12, <1>13, <1>14, <1>15


(***************************************************************************)
(* A tariff that explains its bills                                        *)
(***************************************************************************)
\* The median of entries that are all one value is that value.
LEMMA MedianOfOne ==
  ASSUME NEW n \in Nat \ {0}, NEW values, IsList(values, n), NEW v \in Fractions,
         \A i \in 1 .. n : values[i] = v
  PROVE  Median(values) = v
<1>1. DOMAIN values = 1 .. n /\ Len(values) = n /\ values # <<>>
  <2>1. DOMAIN values = 1 .. n /\ Len(values) = n
    BY DEF IsList
  <2>2. 1 \in DOMAIN values
    BY <2>1
  <2>3. DOMAIN <<>> = {}
    OBVIOUS
  <2> QED BY <2>1, <2>2, <2>3
<1>2. ToSet(values) = {v}
  <2>1. ToSet(values) = {values[i] : i \in 1 .. n}
    BY <1>1 DEF ToSet
  <2>2. 1 \in 1 .. n
    OBVIOUS
  <2> QED BY <2>1, <2>2
<1>3. Leq(v, v) /\ ~Less(v, v)
  BY LeqIsAnOrder
<1> DEFINE L == {i \in DOMAIN values : Less(values[i], v)}
           M == {i \in DOMAIN values : Leq(values[i], v)}
<1>4. L = {} /\ M = 1 .. n
  BY <1>1, <1>3
<1>5. Cardinality(L) = 0 /\ Cardinality(M) = n
  <2>1. Cardinality({}) = 0
    BY FS_EmptySet
  <2>2. Cardinality(1 .. n) = n
    <3>1. n \in Nat
      OBVIOUS
    <3> QED BY <3>1, FS_Interval
  <2> HIDE DEF L, M
  <2> QED BY <1>4, <2>1, <2>2
<1>6. ASSUME NEW k \in 1 .. n PROVE Ranked(values, k) = v
  <2> DEFINE fits(w) == /\ Cardinality({i \in DOMAIN values : Less(values[i], w)}) < k
                        /\ Cardinality({i \in DOMAIN values : Leq(values[i], w)}) >= k
  <2>1. fits(v)
    <3> HIDE DEF L, M
    <3>1. Cardinality(L) < k /\ Cardinality(M) >= k
      BY <1>5
    <3> QED BY <3>1 DEF L, M
  <2>2. Ranked(values, k) = CHOOSE w \in {v} : fits(w)
    BY <1>2 DEF Ranked
  <2> HIDE DEF fits
  <2> QED BY <2>1, <2>2
<1>7. Over(Plus(v, v), Whole(2)) = v
  <2> DEFINE d == v[2]  x == v[1]  one == 1  two == 2
  <2>1. At(v, d, x) /\ d \in Nat \ {0} /\ x \in Int
    BY FractionParts DEF At
  <2>2. Whole(two) \in Fractions /\ Whole(two)[1] # 0
    BY WholeIsFraction
  <2> HIDE DEF d, x
  <2>3. At(Plus(v, v), d, x + x)
    BY <2>1, AtPlus
  <2>4. At(Times(Whole(two), v), d, two * x)
    <3>1. two \in Int
      OBVIOUS
    <3> HIDE DEF two
    <3> QED BY <2>1, <3>1, AtMultiple
  <2>5. x + x = two * x
    BY <2>1
  <2>6. Plus(v, v) = Times(Whole(two), v)
    <3> DEFINE y == two * x
    <3>1. At(Plus(v, v), d, y) /\ At(Times(Whole(two), v), d, y)
      BY <2>3, <2>4, <2>5
    <3> HIDE DEF y, two
    <3> QED BY <3>1, AtLeq
  <2> HIDE DEF two
  <2>7. Over(Times(Whole(two), v), Whole(two)) = v
    BY <2>2, OverOfTimes
  <2> QED BY <2>6, <2>7 DEF two
<1> DEFINE mid == (n \div 2) + 1
<1>8. /\ n % 2 = 1 => mid \in 1 .. n
      /\ n % 2 # 1 => mid \in 1 .. n /\ mid - 1 \in 1 .. n
  OBVIOUS
<1>9. Median(values) = IF n % 2 = 1 THEN Ranked(values, mid)
                       ELSE Over(Plus(Ranked(values, mid - 1), Ranked(values, mid)), Whole(2))
  BY <1>1 DEF Median
<1> HIDE DEF mid
<1> QED BY <1>6, <1>7, <1>8, <1>9

\* A curve of a bill's own tariff runs through the bill.
LEMMA CurveOfOwnTariff ==
  ASSUME NEW k, Above(k), NEW p \in Fractions, NEW f \in Fractions, NEW x \in Fractions,
         Above(Plus(Times(k, p), f))
  PROVE  LET B == Plus(Times(k, p), f)
         IN  Times(Plus(Whole(1), Over(x, B)), Plus(p, Over(f, k))) = Over(Plus(B, x), k)
<1> DEFINE e == Times(k, p)
           B == Plus(e, f)
           one == Whole(1)
<1>1. k \in Fractions /\ k[1] # 0 /\ e \in Fractions
  BY TimesIsFraction DEF Above
<1>2. B \in Fractions /\ B[1] # 0
  BY DEF Above
<1> HIDE DEF B
<1>3. Over(e, k) = p
  BY <1>1, OverOfTimes
<1> HIDE DEF e
<1>4. Plus(p, Over(f, k)) = Over(B, k)
  BY <1>1, <1>3, OverAdds DEF B
<1>5. Over(B, B) = one
  BY <1>2, OverSelf
<1>6. Plus(one, Over(x, B)) = Over(Plus(B, x), B)
  BY <1>2, <1>5, OverAdds
<1>7. Plus(B, x) \in Fractions
  BY <1>2, PlusIsFraction
<1> DEFINE T == Plus(B, x)
<1>8. T \in Fractions
  BY <1>7
<1> HIDE DEF T
<1>9. Times(Over(T, B), Over(B, k)) = Over(T, k)
  BY <1>1, <1>2, <1>8, OverChain
<1>10. Times(Plus(one, Over(x, B)), Plus(p, Over(f, k))) = Over(T, k)
  BY <1>4, <1>6, <1>9 DEF T
<1> QED BY <1>10 DEF T, B, e, one

\* The tariff that is found is that of a bill all others agree with.
LEMMA TariffFound ==
  ASSUME NEW n \in Nat, IsList(parsed, n), \A i \in 1 .. n : BillFigured(parsed[i]),
         NEW j \in 1 .. n, IsSplit(parsed[j]),
         \A i \in 1 .. n : SharesTariff(parsed[j], parsed[i])
  PROVE  LET b == parsed[j]
         IN  /\ TariffShape(parsed).fixedPerBill = b.fixedCharges
             /\ TariffShape(parsed).taxRate = Over(b.taxes, TaxBase(b))
             /\ Above(TaxBase(b)) /\ b.taxes \in Fractions /\ b.fixedCharges \in Fractions
             /\ EnergyCharge(b) \in Fractions
<1> DEFINE b == parsed[j]
           e == EnergyCharge(b)
           B == TaxBase(b)
<1>1. b.taxes \in Fractions /\ b.fixedCharges \in Fractions /\ e \in Fractions
  <2>1. BillFigured(b)
    OBVIOUS
  <2>2. b.taxes # Null /\ b.fixedCharges # Null /\ e # Null
    BY DEF IsSplit
  <2> HIDE DEF b
  <2> QED BY <2>1, <2>2, AmountsAre DEF BillFigured
<1>2. B \in Fractions
  BY <1>1, PlusIsFraction DEF TaxBase
<1>3. Above(B)
  <2>1. Less(Zero, B)
    BY DEF IsSplit
  <2> HIDE DEF B
  <2>2. B \in Amounts /\ B # Null
    BY <1>2, AmountsAre DEF Amounts
  <2>3. Positive(B)
    BY <2>1, <2>2 DEF Positive
  <2> QED BY <2>2, <2>3, PositiveIsAbove
<1>4. DOMAIN parsed = 1 .. n
  BY DEF IsList
<1>5. Median(Column(Known(parsed, "fixedCharges"), "fixedCharges")) = b.fixedCharges
  <2> DEFINE K == Known(parsed, "fixedCharges")
             values == Column(K, "fixedCharges")
             f == b.fixedCharges
  <2>1. PICK c \in Nat : /\ IsList(K, c)
                         /\ \A k \in 1 .. c : \E i \in 1 .. n :
                              K[k] = parsed[i] /\ parsed[i]["fixedCharges"] # Null
                         /\ c = 0 <=> \A i \in 1 .. n : parsed[i]["fixedCharges"] = Null
    BY KnownWorks
  <2>2. c # 0
    BY <1>1, <2>1, AmountsAre
  <2> HIDE DEF K
  <2>3. DOMAIN values = 1 .. c /\ IsList(values, c) /\ \A k \in 1 .. c : values[k] = K[k].fixedCharges
    <3>1. DOMAIN K = 1 .. c
      BY <2>1 DEF IsList
    <3> QED BY <3>1 DEF Column, IsList
  <2> HIDE DEF values
  <2>4. ASSUME NEW k \in 1 .. c PROVE values[k] = f
    <3>1. PICK i \in 1 .. n : K[k] = parsed[i] /\ parsed[i].fixedCharges # Null
      BY <2>1
    <3>2. SharesTariff(b, parsed[i])
      OBVIOUS
    <3>3. parsed[i].fixedCharges = f
      BY <3>1, <3>2 DEF SharesTariff
    <3> QED BY <2>3, <3>1, <3>3
  <2>5. f \in Fractions /\ c \in Nat \ {0}
    BY <1>1, <2>2
  <2> HIDE DEF f
  <2>6. Median(values) = f
    BY <2>3, <2>4, <2>5, MedianOfOne, ZenonT(30)
  <2> QED BY <2>6 DEF values, K, f
<1> DEFINE S == {i \in DOMAIN parsed : IsSplit(parsed[i])}
           split == Sublist(parsed, S)
           rates == [i \in DOMAIN split |-> Over(split[i].taxes, TaxBase(split[i]))]
           r == Over(b.taxes, B)
<1>6. Median(rates) = r
  <2>1. S \subseteq 1 .. n /\ j \in S /\ \A i \in S : IsSplit(parsed[i])
    BY <1>4
  <2> HIDE DEF S
  <2>2. IsFiniteSet(S) /\ S \subseteq Int
    <3> DEFINE N == 1 .. n
    <3>1. IsFiniteSet(N) /\ S \in SUBSET N
      BY <2>1, FS_Interval
    <3>2. S \subseteq Int
      BY <2>1
    <3> HIDE DEF N
    <3> QED BY <3>1, <3>2, FS_Subset
  <2> DEFINE c == Cardinality(S)
  <2>3. c \in Nat \ {0}
    <3>1. c \in Nat
      BY <2>2, FS_CardinalityType
    <3>2. c # 0
      BY <2>1, <2>2, FS_EmptySet
    <3> QED BY <3>1, <3>2
  <2>4. /\ DOMAIN split = 1 .. c
        /\ \A k \in 1 .. c : InOrder(S)[k] \in S /\ split[k] = parsed[InOrder(S)[k]]
    BY <2>2, SublistWorks
  <2> HIDE DEF split, c
  <2>5. ASSUME NEW k \in 1 .. c PROVE rates[k] = r
    <3> DEFINE i == InOrder(S)[k]
    <3>1. i \in S /\ split[k] = parsed[i]
      BY <2>4
    <3> HIDE DEF i
    <3>2. i \in 1 .. n /\ IsSplit(parsed[i])
      BY <2>1, <3>1
    <3>3. SharesTariff(parsed[j], parsed[i])
      BY <3>2
    <3>4. Over(parsed[i].taxes, TaxBase(parsed[i])) = r
      BY <3>2, <3>3 DEF SharesTariff
    <3>5. rates[k] = Over(split[k].taxes, TaxBase(split[k]))
      BY <2>4
    <3> QED BY <3>1, <3>4, <3>5
  <2>6. DOMAIN rates = 1 .. c /\ IsList(rates, c)
    BY <2>4 DEF IsList
  <2>7. r \in Fractions
    <3>1. B[1] # 0 /\ b.taxes \in Fractions
      BY <1>1, <1>3 DEF Above
    <3> HIDE DEF b, B
    <3> QED BY <1>2, <3>1, OverIsFraction
  <2> HIDE DEF rates, r
  <2> QED BY <2>3, <2>5, <2>6, <2>7, MedianOfOne
<1>7. /\ TariffShape(parsed).fixedPerBill =
           Median(Column(Known(parsed, "fixedCharges"), "fixedCharges"))
      /\ TariffShape(parsed).taxRate = Median(rates)
  BY DEF TariffShape
<1> QED BY <1>1, <1>3, <1>5, <1>6, <1>7

\* A tariff that is found explains the bills it should, in every state.
LEMMA InvTariff == Inv => TariffExplains
<1> SUFFICES ASSUME Inv, NEW b \in ToSet(parsed), Explained(b),
                    \A c \in ToSet(parsed) : SharesTariff(b, c)
             PROVE  Curve(Evidence.tariff, b.unitPrice, b.consumption) = EffectivePrice(b)
  BY DEF TariffExplains
<1>1. PICK n \in Nat : /\ IsList(parsed, n) /\ DOMAIN parsed = 1 .. n
                       /\ \A i \in 1 .. n : BillFigured(parsed[i])
  BY ParsedList DEF Inv
<1>2. PICK j \in 1 .. n : b = parsed[j]
  BY <1>1 DEF ToSet
<1>3. \A i \in 1 .. n : SharesTariff(parsed[j], parsed[i])
  <2>1. \A i \in 1 .. n : parsed[i] \in ToSet(parsed)
    BY <1>1 DEF ToSet
  <2> QED BY <1>2, <2>1
<1> DEFINE k == b.consumption
           p == b.unitPrice
           f == b.fixedCharges
           x == b.taxes
           B == TaxBase(b)
           tariff == TariffShape(parsed)
<1>4. /\ tariff.fixedPerBill = f /\ tariff.taxRate = Over(x, B)
      /\ Above(B) /\ x \in Fractions /\ f \in Fractions /\ EnergyCharge(b) \in Fractions
  <2>1. IsSplit(parsed[j])
    BY <1>2 DEF Explained
  <2> QED BY <1>1, <1>2, <1>3, <2>1, TariffFound
<1>5. Above(k) /\ p \in Fractions /\ EnergyCharge(b) = Times(k, p)
  <2>1. BillFigured(b) /\ Positive(k)
    BY <1>1, <1>2 DEF Explained
  <2>2. k \in Amounts /\ p \in Amounts
    BY <2>1 DEF BillFigured
  <2>3. EnergyCharge(b) # Null
    BY <1>4, AmountsAre
  <2>4. k # Null /\ p # Null /\ EnergyCharge(b) = Times(k, p)
    BY <2>3 DEF EnergyCharge
  <2> HIDE DEF k, p
  <2> QED BY <2>1, <2>2, <2>4, AmountsAre, PositiveIsAbove
<1>6. b.total = Plus(B, x) /\ B = Plus(Times(k, p), f)
  BY <1>5 DEF Explained, TaxBase
<1>7. EffectivePrice(b) = Over(b.total, k)
  <2>1. k # Null /\ ~Leq(k, Zero)
    <3> HIDE DEF k
    <3>1. k \in Fractions /\ k[1] > 0
      BY <1>5 DEF Above
    <3>2. k \in Amounts /\ k # Null
      BY <3>1, AmountsAre DEF Amounts
    <3>3. Less(Zero, k)
      BY <1>5, <3>2, PositiveIsAbove DEF Positive
    <3> QED BY <3>1, <3>2, <3>3, LeqIsAnOrder, ZeroIsFraction
  <2> QED BY <2>1 DEF EffectivePrice
<1>8. Evidence.tariff = tariff
  BY DEF Evidence
<1> HIDE DEF k, p, f, x, tariff, B
<1>9. Over(x, B) \in Fractions
  BY <1>4, OverIsFraction DEF Above
<1>10. Curve(tariff, p, k) = Times(Plus(Whole(1), Over(x, B)), Plus(p, Over(f, k)))
  <2>1. p # Null /\ f # Null /\ Over(x, B) # Null
    BY <1>4, <1>5, <1>9, AmountsAre
  <2> QED BY <1>4, <2>1 DEF Curve
<1>11. Curve(tariff, p, k) = Over(Plus(B, x), k)
  BY <1>4, <1>5, <1>6, <1>10, CurveOfOwnTariff
<1>12. Curve(tariff, p, k) = EffectivePrice(b)
  BY <1>6, <1>7, <1>11
<1> QED BY <1>8, <1>12 DEF p, k

\* The shape of a tariff (metrics.ts tariffShape) and the curve the dashboard
\* draws of it (RateEvidence): bills of one tariff lie on their curve, whatever
\* bills of it tell less.
THEOREM TariffsExplainTheirBills == Spec => []TariffExplains
BY Invariant, InvTariff, PTL

(***************************************************************************)
(* What the excess adds up to                                              *)
(***************************************************************************)
\* A priced month was read, and its price times its kWh is its cost up to
\* what rounding may miss.
LEMMA PricedMonthPays ==
  ASSUME DataInv, NEW i \in DOMAIN buckets, buckets[i].effective # Null
  PROVE  LET b == buckets[i]
         IN  /\ b.effective \in Fractions /\ b.kwh \in Fractions /\ b.cost \in Fractions
             /\ IsWithin(Times(b.effective, b.kwh), b.cost, MonthSlack(b))
<1> DEFINE b == buckets[i]
           m == b.period
           B == CoveredBy(Bills, m)
           C == Cost(B, m)
           K == Kwh(B, m)
<1>1. ShowsMonth(b, B, m) /\ b.effective # Null
  BY MonthShows
<1> HIDE DEF b, m, B
<1>2. /\ C \in Fractions /\ K \in Fractions
      /\ b.cost = Rounded(C, MoneyScale)
      /\ Metered(B) # {} => b.kwh = Rounded(K, MoneyScale)
      /\ b.effective = IF Metered(B) # {} /\ ~Leq(K, Zero)
                       THEN Rounded(Over(C, K), PriceScale) ELSE Null
  BY <1>1 DEF ShowsMonth
<1> HIDE DEF C, K
<1>3. /\ ~Leq(K, Zero) /\ b.kwh = Rounded(K, MoneyScale)
      /\ b.effective = Rounded(Over(C, K), PriceScale)
  BY <1>1, <1>2
<1>4. Above(K)
  <2>1. Less(Zero, K)
    BY <1>2, <1>3, LeqIsAnOrder, ZeroIsFraction
  <2>2. K \in Amounts /\ K # Null
    BY <1>2, AmountsAre DEF Amounts
  <2>3. Positive(K)
    BY <2>1, <2>2 DEF Positive
  <2> QED BY <2>2, <2>3, PositiveIsAbove
<1>5. MoneyScale \in Nat \ {0} /\ PriceScale \in Nat \ {0}
  BY CalendarAssumption
<1>6. IsWithin(Times(b.effective, b.kwh), b.cost, MayMiss(b.kwh, b.effective, MoneyScale, PriceScale))
  <2> DEFINE c == b.cost  k == b.kwh  e == b.effective
  <2>1. c = Rounded(C, MoneyScale) /\ k = Rounded(K, MoneyScale) /\ e = Rounded(Over(C, K), PriceScale)
    BY <1>2, <1>3
  <2> HIDE DEF c, k, e
  <2>2. IsWithin(Times(e, k), c, MayMiss(k, e, MoneyScale, PriceScale))
    BY <1>2, <1>4, <1>5, <2>1, PriceTimesUse
  <2> QED BY <2>2 DEF c, k, e
<1>7. MayMiss(b.kwh, b.effective, MoneyScale, PriceScale) = MonthSlack(b)
  BY DEF MayMiss, MonthSlack, HalfMoney, HalfPrice, HalfOf
<1>8. b.effective \in Fractions /\ b.kwh \in Fractions /\ b.cost \in Fractions
  <2>1. Over(C, K) \in Fractions
    BY <1>2, <1>4, OverIsFraction DEF Above
  <2> QED BY <1>2, <1>3, <1>5, <2>1, RoundedIsNear
<1>9. IsWithin(Times(b.effective, b.kwh), b.cost, MonthSlack(b))
  BY <1>6, <1>7
<1> QED BY <1>8, <1>9 DEF b

\* The excess of a month over a price.
ExcessOf(b, first) ==
  IF b.effective = Null \/ b.kwh = Null THEN Zero
  ELSE Times(Minus(b.effective, first), b.kwh)
ExcessUpTo(list, i, first) == [j \in 1 .. i |-> ExcessOf(list[j], first)]

\* What a list of months exceeds its first price by.
LEMMA ExcessIs ==
  ASSUME NEW c \in Nat, IsList(buckets, c), c # 0, Known(buckets, "effective") # <<>>
  PROVE  Last(CumulativeExcess(buckets)).value =
           Rounded(Total(ExcessUpTo(buckets, c, Head(Known(buckets, "effective")).effective)),
                   MoneyScale)
<1> DEFINE priced == Known(buckets, "effective")
           first  == Head(priced).effective
           entry(i) == [period |-> buckets[i].period,
                        value  |-> Rounded(Total(ExcessUpTo(buckets, i, first)), MoneyScale)]
           excess == CumulativeExcess(buckets)
<1>1. DOMAIN buckets = 1 .. c
  BY DEF IsList
<1>2. excess = IF priced = <<>> THEN <<>> ELSE [i \in DOMAIN buckets |-> entry(i)]
  BY Zenon DEF CumulativeExcess, ExcessUpTo, ExcessOf
<1>3. priced # <<>>
  OBVIOUS
<1> HIDE DEF priced, entry, excess, first
<1>4. excess = [i \in 1 .. c |-> entry(i)]
  BY <1>1, <1>2, <1>3
<1>5. Len(excess) = c /\ c \in 1 .. c
  BY <1>4
<1>6. Last(excess) = entry(c)
  BY <1>4, <1>5 DEF Last
<1>7. Last(excess).value = Rounded(Total(ExcessUpTo(buckets, c, first)), MoneyScale)
  BY <1>6 DEF entry
<1> QED BY <1>7 DEF excess, first, priced

\* The priced months of a list, with the place of each.
PlacedAt(priced, n, h, list, c) ==
  /\ IsList(priced, n) /\ h \in [1 .. n -> 1 .. c]
  /\ \A k \in 1 .. n : priced[k] = list[h[k]] /\ list[h[k]].effective # Null
  /\ \A k, l \in 1 .. n : h[k] = h[l] => k = l
  /\ \A i \in 1 .. c : list[i].effective # Null => \E k \in 1 .. n : h[k] = i

\* They have such places.
LEMMA PricedArePlaced ==
  ASSUME NEW c \in Nat, NEW list, IsList(list, c)
  PROVE  \E n, h : n \in Nat /\ PlacedAt(Known(list, "effective"), n, h, list, c)
<1> DEFINE S == {i \in 1 .. c : list[i].effective # Null}
           n == Cardinality(S)
           h == [k \in 1 .. n |-> InOrder(S)[k]]
           priced == Known(list, "effective")
<1>1. S \subseteq Int /\ IsFiniteSet(S) /\ DOMAIN list = 1 .. c
  <2>1. IsFiniteSet(1 .. c) /\ S \subseteq 1 .. c
    BY FS_Interval
  <2>2. IsFiniteSet(S)
    <3> HIDE DEF S
    <3> QED BY <2>1, FS_Subset
  <2>3. DOMAIN list = 1 .. c
    BY DEF IsList
  <2> QED BY <2>1, <2>2, <2>3
<1>2. priced = Sublist(list, S)
  BY <1>1 DEF Known
<1>3. S \subseteq 1 .. c /\ \A i \in 1 .. c : i \in S <=> list[i].effective # Null
  OBVIOUS
<1>4. n \in Nat
  BY <1>1, FS_CardinalityType
<1> HIDE DEF S
<1>5. \A k \in 1 .. n : InOrder(S)[k] \in S /\ Sublist(list, S)[k] = list[InOrder(S)[k]]
  BY <1>1, SublistWorks
<1>6. ASSUME NEW i \in S PROVE \E k \in 1 .. n : InOrder(S)[k] = i
  BY <1>1, InOrderWorks
<1>7. \A k, l \in 1 .. n : InOrder(S)[k] = InOrder(S)[l] => k = l
  BY <1>1, SublistWorks
<1>8. IsList(priced, n)
  <2>1. priced = [k \in 1 .. n |-> priced[k]]
    BY <1>2 DEF Sublist
  <2> QED BY <2>1 DEF IsList
<1> HIDE DEF n, priced
<1>9. h \in [1 .. n -> 1 .. c] /\ \A k \in 1 .. n : h[k] = InOrder(S)[k]
  BY <1>3, <1>5
<1> HIDE DEF h
<1>10. PlacedAt(priced, n, h, list, c)
  BY <1>2, <1>3, <1>5, <1>6, <1>7, <1>8, <1>9 DEF PlacedAt
<1> QED BY <1>4, <1>10 DEF priced

\* The excess of all months is that of the priced ones.
LEMMA ExcessOfPriced ==
  ASSUME DataInv, NEW c \in Nat, IsList(buckets, c), NEW priced, NEW n \in Nat, NEW h,
         PlacedAt(priced, n, h, buckets, c), NEW first \in Fractions
  PROVE  /\ Total(ExcessUpTo(buckets, c, first)) = Total(ExcessUpTo(priced, n, first))
         /\ Total(ExcessUpTo(buckets, c, first)) \in Fractions
<1> DEFINE S == 1 .. c
           T == 1 .. n
           f == ExcessUpTo(buckets, c, first)
           g == ExcessUpTo(priced, n, first)
<1>1. IsFiniteSet(S) /\ IsFiniteSet(T)
  BY FS_Interval
<1>2. DOMAIN buckets = S
  BY DEF IsList
<1>3. DOMAIN f = S /\ DOMAIN g = T
      /\ (\A i \in S : f[i] = ExcessOf(buckets[i], first))
      /\ (\A k \in T : g[k] = ExcessOf(priced[k], first))
  BY DEF ExcessUpTo
<1>4. /\ h \in [T -> S] /\ \A k \in T : priced[k] = buckets[h[k]]
      /\ \A k, l \in T : h[k] = h[l] => k = l
      /\ \A i \in S : buckets[i].effective # Null => \E k \in T : h[k] = i
  BY DEF PlacedAt
<1> HIDE DEF S, T, f, g
<1>5. ASSUME NEW i \in S
      PROVE  f[i] \in Fractions /\ (buckets[i].effective = Null => f[i] = Zero)
  <2>1. CASE buckets[i].effective = Null
    BY <1>3, <2>1, ZeroIsFraction DEF ExcessOf
  <2>2. CASE buckets[i].effective # Null
    <3>1. buckets[i].effective \in Fractions /\ buckets[i].kwh \in Fractions
      BY <1>2, <2>2, PricedMonthPays
    <3>2. f[i] = Times(Minus(buckets[i].effective, first), buckets[i].kwh)
      BY <1>3, <3>1, AmountsAre DEF ExcessOf
    <3> DEFINE e == buckets[i].effective  k == buckets[i].kwh
    <3> HIDE DEF e, k
    <3>3. Times(Minus(e, first), k) \in Fractions
      <4>1. e \in Fractions /\ k \in Fractions
        BY <3>1 DEF e, k
      <4>2. Minus(e, first) \in Fractions
        BY <4>1, MinusIsFraction
      <4> QED BY <4>1, <4>2, TimesIsFraction
    <3> QED BY <2>2, <3>2, <3>3 DEF e, k
  <2> QED BY <2>1, <2>2
<1>6. \A k \in T : g[k] = f[h[k]]
  BY <1>3, <1>4
<1>7. \A i \in S : (\A k \in T : h[k] # i) => f[i] = Zero
  BY <1>4, <1>5
<1>8. Matches(S, f, T, g, h)
  BY <1>1, <1>3, <1>4, <1>5, <1>6, <1>7 DEF Matches
<1>9. Total(f) = Total(g)
  BY <1>8, TotalsMatch
<1>10. Total(f) \in Fractions
  BY <1>1, <1>3, <1>5, TotalIsFraction
<1> QED BY <1>9, <1>10 DEF f, g

\* The excess of a priced month is what it cost above the first price, but for
\* what rounding may miss.
LEMMA MonthExceeds ==
  ASSUME DataInv, NEW i \in DOMAIN buckets, buckets[i].effective # Null, NEW first \in Fractions
  PROVE  IsWithin(ExcessOf(buckets[i], first),
                  Minus(buckets[i].cost, Times(first, buckets[i].kwh)), MonthSlack(buckets[i]))
<1> DEFINE b == buckets[i]
           e == b.effective
           k == b.kwh
           paid == Times(first, k)
           slack == MonthSlack(b)
<1>1. /\ e \in Fractions /\ k \in Fractions /\ b.cost \in Fractions
      /\ IsWithin(Times(e, k), b.cost, slack)
  BY PricedMonthPays
<1>2. ExcessOf(b, first) = Times(Minus(e, first), k)
  BY <1>1, AmountsAre DEF ExcessOf
<1> HIDE DEF b, e, k, slack
<1>3. Times(Minus(e, first), k) = Minus(Times(e, k), paid) /\ paid \in Fractions
  BY <1>1, TimesDistributes, TimesIsFraction
<1> HIDE DEF paid
<1>4. IsWithin(Minus(Times(e, k), paid), Minus(b.cost, paid), slack)
  BY <1>1, <1>3, NearShifts
<1>5. IsWithin(ExcessOf(b, first), Minus(b.cost, paid), slack)
  BY <1>2, <1>3, <1>4
<1> QED BY <1>5 DEF paid, slack, k, b

\* What the priced months exceed the first price by, all together.
LEMMA PricedExceed ==
  ASSUME DataInv, NEW c \in Nat, IsList(buckets, c), NEW priced, NEW n \in Nat, NEW h,
         PlacedAt(priced, n, h, buckets, c), n # 0
  PROVE  LET first == Head(priced).effective
         IN  /\ first \in Fractions
             /\ IsWithin(Total(ExcessUpTo(priced, n, first)), PaidAbove(priced),
                         Total([i \in DOMAIN priced |-> MonthSlack(priced[i])]))
<1> DEFINE first == Head(priced).effective
           T == 1 .. n
           f == ExcessUpTo(priced, n, first)
           g == [i \in DOMAIN priced |->
                   Minus(priced[i].cost, Times(priced[1].effective, priced[i].kwh))]
           s == [i \in DOMAIN priced |-> MonthSlack(priced[i])]
<1>1. IsFiniteSet(T) /\ 1 \in T
  BY FS_Interval
<1>2. DOMAIN priced = T /\ Len(priced) = n
  BY DEF PlacedAt, IsList
<1>3. DOMAIN buckets = 1 .. c
  BY DEF IsList
<1>4. ASSUME NEW k \in T
      PROVE  h[k] \in DOMAIN buckets /\ priced[k] = buckets[h[k]] /\ buckets[h[k]].effective # Null
  <2>1. h[k] \in 1 .. c
    BY DEF PlacedAt
  <2> QED BY <1>3, <2>1 DEF PlacedAt
<1>5. Head(priced) = priced[1]
  BY <1>1, <1>2
<1>6. first \in Fractions
  <2>1. priced[1] = buckets[h[1]] /\ h[1] \in DOMAIN buckets /\ buckets[h[1]].effective # Null
    BY <1>1, <1>4
  <2>2. buckets[h[1]].effective \in Fractions
    BY <2>1, PricedMonthPays
  <2> QED BY <1>5, <2>1, <2>2
<1>7. DOMAIN f = T /\ DOMAIN g = T /\ DOMAIN s = T
  BY <1>2 DEF ExcessUpTo
<1> HIDE DEF T
<1>8. ASSUME NEW k \in T PROVE IsWithin(f[k], g[k], s[k])
  <2> DEFINE i == h[k]
             b == buckets[i]
  <2>1. i \in DOMAIN buckets /\ priced[k] = b /\ b.effective # Null
    BY <1>4
  <2>2. IsWithin(ExcessOf(b, first), Minus(b.cost, Times(first, b.kwh)), MonthSlack(b))
    <3> HIDE DEF i, first
    <3> QED BY <1>6, <2>1, MonthExceeds
  <2> HIDE DEF b
  <2>3. f[k] = ExcessOf(b, first)
    BY <2>1 DEF ExcessUpTo, T
  <2>4. g[k] = Minus(b.cost, Times(first, b.kwh)) /\ s[k] = MonthSlack(b)
    BY <1>2, <1>5, <2>1
  <2> QED BY <2>2, <2>3, <2>4
<1> HIDE DEF f, g, s
<1>9. IsWithin(Total(f), Total(g), Total(s))
  BY <1>1, <1>7, <1>8, TotalNear
<1>10. Total(g) = PaidAbove(priced)
  BY DEF PaidAbove, g
<1> HIDE DEF first
<1> QED BY <1>6, <1>9, <1>10 DEF f, s, first

\* What the excess adds up to, in every state.
LEMMA InvExcess == Inv => ExcessAddsUp
<1> DEFINE priced == Known(buckets, "effective")
           last == Last(CumulativeExcess(buckets)).value
           first == Head(priced).effective
           slack == Total([i \in DOMAIN priced |-> MonthSlack(priced[i])])
           half == HalfOf(MoneyScale)
<1> SUFFICES ASSUME Inv, priced # <<>>
             PROVE  Leq(AbsOf(Minus(last, PaidAbove(priced))), ExcessSlack(priced))
  BY DEF ExcessAddsUp
<1>1. DataInv
  BY DEF Inv
<1>2. PICK c \in Nat : IsList(buckets, c)
  BY <1>1, BucketsList
<1>3. PICK n, h : n \in Nat /\ PlacedAt(priced, n, h, buckets, c)
  BY <1>2, PricedArePlaced
<1> HIDE DEF priced
<1>4. n # 0 /\ c # 0
  <2>1. IsList(priced, n) /\ h \in [1 .. n -> 1 .. c]
    BY <1>3 DEF PlacedAt
  <2>2. n # 0
    BY <2>1 DEF IsList
  <2>3. n \in Nat
    BY <1>3
  <2>4. h[1] \in 1 .. c
    BY <2>1, <2>2, <2>3
  <2> QED BY <2>2, <2>4
<1>5. first \in Fractions /\ IsWithin(Total(ExcessUpTo(priced, n, first)), PaidAbove(priced), slack)
  BY <1>1, <1>2, <1>3, <1>4, PricedExceed
<1> HIDE DEF first, slack
<1> DEFINE all == Total(ExcessUpTo(buckets, c, first))
<1>6. all = Total(ExcessUpTo(priced, n, first)) /\ all \in Fractions
  BY <1>1, <1>2, <1>3, <1>5, ExcessOfPriced
<1>7. last = Rounded(all, MoneyScale)
  BY <1>2, <1>4, ExcessIs DEF priced, first
<1> HIDE DEF all, last
<1>8. IsWithin(all, PaidAbove(priced), slack)
  BY <1>5, <1>6
<1>9. IsWithin(last, all, half)
  <2>1. MoneyScale \in Nat \ {0}
    BY CalendarAssumption
  <2>2. half \in Fractions
    BY <2>1, HalfIsAbove
  <2> QED BY <1>6, <1>7, <2>1, <2>2, RoundedIsNear DEF IsWithin, HalfOf
<1> HIDE DEF half
<1>10. IsWithin(last, PaidAbove(priced), Plus(half, slack))
  BY <1>8, <1>9, NearChain
<1>11. Plus(half, slack) = ExcessSlack(priced)
  BY DEF ExcessSlack, HalfMoney, HalfOf, half, slack
<1> QED BY <1>10, <1>11 DEF IsWithin

\* The excess over the first price (metrics.ts cumulativeExcess) is money that
\* was paid: the rounding of every month's cost, kWh and price leads away from
\* it by no more than those roundings are worth.
THEOREM ExcessIsPaid == Spec => []ExcessAddsUp
BY Invariant, InvExcess, PTL

(***************************************************************************)
(* Library figures, all together                                           *)
(***************************************************************************)
\* What the library offers beyond the screens, in every state.
LEMMA InvLibrary == Inv => LibraryFigures
<1> SUFFICES ASSUME Inv PROVE LibraryFigures
  OBVIOUS
<1>1. DataInv
  BY DEF Inv
<1> DEFINE items == [i \in DOMAIN parsed |->
                       [energy |-> EnergyCharge(parsed[i]),
                        fixed |-> parsed[i].fixedCharges,
                        taxes |-> parsed[i].taxes, total |-> parsed[i].total]]
           costs == Column(buckets, "cost")
<1>2. buckets # <<>> => FillsTheGaps(FillMonths(buckets))
  BY <1>1, GapsAreFilled
<1>3. PICK n \in Nat : /\ IsList(parsed, n) /\ DOMAIN parsed = 1 .. n
                       /\ \A i \in 1 .. n : BillFigured(parsed[i])
  BY <1>1, ParsedList
<1>4. ASSUME NEW i \in 1 .. n PROVE items[i] = ItemOf(parsed[i])
  BY <1>3 DEF ItemOf
<1>5. AddsUp(Composition(items))
  <2>1. ASSUME NEW i \in 1 .. n
        PROVE  /\ items[i].total \in Amounts
               /\ \A f \in PartsKnown : items[i][f] \in Amounts
    <3>1. BillFigured(parsed[i])
      BY <1>3
    <3> QED BY <1>3, <3>1 DEF BillFigured, PartsKnown, Amounts
  <2>2. IsList(items, n)
    BY <1>3 DEF IsList
  <2> HIDE DEF items
  <2> QED BY <2>1, <2>2, CompositionAddsUp
<1>6. ASSUME NEW i \in DOMAIN parsed PROVE RestOf(parsed[i], Breakdown(parsed[i]), items[i])
  <2>1. i \in 1 .. n /\ BillFigured(parsed[i])
    BY <1>3
  <2> HIDE DEF items
  <2>2. items[i] = ItemOf(parsed[i])
    BY <1>4, <2>1
  <2> QED BY <2>1, <2>2, OneRest
<1>7. IndexToFirst(costs) = IndexToFirst([i \in DOMAIN costs |-> Times(Whole(2), costs[i])])
  <2>1. PICK c \in Nat : IsList(buckets, c)
    BY <1>1, BucketsList
  <2>2. DOMAIN buckets = 1 .. c
    BY <2>1 DEF IsList
  <2>3. DOMAIN costs = 1 .. c /\ \A i \in 1 .. c : costs[i] = buckets[i].cost
    BY <2>2 DEF Column
  <2> HIDE DEF costs
  <2>4. \A i \in 1 .. c : costs[i] \in Fractions
    BY <1>1, <2>2, <2>3, MonthFigures DEF OnGrid
  <2> QED BY <2>3, <2>4, IndexOfDouble
<1>8. buckets # <<>> /\ AllInSince # Null /\ Positive(buckets[1].effective) =>
        Last(IndexToFirst(Column(buckets, "effective"))) = Plus(Whole(100), AllInSince)
  BY <1>1, IndexEnds
<1>9. WalksOn(Forecast(buckets, 3), Known(buckets, "effective"), 3)
  <2> DEFINE count == 3
  <2>1. count \in Nat
    OBVIOUS
  <2> HIDE DEF count
  <2>2. WalksOn(Forecast(buckets, count), Known(buckets, "effective"), count)
    BY <1>1, <2>1, ForecastWalksOn
  <2> QED BY <2>2 DEF count
<1> HIDE DEF items, costs
<1>10. /\ buckets # <<>> => FillsTheGaps(FillMonths(buckets))
       /\ AddsUp(Composition(items))
       /\ \A i \in DOMAIN parsed : RestOf(parsed[i], Breakdown(parsed[i]), items[i])
       /\ IndexToFirst(costs) =
            IndexToFirst([i \in DOMAIN costs |-> Times(Whole(2), costs[i])])
       /\ buckets # <<>> /\ AllInSince # Null /\ Positive(buckets[1].effective) =>
            Last(IndexToFirst(Column(buckets, "effective"))) = Plus(Whole(100), AllInSince)
       /\ WalksOn(Forecast(buckets, 3), Known(buckets, "effective"), 3)
       /\ TariffExplains /\ ExcessAddsUp
  BY <1>2, <1>5, <1>6, <1>7, <1>8, <1>9, InvTariff, InvExcess
<1> QED BY <1>10, Zenon DEF LibraryFigures, items, costs

\* What metrics.ts offers beyond the screens (fillMonths, composition,
\* indexToFirst, forecast, tariffShape, cumulativeExcess): no month is lost or
\* made up, the parts of a total and its rest are the total, an index says what
\* the KPI beside it says, a forecast reaches as far as the readings and follows
\* the price, and tariff and excess are those of the bills.
THEOREM LibraryFiguresHold == Spec => []LibraryFigures
BY Invariant, InvLibrary, PTL
==============================================================================
