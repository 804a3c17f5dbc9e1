----------------------------- MODULE SeriesProofs -----------------------------
(***************************************************************************)
(* The calendar, sums of fractions, and an anomaly report, for every file, *)
(* every calendar and every bound: its grid, its counts and its verdicts.  *)
(***************************************************************************)
EXTENDS AnomalyDetection, Foundations

-----------------------------------------------------------------------------
(***************************************************************************)
(* Years.                                                                  *)
(***************************************************************************)

Length(y) == IF IsLeap(y) THEN 366 ELSE 365

LEMMA YearsAre == /\ FirstYear \in Nat /\ LastYear \in Nat /\ FirstYear < LastYear
                  /\ Years = FirstYear..(LastYear + 2)
                  /\ TicksPerDay \in Nat \ {0}
  BY PeriodsAssumption DEF PeriodsAssumption, Years

LEMMA LengthIs == \A y : Length(y) \in {365, 366}
  BY DEF Length

LEMMA YearStartExists ==
    \E f \in [Years -> Nat] :
        f = [y \in Years |-> IF y = FirstYear THEN 0
                ELSE f[y - 1] + (IF IsLeap(y - 1) THEN 366 ELSE 365)]
<1> DEFINE Steps(f, n) ==
             /\ f \in [0..n -> Nat] /\ f[0] = 0
             /\ \A k \in 1..n : f[k] = f[k - 1] + Length(FirstYear + k - 1)
           S == {n \in Nat : \E f : Steps(f, n)}
           N == LastYear + 2 - FirstYear
<1>1. 0 \in S
  <2>1. Steps([k \in 0..0 |-> 0], 0)
    OBVIOUS
  <2> QED
    BY <2>1
<1>2. ASSUME NEW n \in 0..(N - 1), n \in S PROVE n + 1 \in S
  <2>1. PICK f : Steps(f, n)
    BY <1>2
  <2> DEFINE g == [k \in 0..(n + 1) |-> IF k = n + 1 THEN f[n] + Length(FirstYear + n) ELSE f[k]]
  <2>2. n \in Nat /\ n \in 0..n
    OBVIOUS
  <2>3. /\ f \in [0..n -> Nat] /\ f[0] = 0
        /\ \A k \in 1..n : f[k] = f[k - 1] + Length(FirstYear + k - 1)
    BY <2>1
  <2>4. f[n] \in Nat
    BY <2>2, <2>3
  <2>5. g \in [0..(n + 1) -> Nat]
    <3>1. f[n] + Length(FirstYear + n) \in Nat
      BY <2>4, LengthIs
    <3>2. ASSUME NEW k \in 0..(n + 1), k # n + 1 PROVE f[k] \in Nat
      <4>1. k \in 0..n
        BY <2>2, <3>2
      <4> QED
        BY <2>3, <4>1
    <3> QED
      BY <3>1, <3>2
  <2>6. g[0] = 0
    BY <2>2, <2>3
  <2>7. ASSUME NEW k \in 1..(n + 1) PROVE g[k] = g[k - 1] + Length(FirstYear + k - 1)
    <3>1. CASE k = n + 1
      BY <2>2, <3>1, YearsAre
    <3>2. CASE k # n + 1
      <4>1. k \in 1..n /\ k - 1 \in 0..n /\ k \in 0..(n + 1) /\ k - 1 \in 0..(n + 1)
        BY <2>2, <3>2
      <4>2. g[k] = f[k] /\ g[k - 1] = f[k - 1]
        BY <2>2, <3>2, <4>1
      <4> QED
        BY <2>3, <4>1, <4>2
    <3> QED
      BY <3>1, <3>2
  <2> HIDE DEF g
  <2>8. Steps(g, n + 1)
    BY <2>5, <2>6, <2>7
  <2> HIDE DEF Steps
  <2>9. \E h : Steps(h, n + 1)
    BY <2>8
  <2> QED
    BY <2>2, <2>9
<1>3. N \in Nat
  BY YearsAre
<1> HIDE DEF S
<1>4. N \in S
  <2> HIDE DEF N
  <2>1. \A k \in 0..N : k \in S
    BY <1>1, <1>2, <1>3, Climb
  <2> QED
    BY <1>3, <2>1
<1>5. PICK f : Steps(f, N)
  BY <1>4 DEF S
<1> DEFINE g == [y \in Years |-> f[y - FirstYear]]
<1>6. ASSUME NEW y \in Years PROVE y - FirstYear \in 0..N /\ f[y - FirstYear] \in Nat
  BY <1>5, YearsAre
<1>7. g \in [Years -> Nat]
  BY <1>6
<1>8. ASSUME NEW y \in Years
      PROVE  g[y] = IF y = FirstYear THEN 0 ELSE g[y - 1] + Length(y - 1)
  <2>1. CASE y = FirstYear
    BY <1>5, <2>1, YearsAre
  <2>2. CASE y # FirstYear
    <3>1. y - 1 \in Years /\ y - FirstYear \in 1..N /\ (y - 1) - FirstYear = (y - FirstYear) - 1
          /\ FirstYear + (y - FirstYear) - 1 = y - 1
      BY <2>2, YearsAre
    <3>2. g[y] = f[y - FirstYear] /\ g[y - 1] = f[(y - FirstYear) - 1]
      BY <3>1
    <3>3. f[y - FirstYear] = f[(y - FirstYear) - 1] + Length(FirstYear + (y - FirstYear) - 1)
      BY <1>5, <3>1
    <3> QED
      BY <2>2, <3>1, <3>2, <3>3
  <2> QED
    BY <2>1, <2>2
<1> HIDE DEF g
<1>9. g = [y \in Years |-> IF y = FirstYear THEN 0
                ELSE g[y - 1] + (IF IsLeap(y - 1) THEN 366 ELSE 365)]
  BY <1>7, <1>8 DEF Length
<1> QED
  BY <1>7, <1>9

LEMMA YearStartIs ==
    /\ YearStart \in [Years -> Nat] /\ YearStart[FirstYear] = 0
    /\ \A y \in Years : y # FirstYear => YearStart[y] = YearStart[y - 1] + Length(y - 1)
<1> DEFINE Next(f) == [y \in Years |-> IF y = FirstYear THEN 0
                ELSE f[y - 1] + (IF IsLeap(y - 1) THEN 366 ELSE 365)]
<1>1. YearStart = Next(YearStart)
  <2>1. \E f : f = Next(f)
    BY ZenonT(40), YearStartExists
  <2>2. YearStart = CHOOSE f : f = Next(f)
    BY Zenon DEF YearStart
  <2> HIDE DEF Next
  <2> QED
    BY <2>1, <2>2, Zenon
<1> DEFINE s == YearStart
<1>2. s = [y \in Years |-> IF y = FirstYear THEN 0 ELSE s[y - 1] + Length(y - 1)]
  BY <1>1 DEF Length
<1> HIDE DEF s
<1>3. s[FirstYear] = 0 /\ \A y \in Years : y # FirstYear => s[y] = s[y - 1] + Length(y - 1)
  <2>1. FirstYear \in Years
    BY YearsAre
  <2> QED
    BY <1>2, <2>1
<1> DEFINE S == {n \in Nat : s[FirstYear + n] \in Nat}
           N == LastYear + 2 - FirstYear
<1>4. \A n \in 0..N : n \in S
  <2>1. 0 \in S
    BY <1>3, YearsAre
  <2>2. ASSUME NEW n \in 0..(N - 1), n \in S PROVE n + 1 \in S
    <3>1. FirstYear + (n + 1) \in Years /\ FirstYear + (n + 1) # FirstYear
          /\ (FirstYear + (n + 1)) - 1 = FirstYear + n
      BY YearsAre
    <3>2. s[FirstYear + (n + 1)] = s[FirstYear + n] + Length(FirstYear + n)
      BY <1>3, <3>1
    <3> QED
      BY <2>2, <3>2, LengthIs
  <2>3. N \in Nat
    BY YearsAre
  <2> HIDE DEF S, N
  <2> QED
    BY <2>1, <2>2, <2>3, Climb
<1>5. ASSUME NEW y \in Years PROVE s[y] \in Nat
  <2>1. y - FirstYear \in 0..N /\ FirstYear + (y - FirstYear) = y
    BY YearsAre
  <2> QED
    BY <1>4, <2>1
<1>6. s \in [Years -> Nat]
  BY <1>2, <1>5
<1> QED
  BY <1>3, <1>6 DEF s

LEMMA Scale ==
    ASSUME NEW a \in Int, NEW b \in Int, NEW T \in Nat \ {0}, a < b
    PROVE  a * T + T <= b * T /\ a * T < b * T
<1>1. b * T - a * T = (b - a) * T
  OBVIOUS
<1>2. (b - a - 1) * T >= 0
  OBVIOUS
<1> QED
  BY <1>1, <1>2

LEMMA Quotient ==
    ASSUME NEW t \in Int, NEW T \in Nat \ {0}
    PROVE  t \div T \in Int /\ (t \div T) * T <= t /\ t < (t \div T) * T + T
  OBVIOUS

LEMMA QuotientOf ==
    ASSUME NEW d \in Int, NEW T \in Nat \ {0}, NEW t \in Int, d * T <= t, t < d * T + T
    PROVE  t \div T = d
<1> DEFINE q == t \div T
<1>1. q \in Int /\ q * T <= t /\ t < q * T + T
  BY Quotient
<1> HIDE DEF q
<1>2. ~(q < d)
  BY <1>1, Scale
<1>3. ~(d < q)
  BY <1>1, Scale
<1> QED
  BY <1>1, <1>2, <1>3 DEF q

\* Years follow each other.
LEMMA YearsAscend ==
    \A y, z \in Years : y < z => YearStart[y] + Length(y) <= YearStart[z]
<1> SUFFICES ASSUME NEW y \in Years PROVE \A z \in Years : y < z => YearStart[y] + Length(y) <= YearStart[z]
  OBVIOUS
<1> DEFINE S == {n \in Nat : YearStart[y] + Length(y) <= YearStart[y + 1 + n]}
           N == LastYear + 2 - (y + 1)
<1>1. CASE N \notin Nat
  <2>1. \A z \in Years : ~(y < z)
    BY <1>1, YearsAre
  <2> QED
    BY <2>1
<1>2. CASE N \in Nat
  <2>1. 0 \in S
    <3>1. y + 1 \in Years /\ y + 1 # FirstYear /\ (y + 1) - 1 = y
      BY <1>2, YearsAre
    <3>2. YearStart[y + 1] = YearStart[y] + Length(y) /\ YearStart[y] \in Nat
      BY <3>1, YearStartIs
    <3> QED
      BY <3>1, <3>2, LengthIs, YearsAre
  <2>2. ASSUME NEW n \in 0..(N - 1), n \in S PROVE n + 1 \in S
    <3>1. /\ y + 1 + n \in Years /\ y + 1 + (n + 1) \in Years /\ y + 1 + (n + 1) # FirstYear
          /\ (y + 1 + (n + 1)) - 1 = y + 1 + n /\ n \in Nat
      BY <1>2, YearsAre
    <3>2. /\ YearStart[y + 1 + (n + 1)] = YearStart[y + 1 + n] + Length(y + 1 + n)
          /\ YearStart[y] \in Nat /\ YearStart[y + 1 + n] \in Nat
      BY <3>1, YearStartIs
    <3> DEFINE p == YearStart[y + 1 + n]
               q == YearStart[y + 1 + (n + 1)]
    <3>3. Length(y) \in Nat /\ Length(y + 1 + n) \in Nat
      BY LengthIs
    <3>4. YearStart[y] + Length(y) <= p
      BY <2>2
    <3> HIDE DEF p, q
    <3>5. YearStart[y] + Length(y) <= q
      BY <3>2, <3>3, <3>4 DEF p, q
    <3> QED
      BY <3>1, <3>5 DEF q
  <2>3. \A n \in 0..N : n \in S
    <3> HIDE DEF S, N
    <3> QED
      BY <1>2, <2>1, <2>2, Climb
  <2>4. ASSUME NEW z \in Years, y < z PROVE YearStart[y] + Length(y) <= YearStart[z]
    <3>1. z - (y + 1) \in 0..N /\ y + 1 + (z - (y + 1)) = z
      BY <2>4, YearsAre
    <3> QED
      BY <2>3, <3>1
  <2> QED
    BY <2>4
<1> QED
  BY <1>1, <1>2

DaysBefore(m) == <<0, 31, 59, 90, 120, 151, 181, 212, 243, 273, 304, 334>>[m]

LEMMA DaysBeforeIs ==
    ASSUME NEW m \in 1..12
    PROVE  /\ DaysBefore(m) \in 0..334 /\ (m = 1 => DaysBefore(m) = 0) /\ (m = 12 => DaysBefore(m) = 334)
           /\ (m = 2 => DaysBefore(m) = 31) /\ (m = 3 => DaysBefore(m) = 59)
           /\ (m < 12 => DaysBefore(m) + 28 <= DaysBefore(m + 1))
<1>1. m \in {1, 2, 3, 4, 5, 6, 7, 8, 9, 10, 11, 12}
  OBVIOUS
<1>2. /\ DaysBefore(1) = 0 /\ DaysBefore(2) = 31 /\ DaysBefore(3) = 59 /\ DaysBefore(4) = 90
      /\ DaysBefore(5) = 120 /\ DaysBefore(6) = 151 /\ DaysBefore(7) = 181 /\ DaysBefore(8) = 212
      /\ DaysBefore(9) = 243 /\ DaysBefore(10) = 273 /\ DaysBefore(11) = 304 /\ DaysBefore(12) = 334
  BY DEF DaysBefore
<1> QED
  BY <1>1, <1>2

\* Months follow each other, and the twelfth ends with its year.
LEMMA MonthsAscend ==
    ASSUME NEW y \in Years, NEW m \in 1..12
    PROVE  /\ MonthStart(y, m) \in Int /\ MonthStart(y, 1) = YearStart[y]
           /\ m < 12 => MonthStart(y, m) + 28 <= MonthStart(y, m + 1)
           /\ MonthStart(y, 12) + 31 = YearStart[y] + Length(y)
<1>1. \A k \in 1..12 : MonthStart(y, k) = YearStart[y] + DaysBefore(k) + (IF k > 2 /\ IsLeap(y) THEN 1 ELSE 0)
  BY DEF MonthStart, DaysBefore
<1>2. YearStart[y] \in Nat
  BY YearStartIs
<1>3. 1 \in 1..12 /\ 12 \in 1..12 /\ m \in Nat /\ (m < 12 => m + 1 \in 1..12)
  OBVIOUS
<1>4. DaysBefore(1) = 0 /\ DaysBefore(12) = 334 /\ DaysBefore(m) \in 0..334
      /\ (m < 12 => DaysBefore(m) + 28 <= DaysBefore(m + 1) /\ DaysBefore(m + 1) \in 0..334)
  BY SMTT(40), <1>3, DaysBeforeIs
<1>5. Length(y) = IF IsLeap(y) THEN 366 ELSE 365
  BY DEF Length
<1>6. MonthStart(y, m) \in Int /\ MonthStart(y, 1) = YearStart[y]
  <2>1. MonthStart(y, m) = YearStart[y] + DaysBefore(m) + (IF m > 2 /\ IsLeap(y) THEN 1 ELSE 0)
    BY <1>1
  <2>2. MonthStart(y, 1) = YearStart[y] + DaysBefore(1) + (IF 1 > 2 /\ IsLeap(y) THEN 1 ELSE 0)
    BY <1>1, <1>3
  <2> QED
    BY <1>2, <1>4, <2>1, <2>2
<1>7. ASSUME m < 12 PROVE MonthStart(y, m) + 28 <= MonthStart(y, m + 1)
  <2>1. /\ MonthStart(y, m) = YearStart[y] + DaysBefore(m) + (IF m > 2 /\ IsLeap(y) THEN 1 ELSE 0)
        /\ MonthStart(y, m + 1) = YearStart[y] + DaysBefore(m + 1) + (IF m + 1 > 2 /\ IsLeap(y) THEN 1 ELSE 0)
    BY <1>1, <1>3, <1>7
  <2>2. DaysBefore(m) \in Nat /\ DaysBefore(m + 1) \in Nat /\ DaysBefore(m) + 28 <= DaysBefore(m + 1)
    BY <1>4, <1>7
  <2>3. m > 2 => m + 1 > 2
    OBVIOUS
  <2> DEFINE p == DaysBefore(m)
             q == DaysBefore(m + 1)
             a == IF m > 2 /\ IsLeap(y) THEN 1 ELSE 0
             b == IF m + 1 > 2 /\ IsLeap(y) THEN 1 ELSE 0
  <2>4. a \in Int /\ b \in Int /\ a <= b
    BY <2>3
  <2>5. MonthStart(y, m) = YearStart[y] + p + a /\ MonthStart(y, m + 1) = YearStart[y] + q + b
        /\ p \in Nat /\ q \in Nat /\ p + 28 <= q
    BY <2>1, <2>2
  <2> HIDE DEF p, q, a, b
  <2> QED
    BY <1>2, <2>4, <2>5
<1>8. MonthStart(y, 12) + 31 = YearStart[y] + Length(y)
  BY <1>1, <1>2, <1>3, <1>4, <1>5
<1> QED
  BY <1>6, <1>7, <1>8

(***************************************************************************)
(* Months, counted through: k is a year and a month of it.                 *)
(***************************************************************************)

Months == (12 * FirstYear)..(12 * (LastYear + 2) + 11)
FirstDay(k) == MonthStart(k \div 12, (k % 12) + 1)

LEMMA MonthIs ==
    ASSUME NEW k \in Months
    PROVE  /\ k \in Nat /\ k \div 12 \in Years /\ (k % 12) + 1 \in 1..12
           /\ k = 12 * (k \div 12) + (k % 12)
           /\ FirstDay(k) \in Int
<1>1. k \in Nat /\ 12 * FirstYear <= k /\ k <= 12 * (LastYear + 2) + 11
  BY YearsAre DEF Months
<1>2. (k % 12) + 1 \in 1..12 /\ k \div 12 \in Nat /\ k = 12 * (k \div 12) + (k % 12)
  <2>1. k \in Nat
    BY <1>1
  <2>2. k % 12 \in 0..11
    BY <2>1
  <2>3. k \div 12 \in Nat
    BY <2>1
  <2>4. k = 12 * (k \div 12) + (k % 12)
    BY <2>1
  <2> QED
    BY <2>2, <2>3, <2>4
<1>3. k \div 12 \in Years
  <2>1. FirstYear <= k \div 12
    BY <1>1, <1>2, YearsAre
  <2>2. k \div 12 <= LastYear + 2
    BY <1>1, <1>2, YearsAre
  <2> QED
    BY <1>2, <2>1, <2>2, YearsAre
<1> QED
  BY <1>1, <1>2, <1>3, MonthsAscend DEF FirstDay

LEMMA MonthOfYear ==
    ASSUME NEW y \in Years, NEW m \in 1..12
    PROVE  /\ 12 * y + m - 1 \in Months /\ (12 * y + m - 1) \div 12 = y
           /\ (12 * y + m - 1) % 12 = m - 1
           /\ FirstDay(12 * y + m - 1) = MonthStart(y, m)
<1>1. /\ 12 * y + m - 1 \in Months /\ (12 * y + m - 1) \div 12 = y
      /\ (12 * y + m - 1) % 12 = m - 1 /\ (m - 1) + 1 = m
  BY YearsAre DEF Months
<1> QED
  BY <1>1 DEF FirstDay

LEMMA NextMonth ==
    ASSUME NEW k \in Months, k + 1 \in Months
    PROVE  FirstDay(k) + 28 <= FirstDay(k + 1)
<1> DEFINE y == k \div 12
           m == (k % 12) + 1
<1>1. k \in Nat /\ y \in Years /\ m \in 1..12 /\ k = 12 * y + m - 1
  BY MonthIs
<1>2. FirstDay(k) = MonthStart(y, m)
  BY DEF FirstDay
<1> HIDE DEF y, m
<1>3. CASE m < 12
  <2>1. m + 1 \in 1..12 /\ k + 1 = 12 * y + (m + 1) - 1
    BY <1>1, <1>3, YearsAre
  <2>2. FirstDay(k + 1) = MonthStart(y, m + 1)
    BY <1>1, <2>1, MonthOfYear
  <2> QED
    BY <1>1, <1>2, <1>3, <2>2, MonthsAscend
<1>4. CASE m = 12
  <2>1. y + 1 \in Years /\ 1 \in 1..12 /\ k + 1 = 12 * (y + 1) + 1 - 1 /\ y \in Int
    BY <1>1, <1>4, YearsAre DEF Months
  <2>2. FirstDay(k + 1) = MonthStart(y + 1, 1)
    BY <2>1, MonthOfYear
  <2>3. MonthStart(y + 1, 1) = YearStart[y + 1] /\ YearStart[y + 1] \in Nat
    BY <2>1, MonthsAscend, YearStartIs
  <2>4. MonthStart(y, 12) + 31 = YearStart[y] + Length(y) /\ MonthStart(y, m) \in Int
    BY <1>1, MonthsAscend
  <2>5. YearStart[y] + Length(y) <= YearStart[y + 1] /\ YearStart[y] \in Nat /\ Length(y) \in Nat
    BY <1>1, <2>1, YearsAscend, YearStartIs, LengthIs
  <2> QED
    BY <1>2, <1>4, <2>2, <2>3, <2>4, <2>5
<1> QED
  BY <1>1, <1>3, <1>4

LEMMA MonthsFollow ==
    ASSUME NEW k \in Months, NEW l \in Months, k < l
    PROVE  FirstDay(k) + 28 <= FirstDay(l)
<1> DEFINE S == {n \in Nat : FirstDay(k) + 28 <= FirstDay(k + 1 + n)}
           N == l - (k + 1)
<1>1. k \in Nat /\ l \in Nat /\ N \in Nat /\ k < l
  <2>1. k \in Nat /\ l \in Nat
    BY MonthIs
  <2> QED
    BY <2>1
<1>2. k + 1 \in Months
  BY <1>1, YearsAre DEF Months
<1>3. 0 \in S
  BY <1>1, <1>2, NextMonth
<1>4. ASSUME NEW n \in 0..(N - 1), n \in S PROVE n + 1 \in S
  <2>1. k + 1 + n \in Months /\ (k + 1 + n) + 1 \in Months
        /\ (k + 1 + n) + 1 = k + 1 + (n + 1)
    BY <1>1, YearsAre DEF Months
  <2>2. FirstDay(k + 1 + n) + 28 <= FirstDay((k + 1 + n) + 1)
    BY <2>1, NextMonth
  <2>3. FirstDay(k) \in Int /\ FirstDay(k + 1 + n) \in Int /\ FirstDay((k + 1 + n) + 1) \in Int
    BY <2>1, MonthIs
  <2>4. FirstDay(k) + 28 <= FirstDay(k + 1 + n)
    BY <1>4
  <2>5. FirstDay(k) + 28 <= FirstDay((k + 1 + n) + 1)
    BY <2>2, <2>3, <2>4
  <2> QED
    BY <2>1, <2>5
<1>5. N \in S
  <2> HIDE DEF S, N
  <2>1. \A n \in 0..N : n \in S
    BY <1>1, <1>3, <1>4, Climb
  <2> QED
    BY <1>1, <2>1
<1>6. k + 1 + N = l
  BY <1>1
<1> QED
  BY <1>5, <1>6

-----------------------------------------------------------------------------
(***************************************************************************)
(* Every day of the calendar lies in a year and a month.                   *)
(***************************************************************************)

LEMMA DaysAre == Days = 0..(YearStart[LastYear + 2] - 1) /\ YearStart[LastYear + 2] \in Nat
  BY YearStartIs, YearsAre DEF Days

LEMMA YearOfDayIs ==
    ASSUME NEW day \in Days
    PROVE  LET y == YearOfDay[day]
           IN  y \in Years /\ y + 1 \in Years /\ YearStart[y] <= day /\ day < YearStart[y + 1]
<1> DEFINE Fits(y) == YearStart[y] <= day /\ day < YearStart[y + 1]
           S == {n \in Nat : YearStart[FirstYear + n] <= day}
           N == LastYear + 2 - FirstYear
<1>1. day \in Nat /\ day < YearStart[LastYear + 2]
  BY DaysAre
<1>2. \E y \in Years \ {LastYear + 2} : Fits(y)
  <2> SUFFICES ASSUME ~ \E y \in Years \ {LastYear + 2} : Fits(y) PROVE FALSE
    OBVIOUS
  <2>1. 0 \in S
    BY <1>1, YearStartIs, YearsAre
  <2>2. ASSUME NEW n \in 0..(N - 1), n \in S PROVE n + 1 \in S
    <3>1. FirstYear + n \in Years \ {LastYear + 2} /\ FirstYear + n + 1 = FirstYear + (n + 1)
          /\ FirstYear + (n + 1) \in Years
      BY YearsAre
    <3>2. ~(day < YearStart[FirstYear + n + 1])
      BY <2>2, <3>1
    <3>3. YearStart[FirstYear + (n + 1)] \in Nat
      BY <3>1, YearStartIs
    <3> QED
      BY <1>1, <3>1, <3>2, <3>3
  <2>3. N \in Nat
    BY YearsAre
  <2>4. N \in S
    <3> HIDE DEF S, N
    <3>1. \A n \in 0..N : n \in S
      BY <2>1, <2>2, <2>3, Climb
    <3> QED
      BY <2>3, <3>1
  <2>5. FirstYear + N = LastYear + 2
    BY YearsAre
  <2> QED
    BY <1>1, <2>4, <2>5, DaysAre
<1>3. YearOfDay[day] = CHOOSE y \in Years \ {LastYear + 2} : Fits(y)
  BY DEF YearOfDay
<1> HIDE DEF Fits
<1>4. YearOfDay[day] \in Years \ {LastYear + 2} /\ Fits(YearOfDay[day])
  BY <1>2, <1>3, Zenon
<1> QED
  BY <1>4, YearsAre DEF Fits

LEMMA MonthOfDayIs ==
    ASSUME NEW day \in Days
    PROVE  LET y == YearOfDay[day]
               m == MonthOfDay[day]
           IN  /\ m \in 1..12 /\ MonthStart(y, m) <= day
               /\ m = 12 \/ day < MonthStart(y, m + 1)
<1> DEFINE y == YearOfDay[day]
           Fits(m) == MonthStart(y, m) <= day /\ (m = 12 \/ day < MonthStart(y, m + 1))
           S == {n \in Nat : MonthStart(y, 1 + n) <= day}
<1>1. MonthOfDay[day] = CHOOSE m \in 1..12 : Fits(m)
  BY DEF MonthOfDay
<1>2. day \in Nat /\ y \in Years /\ YearStart[y] <= day
  BY YearOfDayIs, DaysAre
<1> HIDE DEF y
<1>3. \E m \in 1..12 : Fits(m)
  <2> SUFFICES ASSUME ~ \E m \in 1..12 : Fits(m) PROVE FALSE
    OBVIOUS
  <2>1. 0 \in S
    <3>1. MonthStart(y, 1) = YearStart[y]
      BY <1>2, MonthsAscend
    <3> QED
      BY <1>2, <3>1
  <2>2. ASSUME NEW n \in 0..(11 - 1), n \in S PROVE n + 1 \in S
    <3>1. 1 + n \in 1..12 /\ 1 + n # 12 /\ 1 + n + 1 = 1 + (n + 1) /\ 1 + (n + 1) \in 1..12 /\ n + 1 \in Nat
      OBVIOUS
    <3>2. ~(day < MonthStart(y, 1 + (n + 1)))
      BY <2>2, <3>1
    <3>3. MonthStart(y, 1 + (n + 1)) \in Int
      BY <1>2, <3>1, MonthsAscend
    <3> QED
      BY <1>2, <3>1, <3>2, <3>3
  <2>3. 11 \in S
    <3> HIDE DEF S
    <3>1. \A n \in 0..11 : n \in S
      BY <2>1, <2>2, Climb
    <3> QED
      BY <3>1
  <2>4. MonthStart(y, 12) <= day
    BY <2>3
  <2> QED
    BY <2>4
<1> HIDE DEF Fits
<1>4. MonthOfDay[day] \in 1..12 /\ Fits(MonthOfDay[day])
  BY <1>1, <1>3, Zenon
<1> QED
  BY <1>4 DEF Fits, y

\* The number of the month a day lies in.
LEMMA DayInMonth ==
    ASSUME NEW day \in Days
    PROVE  LET y == YearOfDay[day]
               m == MonthOfDay[day]
               k == 12 * y + m - 1
           IN  /\ y \in Years /\ y + 1 \in Years /\ m \in 1..12
               /\ k \in Months /\ k + 1 \in Months /\ k \div 12 = y /\ k % 12 = m - 1
               /\ FirstDay(k) = MonthStart(y, m)
               /\ FirstDay(k) <= day /\ day < FirstDay(k + 1)
               /\ FirstDay(12 * y) = YearStart[y]
<1> DEFINE y == YearOfDay[day]
           m == MonthOfDay[day]
           k == 12 * y + m - 1
<1>1. y \in Years /\ y + 1 \in Years /\ YearStart[y] <= day /\ day < YearStart[y + 1]
  BY YearOfDayIs
<1>2. m \in 1..12 /\ MonthStart(y, m) <= day /\ (m = 12 \/ day < MonthStart(y, m + 1))
  BY MonthOfDayIs
<1> HIDE DEF y, m
<1>3. k \in Months /\ k \div 12 = y /\ k % 12 = m - 1 /\ FirstDay(k) = MonthStart(y, m)
  BY <1>1, <1>2, MonthOfYear
<1>4. k + 1 \in Months
  BY <1>1, <1>2, <1>3, YearsAre DEF Months
<1>5. day < FirstDay(k + 1)
  <2>1. CASE m < 12
    <3>1. m + 1 \in 1..12 /\ 12 * y + (m + 1) - 1 = k + 1
      BY <1>1, <1>2, <2>1, YearsAre
    <3>2. FirstDay(k + 1) = MonthStart(y, m + 1)
      BY <1>1, <3>1, MonthOfYear
    <3> QED
      BY <1>2, <2>1, <3>2
  <2>2. CASE m = 12
    <3>1. 1 \in 1..12 /\ 12 * (y + 1) + 1 - 1 = k + 1
      BY <1>1, <2>2, YearsAre
    <3>2. FirstDay(k + 1) = MonthStart(y + 1, 1) /\ MonthStart(y + 1, 1) = YearStart[y + 1]
      BY <1>1, <3>1, MonthOfYear, MonthsAscend
    <3> QED
      BY <1>1, <3>2
  <2> QED
    BY <1>2, <2>1, <2>2
<1>6. FirstDay(12 * y) = YearStart[y]
  <2>1. 1 \in 1..12 /\ 12 * y + 1 - 1 = 12 * y
    BY <1>1, YearsAre
  <2> QED
    BY <1>1, <2>1, MonthOfYear, MonthsAscend
<1> QED
  BY <1>1, <1>2, <1>3, <1>4, <1>5, <1>6 DEF y, m

-----------------------------------------------------------------------------
(***************************************************************************)
(* Buckets, counted through as well: the j-th of a grain starts on a day,  *)
(* every moment lies in one, and shifting adds to the count.  The months   *)
(* of the calendar end, so a bucket made of months must be one of them.    *)
(***************************************************************************)

Origin == WeekdayOfStart(FirstYear)
ByMonths == {"month", "quarter", "year"}
Wide(g) == CASE g = "month" -> 1 [] g = "quarter" -> 3 [] g = "year" -> 12

FirstDayOf(g, j) ==
    CASE g = "day" -> j
      [] g = "week" -> 7 * j - Origin
      [] g \in ByMonths -> FirstDay(Wide(g) * j)
Begin(g, j) == FirstDayOf(g, j) * TicksPerDay

IndexOfDay(g, day) ==
    CASE g = "day" -> day
      [] g = "week" -> (Origin + day) \div 7
      [] g = "month" -> 12 * YearOfDay[day] + MonthOfDay[day] - 1
      [] g = "quarter" -> 4 * YearOfDay[day] + ((MonthOfDay[day] - 1) \div 3)
      [] g = "year" -> YearOfDay[day]

InCalendar(g, j) == j \in Int /\ (g \in ByMonths => Wide(g) * j \in Months)
Shiftable(g, j) == InCalendar(g, j) /\ (g \in ByMonths => Wide(g) * j < 12 * (LastYear + 2))

LEMMA WideIs == Wide("month") = 1 /\ Wide("quarter") = 3 /\ Wide("year") = 12
  BY DEF Wide

LEMMA OriginIs == Origin \in 0..6
<1>1. (5 + 365 * (FirstYear - 2000) + (FirstYear - 2000 + 3) \div 4) \in Int
  BY YearsAre
<1> QED
  BY <1>1 DEF Origin, WeekdayOfStart

LEMMA FirstDayOfIs ==
    /\ \A j : FirstDayOf("day", j) = j
    /\ \A j : FirstDayOf("week", j) = 7 * j - Origin
    /\ \A g \in ByMonths : \A j : FirstDayOf(g, j) = FirstDay(Wide(g) * j)
<1>1. \A j : FirstDayOf("day", j) = j
  BY DEF FirstDayOf, ByMonths
<1>2. \A j : FirstDayOf("week", j) = 7 * j - Origin
  BY DEF FirstDayOf, ByMonths
<1>3. \A g \in ByMonths : \A j : FirstDayOf(g, j) = FirstDay(Wide(g) * j)
  BY DEF FirstDayOf, ByMonths
<1> QED
  BY <1>1, <1>2, <1>3

LEMMA GrainIs == ASSUME NEW g \in Grain PROVE g = "day" \/ g = "week" \/ g \in ByMonths
  BY DEF Grain, ByMonths

LEMMA WideNat == ASSUME NEW g \in ByMonths PROVE Wide(g) \in {1, 3, 12}
  BY WideIs DEF ByMonths

\* A later bucket starts later.
LEMMA BucketsFollow ==
    ASSUME NEW g \in Grain, NEW i, NEW j, InCalendar(g, i), InCalendar(g, j), i < j
    PROVE  /\ Begin(g, i) \in Int /\ Begin(g, j) \in Int
           /\ Begin(g, i) + TicksPerDay <= Begin(g, j) /\ Begin(g, i) < Begin(g, j)
<1>1. i \in Int /\ j \in Int
  BY DEF InCalendar
<1>2. FirstDayOf(g, i) \in Int /\ FirstDayOf(g, j) \in Int /\ FirstDayOf(g, i) < FirstDayOf(g, j)
  <2>1. CASE g = "day"
    BY <1>1, <2>1, FirstDayOfIs
  <2>2. CASE g = "week"
    BY <1>1, <2>2, FirstDayOfIs, OriginIs
  <2>3. CASE g \in ByMonths
    <3>1. Wide(g) * i \in Months /\ Wide(g) * j \in Months
      BY <2>3 DEF InCalendar
    <3>2. Wide(g) * i < Wide(g) * j
      BY <1>1, <2>3, WideNat
    <3>3. FirstDay(Wide(g) * i) + 28 <= FirstDay(Wide(g) * j)
      BY <3>1, <3>2, MonthsFollow
    <3>4. FirstDay(Wide(g) * i) \in Int /\ FirstDay(Wide(g) * j) \in Int
      BY <3>1, MonthIs
    <3>5. FirstDayOf(g, i) = FirstDay(Wide(g) * i) /\ FirstDayOf(g, j) = FirstDay(Wide(g) * j)
      BY <2>3, FirstDayOfIs
    <3> QED
      BY <3>3, <3>4, <3>5
  <2> QED
    BY <2>1, <2>2, <2>3, GrainIs
<1> DEFINE a == FirstDayOf(g, i)
           b == FirstDayOf(g, j)
<1>3. a \in Int /\ b \in Int /\ a < b
  BY <1>2
<1>4. Begin(g, i) = a * TicksPerDay /\ Begin(g, j) = b * TicksPerDay
  BY DEF Begin
<1> HIDE DEF a, b
<1>5. TicksPerDay \in Nat \ {0}
  BY YearsAre
<1>6. a * TicksPerDay + TicksPerDay <= b * TicksPerDay /\ a * TicksPerDay < b * TicksPerDay
  BY <1>3, <1>5, Scale
<1>7. a * TicksPerDay \in Int /\ b * TicksPerDay \in Int
  BY <1>3, <1>5
<1> QED
  BY <1>4, <1>6, <1>7

\* The bucket a day lies in.
LEMMA DayInBucket ==
    ASSUME NEW g \in Grain, NEW day \in Days
    PROVE  LET j == IndexOfDay(g, day)
           IN  /\ Shiftable(g, j) /\ InCalendar(g, j + 1)
               /\ FirstDayOf(g, j) <= day /\ day < FirstDayOf(g, j + 1)
               /\ FirstDayOf(g, j) \in Int /\ FirstDayOf(g, j + 1) \in Int
<1> DEFINE j == IndexOfDay(g, day)
           y == YearOfDay[day]
           m == MonthOfDay[day]
           k == 12 * y + m - 1
<1>1. day \in Nat
  BY DaysAre
<1>2. CASE g = "day"
  <2>1. j = day
    BY <1>2 DEF IndexOfDay
  <2> QED
    BY <1>1, <1>2, <2>1, FirstDayOfIs DEF Shiftable, InCalendar, ByMonths
<1>3. CASE g = "week"
  <2>1. j = (Origin + day) \div 7
    BY <1>3 DEF IndexOfDay
  <2> HIDE DEF j
  <2>2. j \in Int /\ 7 * j <= Origin + day /\ Origin + day < 7 * (j + 1)
    BY <1>1, <2>1, OriginIs
  <2>3. Shiftable(g, j) /\ InCalendar(g, j + 1)
    BY <1>3, <2>2 DEF Shiftable, InCalendar, ByMonths
  <2>4. FirstDayOf(g, j) = 7 * j - Origin /\ FirstDayOf(g, j + 1) = 7 * (j + 1) - Origin
    BY <1>3, FirstDayOfIs
  <2>5. /\ FirstDayOf(g, j) <= day /\ day < FirstDayOf(g, j + 1)
        /\ FirstDayOf(g, j) \in Int /\ FirstDayOf(g, j + 1) \in Int
    BY <1>1, <2>2, <2>4, OriginIs
  <2> QED
    BY <2>3, <2>5 DEF j
<1>4. CASE g \in ByMonths
  <2>1. /\ y \in Years /\ y + 1 \in Years /\ m \in 1..12
        /\ k \in Months /\ k + 1 \in Months
        /\ FirstDay(k) <= day /\ day < FirstDay(k + 1)
    BY DayInMonth
  <2>2. /\ g = "month" => j = 12 * y + m - 1
        /\ g = "quarter" => j = 4 * y + ((m - 1) \div 3)
        /\ g = "year" => j = y
    BY DEF IndexOfDay
  <2> DEFINE w == Wide(g)
  <2>3. /\ g = "month" => w = 1
        /\ g = "quarter" => w = 3
        /\ g = "year" => w = 12
    BY WideIs
  <2> HIDE DEF j, y, m, w
  <2>4. g = "month" \/ g = "quarter" \/ g = "year"
    BY <1>4 DEF ByMonths
  <2>5. y \in Int /\ y <= LastYear + 1 /\ y >= FirstYear /\ y \in Nat
    BY <2>1, YearsAre
  <2>6. j \in Int /\ w \in {1, 3, 12} /\ w * j <= k /\ k + 1 <= w * (j + 1)
        /\ 12 * y <= w * j /\ w * (j + 1) <= 12 * y + 12
    <3>1. CASE g = "month"
      BY <2>1, <2>2, <2>3, <2>5, <3>1
    <3>2. CASE g = "quarter"
      <4> DEFINE q == (m - 1) \div 3
      <4>1. q \in 0..3 /\ 3 * q <= m - 1 /\ m <= 3 * q + 3
        BY <2>1
      <4>2. j = 4 * y + q /\ w = 3
        BY <2>2, <2>3, <3>2
      <4> HIDE DEF q
      <4> QED
        BY <2>1, <2>5, <4>1, <4>2
    <3>3. CASE g = "year"
      BY <2>1, <2>2, <2>3, <2>5, <3>3
    <3> QED
      BY <2>4, <3>1, <3>2, <3>3
  <2>7. w * j \in Int /\ w * (j + 1) \in Int /\ k \in Nat
    BY <2>1, <2>6, MonthIs
  <2>8. w * j \in Months /\ w * j < 12 * (LastYear + 2) /\ w * (j + 1) \in Months
    BY <2>5, <2>6, <2>7, YearsAre DEF Months
  <2>9. FirstDay(w * j) <= FirstDay(k)
    <3>1. CASE w * j = k
      BY <2>1, <3>1, MonthIs
    <3>2. CASE w * j < k
      <4>1. FirstDay(w * j) + 28 <= FirstDay(k)
        BY <2>1, <2>8, <3>2, MonthsFollow
      <4> QED
        BY <2>1, <2>8, <4>1, MonthIs
    <3> QED
      BY <2>6, <2>7, <3>1, <3>2
  <2>10. FirstDay(k + 1) <= FirstDay(w * (j + 1))
    <3>1. CASE w * (j + 1) = k + 1
      BY <2>1, <3>1, MonthIs
    <3>2. CASE k + 1 < w * (j + 1)
      <4>1. FirstDay(k + 1) + 28 <= FirstDay(w * (j + 1))
        BY <2>1, <2>8, <3>2, MonthsFollow
      <4> QED
        BY <2>1, <2>8, <4>1, MonthIs
    <3> QED
      BY <2>6, <2>7, <3>1, <3>2
  <2>11. /\ FirstDay(w * j) \in Int /\ FirstDay(w * (j + 1)) \in Int
         /\ FirstDay(k) \in Int /\ FirstDay(k + 1) \in Int
    BY <2>1, <2>8, MonthIs
  <2>12. FirstDayOf(g, j) = FirstDay(w * j) /\ FirstDayOf(g, j + 1) = FirstDay(w * (j + 1))
    BY <1>4, FirstDayOfIs DEF w
  <2>13. Shiftable(g, j) /\ InCalendar(g, j + 1)
    BY <2>6, <2>8 DEF Shiftable, InCalendar, w
  <2>14. FirstDay(w * j) <= day /\ day < FirstDay(w * (j + 1))
    BY <1>1, <2>1, <2>9, <2>10, <2>11
  <2> QED
    BY <2>11, <2>12, <2>13, <2>14 DEF j
<1> QED
  BY <1>2, <1>3, <1>4, GrainIs

Index(g, t) == IndexOfDay(g, DayOf(t))
Dateable(t) == t \in Int /\ DayOf(t) \in Days

LEMMA BucketStartIs ==
    ASSUME NEW g \in Grain, NEW t, Dateable(t)
    PROVE  BucketStart(t, g) = Begin(g, Index(g, t))
<1> DEFINE day == DayOf(t)
           y == YearOfDay[day]
           m == MonthOfDay[day]
<1>1. day \in Days /\ day \in Nat
  BY DaysAre DEF Dateable
<1>2. YearOf(t) = y /\ MonthOf(t) = m
  BY DEF YearOf, MonthOf
<1>3. y \in Years /\ m \in 1..12 /\ y \in Nat
  BY <1>1, DayInMonth, YearsAre
<1>4. CASE g = "day"
  BY <1>4, FirstDayOfIs DEF BucketStart, Begin, Index, IndexOfDay
<1>5. CASE g = "week"
  <2>1. BucketStart(t, g) = (day - Weekday(t)) * TicksPerDay
    BY <1>5 DEF BucketStart
  <2>2. Weekday(t) = (Origin + day) % 7
    BY DEF Weekday, Origin
  <2>3. Index(g, t) = (Origin + day) \div 7
    BY <1>5 DEF Index, IndexOfDay
  <2> HIDE DEF day
  <2>4. day - ((Origin + day) % 7) = 7 * ((Origin + day) \div 7) - Origin
    BY <1>1, OriginIs
  <2>5. FirstDayOf(g, Index(g, t)) = 7 * ((Origin + day) \div 7) - Origin
    BY <1>5, <2>3, FirstDayOfIs
  <2> QED
    BY <2>1, <2>2, <2>4, <2>5 DEF Begin
<1>6. CASE g \in ByMonths
  <2> DEFINE n == CASE g = "month" -> m
                    [] g = "quarter" -> 3 * ((m - 1) \div 3) + 1
                    [] g = "year" -> 1
             j == Index(g, t)
             w == Wide(g)
  <2>1. g = "month" \/ g = "quarter" \/ g = "year"
    BY <1>6 DEF ByMonths
  <2>2. BucketStart(t, g) = FirstOf(y, n)
    BY <1>2, <2>1 DEF BucketStart
  <2>3. /\ g = "month" => n = m /\ w = 1 /\ j = 12 * y + m - 1
        /\ g = "quarter" => n = 3 * ((m - 1) \div 3) + 1 /\ w = 3 /\ j = 4 * y + ((m - 1) \div 3)
        /\ g = "year" => n = 1 /\ w = 12 /\ j = y
    BY WideIs DEF Index, IndexOfDay
  <2>4. FirstDayOf(g, j) = FirstDay(w * j)
    BY <1>6, FirstDayOfIs
  <2> HIDE DEF n, j, w, m, y
  <2>5. n \in 1..12 /\ w * j = 12 * y + n - 1
    <3>1. CASE g = "month"
      BY <1>3, <2>3, <3>1
    <3>2. CASE g = "quarter"
      <4> DEFINE q == (m - 1) \div 3
      <4>1. q \in 0..3
        BY <1>3
      <4>2. n = 3 * q + 1 /\ w = 3 /\ j = 4 * y + q
        BY <2>3, <3>2
      <4> HIDE DEF q
      <4> QED
        BY <1>3, <4>1, <4>2
    <3>3. CASE g = "year"
      BY <1>3, <2>3, <3>3
    <3> QED
      BY <2>1, <3>1, <3>2, <3>3
  <2>6. FirstDay(w * j) = MonthStart(y, n)
    BY <1>3, <2>5, MonthOfYear
  <2> QED
    BY <2>2, <2>4, <2>6 DEF FirstOf, Begin, j
<1> QED
  BY <1>4, <1>5, <1>6, GrainIs

\* Every moment lies in its bucket, which is one of the calendar.
LEMMA MomentInBucket ==
    ASSUME NEW g \in Grain, NEW t, Dateable(t)
    PROVE  LET j == Index(g, t)
           IN  /\ BucketStart(t, g) = Begin(g, j) /\ Shiftable(g, j) /\ InCalendar(g, j + 1)
               /\ Begin(g, j) \in Int /\ Begin(g, j + 1) \in Int
               /\ Begin(g, j) <= t /\ t < Begin(g, j + 1)
<1> DEFINE j == Index(g, t)
           day == DayOf(t)
           a == FirstDayOf(g, j)
           b == FirstDayOf(g, j + 1)
           T == TicksPerDay
<1>1. day \in Days /\ day \in Nat /\ t \in Int
  BY DaysAre DEF Dateable
<1>2. /\ Shiftable(g, j) /\ InCalendar(g, j + 1)
      /\ a <= day /\ day < b /\ a \in Int /\ b \in Int
  BY <1>1, DayInBucket DEF Index
<1>3. T \in Nat \ {0} /\ day = t \div T
  BY YearsAre DEF DayOf
<1>4. Begin(g, j) = a * T /\ Begin(g, j + 1) = b * T
  BY DEF Begin
<1> HIDE DEF j, day, a, b, T
<1>5. day * T <= t /\ t < day * T + T
  BY <1>1, <1>3, Quotient
<1>6. a * T \in Int /\ b * T \in Int /\ day * T \in Int
  BY <1>1, <1>2, <1>3
<1>7. a * T <= day * T
  <2>1. CASE a = day
    BY <1>6, <2>1
  <2>2. CASE a < day
    BY <1>1, <1>2, <1>3, <2>2, Scale
  <2> QED
    BY <1>1, <1>2, <2>1, <2>2
<1>8. day * T + T <= b * T
  BY <1>1, <1>2, <1>3, Scale
<1>9. Begin(g, j) <= t /\ t < Begin(g, j + 1)
  <2>1. T \in Int
    BY <1>3
  <2> DEFINE p == a * T
             q == b * T
             r == day * T
  <2>2. p \in Int /\ q \in Int /\ r \in Int /\ r <= t /\ t < r + T /\ p <= r /\ r + T <= q
    BY <1>5, <1>6, <1>7, <1>8
  <2> HIDE DEF p, q, r
  <2>3. p <= t /\ t < q
    BY <1>1, <2>1, <2>2
  <2> QED
    BY <1>4, <2>3 DEF p, q
<1> QED
  BY <1>2, <1>4, <1>6, <1>9, BucketStartIs DEF j

\* The day a bucket starts on.
LEMMA FirstDayIsDay ==
    ASSUME NEW g \in ByMonths, NEW j, Shiftable(g, j)
    PROVE  LET k == Wide(g) * j
           IN  /\ DayOf(Begin(g, j)) = FirstDay(k)
               /\ FirstDay(k) \in Days
               /\ YearOfDay[FirstDay(k)] = k \div 12 /\ MonthOfDay[FirstDay(k)] = (k % 12) + 1
<1> DEFINE k == Wide(g) * j
           d == FirstDay(k)
           T == TicksPerDay
<1>1. k \in Months /\ k < 12 * (LastYear + 2) /\ j \in Int
  BY DEF Shiftable, InCalendar
<1>2. Begin(g, j) = d * T
  BY FirstDayOfIs DEF Begin
<1> HIDE DEF k
<1>3. d \in Int /\ T \in Nat \ {0} /\ k \in Nat
  BY <1>1, MonthIs, YearsAre
<1>4. DayOf(Begin(g, j)) = d
  <2> HIDE DEF d, T
  <2>1. d * T \in Int /\ d * T <= d * T /\ d * T < d * T + T
    BY <1>3
  <2>2. (d * T) \div T = d
    BY <1>3, <2>1, QuotientOf
  <2> QED
    BY <1>2, <2>2 DEF DayOf, T
<1>5. d \in Days
  <2>1. /\ 12 * FirstYear \in Months /\ 12 * (LastYear + 2) \in Months
        /\ FirstDay(12 * FirstYear) = YearStart[FirstYear]
        /\ FirstDay(12 * (LastYear + 2)) = YearStart[LastYear + 2]
    <3>1. FirstYear \in Years /\ LastYear + 2 \in Years /\ 1 \in 1..12
          /\ 12 * FirstYear + 1 - 1 = 12 * FirstYear
          /\ 12 * (LastYear + 2) + 1 - 1 = 12 * (LastYear + 2)
      BY YearsAre
    <3>2. FirstDay(12 * FirstYear) = MonthStart(FirstYear, 1) /\ 12 * FirstYear \in Months
      BY <3>1, MonthOfYear
    <3>3. FirstDay(12 * (LastYear + 2)) = MonthStart(LastYear + 2, 1) /\ 12 * (LastYear + 2) \in Months
      BY <3>1, MonthOfYear
    <3> QED
      BY <3>1, <3>2, <3>3, MonthsAscend
  <2>2. 0 <= d
    <3>1. CASE k = 12 * FirstYear
      BY <2>1, <3>1, YearStartIs
    <3>2. CASE 12 * FirstYear < k
      <4>1. FirstDay(12 * FirstYear) + 28 <= d
        BY <1>1, <2>1, <3>2, MonthsFollow
      <4> QED
        BY <1>3, <2>1, <4>1, YearStartIs
    <3> QED
      BY <1>1, <1>3, <3>1, <3>2, YearsAre DEF Months
  <2>3. d < YearStart[LastYear + 2]
    <3>1. d + 28 <= FirstDay(12 * (LastYear + 2))
      BY <1>1, <2>1, MonthsFollow
    <3> QED
      BY <1>3, <2>1, <3>1, DaysAre
  <2> QED
    BY <1>3, <2>2, <2>3, DaysAre
<1> DEFINE y == YearOfDay[d]
           m == MonthOfDay[d]
           l == 12 * y + m - 1
<1>6. /\ l \in Months /\ l + 1 \in Months /\ l \div 12 = y /\ l % 12 = m - 1 /\ m \in 1..12
      /\ FirstDay(l) <= d /\ d < FirstDay(l + 1)
  BY <1>5, DayInMonth
<1> HIDE DEF y, m, l
<1>7. l \in Nat /\ FirstDay(l) \in Int /\ FirstDay(l + 1) \in Int
  BY <1>6, MonthIs
<1>8. ~(k < l)
  <2> SUFFICES ASSUME k < l PROVE FALSE
    OBVIOUS
  <2>1. d + 28 <= FirstDay(l)
    BY <1>1, <1>6, MonthsFollow
  <2> QED
    BY <1>3, <1>6, <1>7, <2>1
<1>9. ~(l + 1 <= k)
  <2> SUFFICES ASSUME l + 1 <= k PROVE FALSE
    OBVIOUS
  <2>1. CASE l + 1 = k
    BY <1>3, <1>6, <2>1
  <2>2. CASE l + 1 < k
    <3>1. FirstDay(l + 1) + 28 <= d
      BY <1>1, <1>6, <2>2, MonthsFollow
    <3> QED
      BY <1>3, <1>6, <1>7, <3>1
  <2> QED
    BY <1>3, <1>7, <2>1, <2>2
<1>10. l = k
  BY <1>3, <1>7, <1>8, <1>9
<1>11. y = k \div 12 /\ m = (k % 12) + 1
  BY <1>6, <1>10
<1> QED
  BY <1>4, <1>5, <1>11 DEF k, y, m

LEMMA ShiftIs ==
    ASSUME NEW g \in Grain, NEW j, Shiftable(g, j), NEW n \in Int, InCalendar(g, j + n)
    PROVE  Shift(Begin(g, j), g, n) = Begin(g, j + n)
<1> DEFINE t == Begin(g, j)
           T == TicksPerDay
<1>1. j \in Int /\ T \in Nat \ {0}
  BY YearsAre DEF Shiftable, InCalendar
<1>2. CASE g = "day"
  <2>1. t = j * T /\ Begin(g, j + n) = (j + n) * T
    BY <1>2, FirstDayOfIs DEF Begin
  <2>2. Shift(t, g, n) = t + n * T
    BY <1>2 DEF Shift
  <2>3. (j + n) * T = j * T + n * T
    BY <1>1
  <2> QED
    BY <2>1, <2>2, <2>3
<1>3. CASE g = "week"
  <2>1. t = (7 * j - Origin) * T /\ Begin(g, j + n) = (7 * (j + n) - Origin) * T
    BY <1>3, FirstDayOfIs DEF Begin
  <2>2. Shift(t, g, n) = t + 7 * n * T
    BY <1>3 DEF Shift
  <2> HIDE DEF T, t
  <2>3. (7 * (j + n) - Origin) * T = (7 * j - Origin) * T + 7 * n * T
    BY <1>1, OriginIs
  <2> QED
    BY <2>1, <2>2, <2>3 DEF t, T
<1>4. CASE g \in ByMonths
  <2> DEFINE w == Wide(g)
             k == w * j
  <2>1. /\ DayOf(t) = FirstDay(k)
        /\ YearOfDay[FirstDay(k)] = k \div 12 /\ MonthOfDay[FirstDay(k)] = (k % 12) + 1
    BY <1>4, FirstDayIsDay
  <2>2. YearOf(t) = k \div 12 /\ MonthOf(t) = (k % 12) + 1
    BY <2>1 DEF YearOf, MonthOf
  <2>3. k \in Months /\ w * (j + n) \in Months /\ w \in {1, 3, 12}
    BY <1>4, WideNat DEF Shiftable, InCalendar
  <2>4. w * (j + n) = k + w * n
    BY <1>1, <2>3
  <2>5. Begin(g, j + n) = FirstDay(w * (j + n)) * T /\ t = FirstDay(k) * T
    BY <1>4, FirstDayOfIs DEF Begin
  <2>6. w = 1 \/ w = 3 \/ w = 12
    BY <2>3
  <2> HIDE DEF k, w, t
  <2>7. k \in Nat /\ k = 12 * (k \div 12) + (k % 12) /\ k \div 12 \in Years
    BY <2>3, MonthIs
  <2>8. ASSUME g # "year" PROVE Shift(t, g, n) = Begin(g, j + n)
    <3> DEFINE s == IF g = "month" THEN n ELSE 3 * n
    <3>1. g = "month" \/ g = "quarter"
      BY <1>4, <2>8 DEF ByMonths
    <3>2. Shift(t, g, n) = AddMonths(t, s)
      BY <3>1 DEF Shift
    <3>3. s = w * n
      BY <3>1, WideIs DEF w
    <3>4. AddMonths(t, s) = MonthNumber(12 * (k \div 12) + ((k % 12) + 1) - 1 + s)
      BY <2>2 DEF AddMonths
    <3>5. 12 * (k \div 12) + ((k % 12) + 1) - 1 + s = k + w * n
      <4> HIDE DEF s
      <4> DEFINE r == k % 12
                 v == k \div 12
      <4>1. r \in Int /\ v \in Int /\ k = 12 * v + r
        BY <2>7
      <4>2. w * n \in Int
        BY <2>6
      <4> HIDE DEF r, v
      <4>3. 12 * v + (r + 1) - 1 + s = k + w * n
        BY <2>7, <3>3, <4>1, <4>2
      <4> QED
        BY <4>3 DEF r, v
    <3>6. MonthNumber(k + w * n) = FirstDay(k + w * n) * T
      BY DEF MonthNumber, FirstOf, FirstDay
    <3> QED
      BY <2>4, <2>5, <3>2, <3>4, <3>5, <3>6
  <2>9. ASSUME g = "year" PROVE Shift(t, g, n) = Begin(g, j + n)
    <3>1. w = 12 /\ k = 12 * j
      BY <2>9, WideIs DEF w, k
    <3>2. k \div 12 = j /\ (k % 12) + 1 = 1
      BY <1>1, <3>1
    <3>3. Shift(t, g, n) = FirstOf(j + n, 1) + t - FirstOf(j, 1)
      BY <2>2, <2>9, <3>2 DEF Shift
    <3>4. (12 * (j + n)) \div 12 = j + n /\ ((12 * (j + n)) % 12) + 1 = 1
      BY <1>1
    <3>5. FirstDay(12 * (j + n)) = MonthStart(j + n, 1)
      BY <3>4 DEF FirstDay
    <3>6. FirstDay(k) = MonthStart(j, 1)
      BY <3>2 DEF FirstDay
    <3>7. Begin(g, j + n) = FirstOf(j + n, 1) /\ t = FirstOf(j, 1)
      BY <2>5, <3>1, <3>5, <3>6 DEF FirstOf
    <3>8. FirstOf(j + n, 1) \in Int /\ FirstOf(j, 1) \in Int
      <4>1. FirstDay(12 * (j + n)) \in Int /\ FirstDay(k) \in Int
        BY <2>3, <3>1, MonthIs
      <4> QED
        BY <1>1, <3>5, <3>6, <4>1 DEF FirstOf
    <3> DEFINE p == FirstOf(j + n, 1)
               q == FirstOf(j, 1)
    <3> HIDE DEF p, q
    <3>9. p + q - q = p
      BY <3>8 DEF p, q
    <3> QED
      BY <3>3, <3>7, <3>9 DEF p, q
  <2> QED
    BY <2>8, <2>9 DEF t
<1> QED
  BY <1>2, <1>3, <1>4, GrainIs

-----------------------------------------------------------------------------
(***************************************************************************)
(* Moments in the years the calendar covers.                               *)
(***************************************************************************)

LEMMA CoveredIs ==
    ASSUME NEW t \in Int, Covered(t)
    PROVE  /\ t \in Nat /\ Dateable(t)
           /\ YearOf(t) \in (FirstYear + 1)..LastYear
<1> DEFINE T == TicksPerDay
           a == YearStart[FirstYear + 1]
           b == YearStart[LastYear + 1]
           day == DayOf(t)
           y == YearOfDay[day]
<1>1. FirstYear + 1 \in Years /\ LastYear + 1 \in Years /\ LastYear + 2 \in Years
  BY YearsAre
<1>2. a \in Nat /\ b \in Nat /\ YearStart[LastYear + 2] \in Nat /\ T \in Nat \ {0}
  BY <1>1, YearStartIs, YearsAre
<1>3. a * T <= t /\ t < b * T
  BY DEF Covered
<1>4. b <= YearStart[LastYear + 2]
  <2>1. LastYear + 1 < LastYear + 2
    BY YearsAre
  <2>2. b + Length(LastYear + 1) <= YearStart[LastYear + 2]
    BY <1>1, <2>1, YearsAscend
  <2> QED
    BY <1>2, <2>2, LengthIs
<1>5. day \in Int /\ day * T <= t /\ t < day * T + T
  BY <1>2, Quotient DEF DayOf
<1> HIDE DEF a, b, T, day
<1>6. a * T \in Int /\ b * T \in Int /\ day * T \in Int
  BY <1>2, <1>5
<1>7. a <= day /\ day < b
  <2>1. ~(day < a)
    <3> SUFFICES ASSUME day < a PROVE FALSE
      OBVIOUS
    <3>1. day * T + T <= a * T
      BY <1>2, <1>5, Scale
    <3> QED
      BY <1>2, <1>3, <1>5, <1>6, <3>1
  <2>2. ~(b <= day)
    <3> SUFFICES ASSUME b <= day PROVE FALSE
      OBVIOUS
    <3>1. b * T <= day * T
      <4>1. CASE b = day
        BY <1>6, <4>1
      <4>2. CASE b < day
        BY <1>2, <1>5, <4>2, Scale
      <4> QED
        BY <1>2, <1>5, <4>1, <4>2
    <3> QED
      BY <1>3, <1>5, <1>6, <3>1
  <2> QED
    BY <1>2, <1>5, <2>1, <2>2
<1>8. day \in Days
  BY <1>2, <1>4, <1>5, <1>7, DaysAre
<1>9. t \in Nat
  <2>1. 0 <= a * T
    BY <1>2
  <2> QED
    BY <1>3, <1>6, <2>1
<1>10. y \in Years /\ y + 1 \in Years /\ YearStart[y] <= day /\ day < YearStart[y + 1]
  BY <1>8, YearOfDayIs
<1> HIDE DEF y
<1>11. YearStart[y] \in Nat /\ YearStart[y + 1] \in Nat
  BY <1>10, YearStartIs
<1>12. ~(y < FirstYear + 1)
  <2> SUFFICES ASSUME y < FirstYear + 1 PROVE FALSE
    OBVIOUS
  <2>1. y + 1 = FirstYear + 1
    BY <1>10, YearsAre
  <2> QED
    BY <1>5, <1>7, <1>10, <1>11, <2>1 DEF a
<1>13. ~(LastYear + 1 <= y)
  <2> SUFFICES ASSUME LastYear + 1 <= y PROVE FALSE
    OBVIOUS
  <2>1. y = LastYear + 1
    BY <1>10, YearsAre
  <2> QED
    BY <1>5, <1>7, <1>10, <1>11, <2>1 DEF b
<1>14. y \in (FirstYear + 1)..LastYear
  BY <1>10, <1>12, <1>13, YearsAre
<1> QED
  BY <1>8, <1>9, <1>14 DEF Dateable, YearOf, day, y

\* The buckets beside that of a moment are in the calendar too.
LEMMA Neighbours ==
    ASSUME NEW g \in Grain, NEW t \in Int, Covered(t)
    PROVE  LET j == Index(g, t)
           IN  /\ j \in Int /\ Shiftable(g, j) /\ Shiftable(g, j - 1) /\ InCalendar(g, j + 1)
               /\ g \in ByMonths => 12 * (FirstYear + 1) <= Wide(g) * j
<1> DEFINE j == Index(g, t)
           y == YearOfDay[DayOf(t)]
           m == MonthOfDay[DayOf(t)]
           w == Wide(g)
<1>1. Dateable(t) /\ y \in (FirstYear + 1)..LastYear
  BY CoveredIs DEF YearOf
<1>2. Shiftable(g, j) /\ InCalendar(g, j + 1) /\ j \in Int
  BY <1>1, MomentInBucket DEF Shiftable, InCalendar
<1>3. CASE g \notin ByMonths
  BY <1>2, <1>3 DEF Shiftable, InCalendar
<1>4. CASE g \in ByMonths
  <2>1. m \in 1..12
    BY <1>1, DayInMonth DEF Dateable
  <2>2. /\ g = "month" => j = 12 * y + m - 1 /\ w = 1
        /\ g = "quarter" => j = 4 * y + ((m - 1) \div 3) /\ w = 3
        /\ g = "year" => j = y /\ w = 12
    BY WideIs DEF Index, IndexOfDay
  <2>3. g = "month" \/ g = "quarter" \/ g = "year"
    BY <1>4 DEF ByMonths
  <2>4. w * j \in Months /\ w * j < 12 * (LastYear + 2)
    BY <1>2, <1>4 DEF Shiftable, InCalendar
  <2>5. (m - 1) \div 3 \in 0..3
    BY <2>1
  <2> HIDE DEF j, y, m, w
  <2>6. 12 * (FirstYear + 1) <= w * j /\ w \in {1, 3, 12}
    <3>1. CASE g = "month"
      BY <1>1, <2>1, <2>2, <3>1, YearsAre
    <3>2. CASE g = "quarter"
      <4> DEFINE q == (m - 1) \div 3
      <4>1. j = 4 * y + q /\ w = 3 /\ q \in 0..3
        BY <2>2, <2>5, <3>2
      <4> HIDE DEF q
      <4> QED
        BY <1>1, <4>1, YearsAre
    <3>3. CASE g = "year"
      BY <1>1, <2>2, <3>3, YearsAre
    <3> QED
      BY <2>3, <3>1, <3>2, <3>3
  <2>7. w * (j - 1) = w * j - w /\ w * j \in Int /\ w \in Int
    BY <1>2, <2>6
  <2>8. w * (j - 1) \in Months /\ w * (j - 1) < 12 * (LastYear + 2)
    BY <2>4, <2>6, <2>7, YearsAre DEF Months
  <2>9. j - 1 \in Int
    BY <1>2
  <2> QED
    BY <1>2, <2>6, <2>8, <2>9 DEF Shiftable, InCalendar, j, w
<1> QED
  BY <1>3, <1>4

\* What lies before a bucket's end lies in it or before it.
LEMMA EarlierBucket ==
    ASSUME NEW g \in Grain, NEW t, Dateable(t), NEW j, InCalendar(g, j), t < Begin(g, j)
    PROVE  Index(g, t) + 1 <= j /\ Begin(g, Index(g, t) + 1) <= Begin(g, j)
<1> DEFINE i == Index(g, t)
<1>1. /\ InCalendar(g, i) /\ InCalendar(g, i + 1) /\ i \in Int /\ j \in Int
      /\ Begin(g, i) <= t /\ Begin(g, i) \in Int /\ t \in Int
  BY MomentInBucket DEF Shiftable, InCalendar, Dateable
<1> HIDE DEF i
<1>2. ~(j <= i)
  <2> SUFFICES ASSUME j <= i PROVE FALSE
    OBVIOUS
  <2>1. CASE j = i
    BY <1>1, <2>1
  <2>2. CASE j < i
    <3>1. Begin(g, j) < Begin(g, i) /\ Begin(g, j) \in Int
      BY <1>1, <2>2, BucketsFollow
    <3> QED
      BY <1>1, <3>1
  <2> QED
    BY <1>1, <2>1, <2>2
<1>3. i + 1 <= j
  BY <1>1, <1>2
<1>4. Begin(g, i + 1) <= Begin(g, j)
  <2>1. Begin(g, i + 1) \in Int
    BY MomentInBucket DEF i
  <2>2. CASE i + 1 = j
    BY <2>1, <2>2
  <2>3. CASE i + 1 < j
    BY <1>1, <2>3, BucketsFollow
  <2> QED
    BY <1>1, <1>3, <2>2, <2>3
<1> QED
  BY <1>3, <1>4 DEF i

LEMMA LaterBucket ==
    ASSUME NEW g \in Grain, NEW t, Dateable(t), NEW j, InCalendar(g, j), Begin(g, j) <= t
    PROVE  j <= Index(g, t) /\ Begin(g, j) <= Begin(g, Index(g, t))
<1> DEFINE i == Index(g, t)
<1>1. /\ InCalendar(g, i) /\ InCalendar(g, i + 1) /\ i \in Int /\ j \in Int
      /\ t < Begin(g, i + 1) /\ Begin(g, i + 1) \in Int /\ Begin(g, i) \in Int /\ t \in Int
  BY MomentInBucket DEF Shiftable, InCalendar, Dateable
<1> HIDE DEF i
<1>2. ~(i + 1 <= j)
  <2> SUFFICES ASSUME i + 1 <= j PROVE FALSE
    OBVIOUS
  <2>1. CASE i + 1 = j
    BY <1>1, <2>1
  <2>2. CASE i + 1 < j
    <3>1. Begin(g, i + 1) < Begin(g, j) /\ Begin(g, j) \in Int
      BY <1>1, <2>2, BucketsFollow
    <3> QED
      BY <1>1, <3>1
  <2> QED
    BY <1>1, <2>1, <2>2
<1>3. j <= i
  BY <1>1, <1>2
<1>4. Begin(g, j) <= Begin(g, i)
  <2>1. CASE j = i
    BY <1>1, <2>1
  <2>2. CASE j < i
    BY <1>1, <2>2, BucketsFollow
  <2> QED
    BY <1>1, <1>3, <2>1, <2>2
<1> QED
  BY <1>3, <1>4 DEF i

-----------------------------------------------------------------------------
(***************************************************************************)
(* The oldest and the newest of some moments.                              *)
(***************************************************************************)

LEMMA OldestIs ==
    ASSUME NEW S \in SUBSET Nat, S # {}
    PROVE  Oldest(S) \in S /\ \A u \in S : Oldest(S) <= u
<1>1. \E t \in S : \A u \in S : t <= u
  BY LeastOf
<1> QED
  BY <1>1, Zenon DEF Oldest

LEMMA NewestIs ==
    ASSUME NEW S \in SUBSET Nat, S # {}, NEW B \in Nat, \A t \in S : t < B
    PROVE  Newest(S) \in S /\ \A u \in S : u <= Newest(S)
<1> DEFINE R == {n \in Nat : B - n \in S}
<1>1. R # {}
  <2>1. PICK t \in S : TRUE
    OBVIOUS
  <2>2. B - t \in R
    BY <2>1
  <2> QED
    BY <2>2
<1>2. PICK n \in R : \A m \in R : n <= m
  BY <1>1, LeastOf
<1>3. B - n \in S /\ n \in Nat
  BY <1>2
<1>4. ASSUME NEW u \in S PROVE u <= B - n
  <2>1. B - u \in R /\ u \in Nat
    OBVIOUS
  <2>2. n <= B - u
    BY <1>2, <2>1
  <2> QED
    BY <1>3, <2>1, <2>2
<1>5. \E t \in S : \A u \in S : u <= t
  BY <1>3, <1>4
<1> QED
  BY <1>5, Zenon DEF Newest

-----------------------------------------------------------------------------
(***************************************************************************)
(* The cursor that walks over the buckets, and the bounds of the grid.     *)
(***************************************************************************)

\* What lies between two buckets of the calendar is in the calendar.
LEMMA Enclosed ==
    ASSUME NEW g \in Grain, NEW i, NEW l, Shiftable(g, i), Shiftable(g, l),
           NEW x \in Int, i <= x, x <= l
    PROVE  Shiftable(g, x) /\ InCalendar(g, x)
<1>1. i \in Int /\ l \in Int
  BY DEF Shiftable, InCalendar
<1>2. CASE g \in ByMonths
  <2>1. Wide(g) \in {1, 3, 12}
    BY <1>2, WideNat
  <2>2. /\ Wide(g) * i <= Wide(g) * x /\ Wide(g) * x <= Wide(g) * l /\ Wide(g) * x \in Int
        /\ Wide(g) * i \in Int /\ Wide(g) * l \in Int
    BY <1>1, <2>1
  <2>3. /\ Wide(g) * i \in Months /\ Wide(g) * l \in Months
        /\ Wide(g) * l < 12 * (LastYear + 2)
    BY <1>2 DEF Shiftable, InCalendar
  <2>4. FirstYear \in Nat /\ LastYear \in Nat
    BY YearsAre
  <2>5. Wide(g) * x \in Months /\ Wide(g) * x < 12 * (LastYear + 2)
    BY <2>2, <2>3, <2>4 DEF Months
  <2> QED
    BY <2>5 DEF Shiftable, InCalendar
<1>3. CASE g \notin ByMonths
  BY <1>3 DEF Shiftable, InCalendar
<1> QED
  BY <1>2, <1>3

\* Between two buckets there are at least as many ticks as buckets.
LEMMA BucketsSpread ==
    ASSUME NEW g \in Grain, NEW i, NEW l, Shiftable(g, i), Shiftable(g, l), i <= l
    PROVE  l - i \in Nat /\ Begin(g, i) \in Int /\ Begin(g, l) \in Int
           /\ l - i <= Begin(g, l) - Begin(g, i)
<1>1. i \in Int /\ l \in Int /\ l - i \in Nat
  BY DEF Shiftable, InCalendar
<1> DEFINE S == {n \in 0..(l - i) : Begin(g, i + n) \in Int /\ n <= Begin(g, i + n) - Begin(g, i)}
<1>2. \A n \in 0..(l - i) : Shiftable(g, i + n) /\ InCalendar(g, i + n)
  BY <1>1, Enclosed
<1>3. Begin(g, i) \in Int
  <2>1. CASE i = l
    <3>1. CASE g \in ByMonths
      <4>1. FirstDay(Wide(g) * i) \in Int
        BY <3>1, MonthIs DEF Shiftable, InCalendar
      <4> QED
        BY <3>1, <4>1, FirstDayOfIs, YearsAre DEF Begin
    <3>2. CASE g \notin ByMonths
      BY <3>2, <1>1, FirstDayOfIs, GrainIs, OriginIs, YearsAre DEF Begin
    <3> QED
      BY <3>1, <3>2
  <2>2. CASE i # l
    <3>1. InCalendar(g, i) /\ InCalendar(g, l) /\ i < l
      BY <2>2, <1>1 DEF Shiftable
    <3> QED
      BY <3>1, BucketsFollow
  <2> QED
    BY <2>1, <2>2
<1>4. 0 \in S
  <2>1. i + 0 = i
    BY <1>1
  <2> QED
    BY <1>1, <1>3, <2>1
<1>5. ASSUME NEW n \in 0..((l - i) - 1), n \in S PROVE n + 1 \in S
  <2>1. n \in 0..(l - i) /\ n + 1 \in 0..(l - i) /\ i + n < i + (n + 1)
    BY <1>1
  <2>2. InCalendar(g, i + n) /\ InCalendar(g, i + (n + 1))
    BY <1>2, <2>1
  <2>3. /\ Begin(g, i + n) + TicksPerDay <= Begin(g, i + (n + 1))
        /\ Begin(g, i + (n + 1)) \in Int /\ Begin(g, i + n) \in Int
    BY <2>1, <2>2, BucketsFollow
  <2>4. n <= Begin(g, i + n) - Begin(g, i) /\ TicksPerDay \in Nat \ {0}
    BY <1>5, YearsAre
  <2> QED
    BY <1>3, <2>1, <2>3, <2>4
<1> HIDE DEF S
<1>6. l - i \in S
  BY <1>1, <1>4, <1>5, Climb
<1>7. i + (l - i) = l
  BY <1>1
<1> QED
  BY <1>1, <1>3, <1>6, <1>7 DEF S

LEMMA CursorIs ==
    ASSUME NEW g \in Grain, NEW i, NEW l, Shiftable(g, i), Shiftable(g, l), i <= l, NEW most \in Nat
    PROVE  Cursor(Begin(g, i), Begin(g, l), g, most)
             = [n \in 0..most |-> Begin(g, IF i + n < l THEN i + n ELSE l)]
<1> DEFINE at(n) == Begin(g, IF i + n < l THEN i + n ELSE l)
           first == Begin(g, i)
           last == Begin(g, l)
           Next(f) == [n \in 0..most |->
                         IF n = 0 THEN first
                         ELSE IF f[n - 1] < last THEN Shift(f[n - 1], g, 1) ELSE f[n - 1]]
           walk == [n \in 0..most |-> at(n)]
           def == Cursor(first, last, g, most)
<1>1. i \in Int /\ l \in Int
  BY DEF Shiftable, InCalendar
<1>2. at(0) = first
  <2>1. i + 0 = i
    BY <1>1
  <2> QED
    BY <1>1, <2>1
<1>3. ASSUME NEW n \in Nat
      PROVE  at(n + 1) = IF at(n) < last THEN Shift(at(n), g, 1) ELSE at(n)
  <2>1. CASE i + n < l
    <3>1. at(n) = Begin(g, i + n)
      BY <2>1
    <3>2. Shiftable(g, i + n) /\ InCalendar(g, (i + n) + 1) /\ InCalendar(g, i + n) /\ InCalendar(g, l)
      BY <1>1, <2>1, Enclosed
    <3>3. Shift(Begin(g, i + n), g, 1) = Begin(g, (i + n) + 1)
      BY <3>2, ShiftIs
    <3>4. Begin(g, i + n) < Begin(g, l)
      BY <2>1, <3>2, BucketsFollow
    <3>5. (IF i + (n + 1) < l THEN i + (n + 1) ELSE l) = (i + n) + 1
      BY <1>1, <2>1
    <3>6. at(n + 1) = Begin(g, (i + n) + 1)
      BY <3>5
    <3> QED
      BY <3>1, <3>3, <3>4, <3>6
  <2>2. CASE ~(i + n < l)
    <3>1. ~(i + (n + 1) < l)
      BY <1>1, <2>2
    <3>2. at(n) = last /\ at(n + 1) = last
      BY <2>2, <3>1
    <3>3. last \in Int
      BY BucketsSpread
    <3> QED
      BY <3>2, <3>3
  <2> QED
    BY <2>1, <2>2
<1>4. def = CHOOSE f : f = Next(f)
  BY Zenon DEF Cursor
<1> HIDE DEF at, first, last
<1>5. walk = Next(walk)
  <2>1. ASSUME NEW n \in 0..most
        PROVE  walk[n] = IF n = 0 THEN first
                         ELSE IF walk[n - 1] < last THEN Shift(walk[n - 1], g, 1) ELSE walk[n - 1]
    <3>1. CASE n = 0
      BY <3>1, <1>2
    <3>2. CASE n # 0
      <4>1. n - 1 \in Nat /\ n - 1 \in 0..most /\ (n - 1) + 1 = n
        BY <3>2
      <4>2. at(n) = IF at(n - 1) < last THEN Shift(at(n - 1), g, 1) ELSE at(n - 1)
        BY <1>3, <4>1
      <4>3. walk[n] = at(n) /\ walk[n - 1] = at(n - 1)
        BY <4>1
      <4> QED
        BY <3>2, <4>2, <4>3
    <3> QED
      BY <3>1, <3>2
  <2> QED
    BY <2>1
<1> HIDE DEF def
<1>6. ASSUME NEW f, f = Next(f) PROVE f = walk
  <2> DEFINE S == {n \in 0..most : f[n] = at(n)}
  <2>1. \A n \in 0..most : f[n] = IF n = 0 THEN first
              ELSE IF f[n - 1] < last THEN Shift(f[n - 1], g, 1) ELSE f[n - 1]
    BY <1>6
  <2>2. 0 \in S
    BY <1>2, <2>1
  <2>3. ASSUME NEW n \in 0..(most - 1), n \in S PROVE n + 1 \in S
    <3>1. n \in Nat /\ n + 1 \in 0..most /\ n + 1 # 0 /\ (n + 1) - 1 = n
      OBVIOUS
    <3>2. f[n + 1] = IF f[n] < last THEN Shift(f[n], g, 1) ELSE f[n]
      BY <2>1, <3>1
    <3>3. f[n] = at(n)
      BY <2>3
    <3>4. f[n + 1] = at(n + 1)
      BY <1>3, <3>1, <3>2, <3>3
    <3> QED
      BY <3>1, <3>4
  <2> HIDE DEF S
  <2>4. \A n \in 0..most : n \in S
    BY <2>2, <2>3, Climb
  <2>5. \A n \in 0..most : f[n] = at(n)
    BY <2>4 DEF S
  <2>6. f = [n \in 0..most |-> f[n]]
    BY <1>6
  <2> QED
    BY <2>5, <2>6
<1> HIDE DEF Next, walk
<1>7. def = walk
  BY <1>4, <1>5, <1>6, Zenon
<1> QED
  BY <1>7 DEF def, walk, at, first, last

LEMMA BoundsAre ==
    ASSUME NEW g \in Grain, NEW i, NEW l, Shiftable(g, i), Shiftable(g, l), i <= l,
           NEW most \in Nat, most > 1
    PROVE  LET s == IF i + most < l THEN l - (most - 1) ELSE i
           IN  /\ GridBounds(Begin(g, i), Begin(g, l), g, most)
                    = [start |-> Begin(g, s), cut |-> i + most < l]
               /\ i <= s /\ s <= l /\ l - s <= most /\ Shiftable(g, s)
               /\ i + most < l => i < s
<1> DEFINE s == IF i + most < l THEN l - (most - 1) ELSE i
           walk == [n \in 0..most |-> Begin(g, IF i + n < l THEN i + n ELSE l)]
<1>1. i \in Int /\ l \in Int /\ s \in Int
  BY DEF Shiftable, InCalendar
<1>2. i <= s /\ s <= l /\ l - s <= most /\ (i + most < l => i < s)
  BY <1>1
<1>3. Shiftable(g, s) /\ InCalendar(g, s)
  BY <1>1, <1>2, Enclosed
<1>4. Cursor(Begin(g, i), Begin(g, l), g, most) = walk
  BY CursorIs
<1>5. walk[most] = Begin(g, IF i + most < l THEN i + most ELSE l)
  OBVIOUS
<1> HIDE DEF walk
<1>6. CASE i + most < l
  <2>1. Shiftable(g, i + most) /\ InCalendar(g, i + most) /\ InCalendar(g, l)
    BY <1>1, <1>6, Enclosed
  <2>2. walk[most] < Begin(g, l)
    BY <1>5, <1>6, <2>1, BucketsFollow
  <2>3. l + (-(most - 1)) = s /\ -(most - 1) \in Int
    BY <1>1, <1>6
  <2>4. InCalendar(g, l + (-(most - 1)))
    BY <1>3, <2>3
  <2>5. Shift(Begin(g, l), g, -(most - 1)) = Begin(g, l + (-(most - 1)))
    BY <2>3, <2>4, ShiftIs
  <2>6. GridBounds(Begin(g, i), Begin(g, l), g, most)
          = [start |-> Shift(Begin(g, l), g, -(most - 1)), cut |-> TRUE]
    BY <1>4, <2>2 DEF GridBounds
  <2>7. Begin(g, l + (-(most - 1))) = Begin(g, s)
    BY <2>3
  <2> HIDE DEF s
  <2> QED
    BY <1>2, <1>3, <1>6, <2>5, <2>6, <2>7 DEF s
<1>7. CASE ~(i + most < l)
  <2>1. walk[most] = Begin(g, l) /\ Begin(g, l) \in Int
    BY <1>5, <1>7, BucketsSpread
  <2>2. GridBounds(Begin(g, i), Begin(g, l), g, most) = [start |-> Begin(g, i), cut |-> FALSE]
    BY <1>4, <2>1 DEF GridBounds
  <2>3. s = i /\ (i + most < l) = FALSE
    BY <1>7
  <2>4. GridBounds(Begin(g, i), Begin(g, l), g, most)
          = [start |-> Begin(g, s), cut |-> i + most < l]
    BY <2>2, <2>3
  <2> QED
    BY <1>2, <1>3, <2>4
<1> QED
  BY <1>6, <1>7

-----------------------------------------------------------------------------
(***************************************************************************)
(* The grid: a period for every bucket between the bounds.                 *)
(***************************************************************************)

PeriodFields == {"start", "end", "value", "rows", "score", "severity", "status"}

\* What a period of the grid is before it is judged.
Unjudged(p, start, end) ==
    /\ DOMAIN p = PeriodFields /\ p.start = start /\ p.end = end
    /\ p.status \in {"MISSING", "PARTIAL", "INSUFFICIENT_HISTORY"}

LEMMA PeriodIs ==
    ASSUME NEW b, NEW g, NEW found, NEW unfinished \in BOOLEAN
    PROVE  /\ Unjudged(Period(b, g, found, unfinished), b, BucketEnd(b, g))
           /\ unfinished => ~Scoreable(Period(b, g, found, unfinished))
<1> DEFINE p == Period(b, g, found, unfinished)
<1>1. Unjudged(p, b, BucketEnd(b, g))
  BY DEF Unjudged, PeriodFields, Period
<1>2. ASSUME unfinished PROVE ~Scoreable(p)
  <2>1. CASE \A r \in found : r.value = {}
    <3>1. UNION {r.value : r \in found} = {}
      BY <2>1
    <3>2. p.value = {}
      BY <3>1 DEF Period
    <3> QED
      BY <3>2 DEF Scoreable
  <2>2. CASE ~(\A r \in found : r.value = {})
    <3>1. p.status = "PARTIAL"
      BY <1>2, <2>2 DEF Period
    <3> QED
      BY <3>1 DEF Scoreable
  <2> QED
    BY <2>1, <2>2
<1> QED
  BY <1>1, <1>2

\* What the query found for a bucket, and how many rows it counted there.
RowsFor(rows, b) == {rows[i] : i \in {j \in DOMAIN rows : rows[j].bucket = b}}
CountFor(rows, b) == IF RowsFor(rows, b) = {} THEN 0 ELSE (CHOOSE r \in RowsFor(rows, b) : TRUE).count

\* The period of a bucket on the grid between two others.
Laying(rows, g, sides, cut, first, last, b) ==
    Period(b, g, RowsFor(rows, b),
           (sides.head /\ b = first /\ ~cut) \/ (sides.tail /\ b = last))

\* The grid from bucket s to bucket l.
GridFrom(periods, g, s, l) ==
    /\ DOMAIN periods = 1..((l - s) + 1) /\ Len(periods) = (l - s) + 1
    /\ \A k \in 1..((l - s) + 1) :
          Unjudged(periods[k], Begin(g, s + (k - 1)), Begin(g, s + k))

LEMMA GridIs ==
    ASSUME NEW g \in Grain, NEW s, NEW l, Shiftable(g, s), Shiftable(g, l), s <= l,
           InCalendar(g, l + 1), NEW rows,
           NEW sides, sides.head \in BOOLEAN, sides.tail \in BOOLEAN, NEW cut \in BOOLEAN
    PROVE  LET whole == GridOf(rows, g, sides, [start |-> Begin(g, s), cut |-> cut], Begin(g, l))
           IN  /\ GridFrom(whole.periods, g, s, l) /\ whole.cut = cut
               /\ sides.head /\ ~cut => ~Scoreable(whole.periods[1])
               /\ sides.tail => ~Scoreable(whole.periods[(l - s) + 1])
               /\ \A k \in DOMAIN whole.periods :
                     whole.periods[k] = Laying(rows, g, sides, cut, Begin(g, s), Begin(g, l),
                                               whole.periods[k].start)
<1> DEFINE first == Begin(g, s)
           last == Begin(g, l)
           bounds == [start |-> first, cut |-> cut]
           start == [n \in 0..(last - first) |-> Begin(g, IF s + n < l THEN s + n ELSE l)]
           Unfinished(b) == \/ sides.head /\ b = bounds.start /\ ~bounds.cut
                            \/ sides.tail /\ b = last
           At(b) == Period(b, g, {rows[i] : i \in {j \in DOMAIN rows : rows[j].bucket = b}}, Unfinished(b))
           whole == GridOf(rows, g, sides, bounds, last)
<1>1. /\ s \in Int /\ l \in Int /\ l - s \in Nat /\ first \in Int /\ last \in Int
      /\ l - s <= last - first
  BY BucketsSpread DEF Shiftable, InCalendar
<1>2. Absolute(last - bounds.start) = last - first /\ last - first \in Nat
  BY <1>1 DEF Absolute
<1>3. Cursor(bounds.start, last, g, last - first) = start
  BY <1>2, CursorIs
<1>4. \A n \in 0..(l - s) : n \in 0..(last - first) /\ start[n] = Begin(g, s + n)
  <2>1. ASSUME NEW n \in 0..(l - s) PROVE n \in 0..(last - first) /\ start[n] = Begin(g, s + n)
    <3>1. n \in 0..(last - first)
      BY <1>1
    <3>2. (IF s + n < l THEN s + n ELSE l) = s + n
      BY <1>1
    <3> QED
      BY <3>1, <3>2
  <2> QED
    BY <2>1
<1>5. \A n \in 0..(l - s) : n # l - s => start[n] # last
  <2>1. ASSUME NEW n \in 0..(l - s), n # l - s PROVE start[n] # last
    <3>1. s + n < l /\ s <= s + n
      BY <1>1, <2>1
    <3>2. InCalendar(g, s + n) /\ InCalendar(g, l)
      BY <1>1, <3>1, Enclosed
    <3>3. Begin(g, s + n) < last /\ Begin(g, s + n) \in Int
      BY <3>1, <3>2, BucketsFollow
    <3> QED
      BY <1>1, <1>4, <3>3
  <2> QED
    BY <2>1
<1>6. start[l - s] = last
  <2>1. l - s \in 0..(l - s) /\ s + (l - s) = l
    BY <1>1
  <2> QED
    BY <1>4, <2>1
<1>7. DOMAIN start = 0..(last - first)
  OBVIOUS
<1> HIDE DEF start
<1> DEFINE size == CHOOSE n \in DOMAIN start :
                      start[n] = last /\ \A m \in 0..(n - 1) : start[m] # last
<1>8. size = l - s
  <2>1. /\ l - s \in DOMAIN start /\ start[l - s] = last
        /\ \A m \in 0..((l - s) - 1) : start[m] # last
    BY <1>1, <1>5, <1>6, <1>7
  <2>2. size \in DOMAIN start /\ start[size] = last /\ \A m \in 0..(size - 1) : start[m] # last
    BY <2>1
  <2> HIDE DEF size
  <2>3. size \in Nat
    BY <1>1, <1>7, <2>2
  <2>4. ~(l - s < size)
    <3> SUFFICES ASSUME l - s < size PROVE FALSE
      OBVIOUS
    <3>1. l - s \in 0..(size - 1)
      BY <1>1, <2>3
    <3> QED
      BY <1>6, <2>2, <3>1
  <2>5. ~(size < l - s)
    <3> SUFFICES ASSUME size < l - s PROVE FALSE
      OBVIOUS
    <3>1. size \in 0..(l - s) /\ size # l - s
      BY <1>1, <2>3
    <3> QED
      BY <1>5, <2>2, <3>1
  <2> QED
    BY <1>1, <2>3, <2>4, <2>5
<1>9. whole = [periods |-> [k \in 1..(size + 1) |-> At(start[k - 1])], cut |-> bounds.cut]
  <2>1. Cursor(bounds.start, last, g, Absolute(last - bounds.start)) = start
    BY <1>2, <1>3
  <2> HIDE DEF bounds, first, last
  <2> QED
    BY <2>1, Zenon DEF GridOf
<1> HIDE DEF size, whole
<1> DEFINE periods == [k \in 1..((l - s) + 1) |-> At(start[k - 1])]
<1>10. whole.periods = periods /\ whole.cut = cut
  <2>1. bounds.cut = cut
    OBVIOUS
  <2> HIDE DEF At, bounds
  <2> QED
    BY <1>8, <1>9, <2>1
<1>11. ASSUME NEW b PROVE /\ Unjudged(At(b), b, BucketEnd(b, g))
                          /\ Unfinished(b) => ~Scoreable(At(b))
                          /\ At(b).start = b /\ At(b) = Laying(rows, g, sides, cut, first, last, b)
  <2>1. Unfinished(b) \in BOOLEAN
    OBVIOUS
  <2>3. At(b) = Laying(rows, g, sides, cut, first, last, b)
    <3> HIDE DEF first, last
    <3> QED
      BY Zenon DEF Laying, RowsFor
  <2> HIDE DEF Unfinished
  <2>2. At(b).start = b
    BY DEF Period
  <2> QED
    BY <2>1, <2>2, <2>3, PeriodIs
<1>12. bounds.start = first /\ bounds.cut = cut
  OBVIOUS
<1>13. /\ sides.head /\ ~cut => Unfinished(first)
       /\ sides.tail => Unfinished(last)
  BY <1>12
<1> HIDE DEF At, Unfinished, bounds, first, last
<1>14. /\ DOMAIN periods = 1..((l - s) + 1) /\ Len(periods) = (l - s) + 1
       /\ \A k \in 1..((l - s) + 1) : periods[k] = At(start[k - 1])
  BY <1>1
<1> HIDE DEF periods
<1>15. ASSUME NEW k \in 1..((l - s) + 1)
       PROVE  Unjudged(periods[k], Begin(g, s + (k - 1)), Begin(g, s + k))
  <2>1. /\ k - 1 \in 0..(l - s) /\ s + (k - 1) \in Int /\ (s + (k - 1)) + 1 = s + k
        /\ s <= s + (k - 1) /\ s + (k - 1) <= l
    BY <1>1
  <2>2. periods[k] = At(Begin(g, s + (k - 1)))
    BY <1>4, <1>14, <2>1
  <2>3. Shiftable(g, s + (k - 1))
    BY <2>1, Enclosed
  <2>4. InCalendar(g, (s + (k - 1)) + 1)
    <3>1. CASE s + (k - 1) = l
      BY <3>1
    <3>2. CASE s + (k - 1) # l
      <4>1. s <= (s + (k - 1)) + 1 /\ (s + (k - 1)) + 1 <= l /\ (s + (k - 1)) + 1 \in Int
        BY <1>1, <2>1, <3>2
      <4> QED
        BY <4>1, Enclosed
    <3> QED
      BY <3>1, <3>2
  <2>5. BucketEnd(Begin(g, s + (k - 1)), g) = Begin(g, (s + (k - 1)) + 1)
    BY <2>3, <2>4, ShiftIs DEF BucketEnd
  <2>6. BucketEnd(Begin(g, s + (k - 1)), g) = Begin(g, s + k)
    BY <2>1, <2>5
  <2> QED
    BY <1>11, <2>2, <2>6
<1>16. periods[1] = At(first) /\ periods[(l - s) + 1] = At(last)
  <2>1. 1 \in 1..((l - s) + 1) /\ (l - s) + 1 \in 1..((l - s) + 1) /\ 1 - 1 = 0
        /\ ((l - s) + 1) - 1 = l - s /\ 0 \in 0..(l - s) /\ s + 0 = s
    BY <1>1
  <2>2. start[0] = first
    BY <1>4, <2>1 DEF first
  <2> QED
    BY <1>6, <1>14, <2>1, <2>2
<1>17. GridFrom(periods, g, s, l)
  BY <1>14, <1>15 DEF GridFrom
<1>18. /\ sides.head /\ ~cut => ~Scoreable(periods[1])
       /\ sides.tail => ~Scoreable(periods[(l - s) + 1])
  BY <1>11, <1>13, <1>16
<1>19. /\ GridFrom(whole.periods, g, s, l) /\ whole.cut = cut
       /\ sides.head /\ ~cut => ~Scoreable(whole.periods[1])
       /\ sides.tail => ~Scoreable(whole.periods[(l - s) + 1])
  BY <1>10, <1>17, <1>18
<1>20. \A k \in DOMAIN periods :
          periods[k] = Laying(rows, g, sides, cut, first, last, periods[k].start)
  BY <1>11, <1>14
<1>21. \A k \in DOMAIN whole.periods :
          whole.periods[k] = Laying(rows, g, sides, cut, first, last, whole.periods[k].start)
  BY <1>10, <1>20
<1> QED
  BY <1>19, <1>21 DEF whole, bounds, first, last

-----------------------------------------------------------------------------
(***************************************************************************)
(* The rows of the series query: the occupied buckets, newest kept.        *)
(***************************************************************************)

\* The samples of a report: every moment that can be read is covered.
CoveredSamples(samples) ==
    /\ samples \in Seq(Sample)
    /\ \A i \in DOMAIN samples : samples[i].at = -1 \/ Covered(samples[i].at)

LEMMA SamplesAre ==
    ASSUME NEW samples, CoveredSamples(samples), DatedIn(samples) # {}
    PROVE  /\ \A i \in DatedIn(samples) :
                 /\ samples[i].at \in Int /\ Covered(samples[i].at)
                 /\ Earliest(samples) <= samples[i].at /\ samples[i].at <= Latest(samples)
           /\ \E i \in DatedIn(samples) : Earliest(samples) = samples[i].at
           /\ \E i \in DatedIn(samples) : Latest(samples) = samples[i].at
           /\ IsFiniteSet(DatedIn(samples))
<1> DEFINE D == DatedIn(samples)
           T == {samples[i].at : i \in D}
           B == YearStart[LastYear + 1] * TicksPerDay
<1>1. \A i \in D : i \in DOMAIN samples /\ samples[i].at >= 0
  BY DEF DatedIn
<1>2. \A i \in DOMAIN samples : samples[i].at \in Int
  <2>1. \A i \in DOMAIN samples : samples[i] \in Sample
    BY DEF CoveredSamples
  <2> QED
    BY <2>1 DEF Sample
<1>3. \A i \in D : samples[i].at \in Nat /\ Covered(samples[i].at)
  BY <1>1, <1>2 DEF CoveredSamples
<1>4. B \in Nat
  BY YearStartIs, YearsAre
<1>5. \A i \in D : samples[i].at < B
  BY <1>3 DEF Covered
<1> HIDE DEF B, D
<1>6. T \in SUBSET Nat /\ (\A t \in T : t < B) /\ T # {}
  BY <1>3, <1>5 DEF D
<1>7. \A i \in D : samples[i].at \in T
  OBVIOUS
<1>8. Earliest(samples) = Oldest(T) /\ Latest(samples) = Newest(T)
  BY DEF Earliest, Latest, D
<1>9. \A t \in T : \E i \in D : t = samples[i].at
  OBVIOUS
<1> HIDE DEF T
<1>10. Oldest(T) \in T /\ \A u \in T : Oldest(T) <= u
  BY <1>6, OldestIs
<1>11. Newest(T) \in T /\ \A u \in T : u <= Newest(T)
  BY <1>4, <1>6, NewestIs
<1>12. IsFiniteSet(D)
  <2>1. DOMAIN samples = 1..Len(samples) /\ Len(samples) \in Nat
    BY DEF CoveredSamples
  <2>2. IsFiniteSet(1..Len(samples))
    BY <2>1, FS_Interval
  <2>3. D \in SUBSET (1..Len(samples))
    BY <1>1, <2>1
  <2> QED
    BY <2>2, <2>3, FS_Subset
<1> QED
  BY <1>3, <1>7, <1>8, <1>9, <1>10, <1>11, <1>12 DEF D

LEMMA LaterIndex ==
    ASSUME NEW g \in Grain, NEW t \in Int, NEW u \in Int, Covered(t), Covered(u), t <= u
    PROVE  /\ Index(g, t) \in Int /\ Index(g, u) \in Int /\ Index(g, t) <= Index(g, u)
           /\ Begin(g, Index(g, t)) \in Int /\ Begin(g, Index(g, t)) <= Begin(g, Index(g, u))
<1>1. Dateable(t) /\ Dateable(u)
  BY CoveredIs
<1>2. /\ Shiftable(g, Index(g, t)) /\ Begin(g, Index(g, t)) \in Int
      /\ Begin(g, Index(g, t)) <= t
  BY <1>1, MomentInBucket
<1>3. InCalendar(g, Index(g, t)) /\ Begin(g, Index(g, t)) <= u
  BY <1>2 DEF Shiftable
<1>4. Index(g, t) \in Int /\ Index(g, u) \in Int
  BY Neighbours
<1> QED
  BY <1>1, <1>2, <1>3, <1>4, LaterBucket

\* The occupied buckets.
Starts(samples, g) == {BucketStart(samples[i].at, g) : i \in DatedIn(samples)}

\* The newest is that of the newest moment.
LEMMA StartsAre ==
    ASSUME NEW samples, CoveredSamples(samples), DatedIn(samples) # {}, NEW g \in Grain
    PROVE  LET top == Begin(g, Index(g, Latest(samples)))
           IN  /\ \A i \in DatedIn(samples) :
                     BucketStart(samples[i].at, g) = Begin(g, Index(g, samples[i].at))
               /\ IsFiniteSet(Starts(samples, g)) /\ top \in Starts(samples, g)
               /\ \A x \in Starts(samples, g) :
                     /\ x \in Int /\ x <= top
                     /\ \E i \in DatedIn(samples) : x = Begin(g, Index(g, samples[i].at))
<1> DEFINE D == DatedIn(samples)
           S == {BucketStart(samples[i].at, g) : i \in D}
           top == Begin(g, Index(g, Latest(samples)))
<1>1. \A i \in D : /\ samples[i].at \in Int /\ Covered(samples[i].at)
                   /\ samples[i].at <= Latest(samples)
  BY SamplesAre
<1>2. PICK l \in D : Latest(samples) = samples[l].at
  BY SamplesAre
<1>3. \A i \in D : /\ BucketStart(samples[i].at, g) = Begin(g, Index(g, samples[i].at))
                   /\ BucketStart(samples[i].at, g) \in Int
                   /\ BucketStart(samples[i].at, g) <= top
  <2>1. ASSUME NEW i \in D
        PROVE  /\ BucketStart(samples[i].at, g) = Begin(g, Index(g, samples[i].at))
               /\ BucketStart(samples[i].at, g) \in Int
               /\ BucketStart(samples[i].at, g) <= top
    <3>1. /\ samples[i].at \in Int /\ Covered(samples[i].at)
          /\ Latest(samples) \in Int /\ Covered(Latest(samples)) /\ samples[i].at <= Latest(samples)
      BY <1>1, <1>2
    <3>2. /\ Begin(g, Index(g, samples[i].at)) \in Int
          /\ Begin(g, Index(g, samples[i].at)) <= top
      BY <3>1, LaterIndex
    <3>3. BucketStart(samples[i].at, g) = Begin(g, Index(g, samples[i].at))
      BY <3>1, CoveredIs, BucketStartIs
    <3> QED
      BY <3>2, <3>3
  <2> QED
    BY <2>1
<1>4. IsFiniteSet(S)
  <2> DEFINE bottom == Begin(g, Index(g, Earliest(samples)))
  <2>1. \A i \in D : bottom <= BucketStart(samples[i].at, g) /\ bottom \in Int
    <3>1. ASSUME NEW i \in D
          PROVE  bottom <= BucketStart(samples[i].at, g) /\ bottom \in Int
      <4>1. /\ Earliest(samples) \in Int /\ Covered(Earliest(samples))
            /\ Earliest(samples) <= samples[i].at
        BY SamplesAre
      <4>2. bottom \in Int /\ bottom <= Begin(g, Index(g, samples[i].at))
        BY <1>1, <4>1, LaterIndex
      <4> QED
        BY <1>3, <4>2
    <3> QED
      BY <3>1
  <2>2. bottom \in Int /\ top \in Int
    BY <1>2, <1>3, <2>1
  <2>3. S \in SUBSET (bottom..top)
    <3>1. \A i \in D : BucketStart(samples[i].at, g) \in bottom..top
      BY <1>3, <2>1, <2>2
    <3> QED
      BY <3>1
  <2>4. IsFiniteSet(bottom..top)
    BY <2>2, FS_Interval
  <2> HIDE DEF S, bottom, top
  <2> QED
    BY <2>3, <2>4, FS_Subset
<1>5. top \in S
  BY <1>2, <1>3
<1>6. \A x \in S : x \in Int /\ x <= top /\ \E i \in D : x = Begin(g, Index(g, samples[i].at))
  BY <1>3
<1> QED
  BY <1>3, <1>4, <1>5, <1>6 DEF S, D, top, Starts

\* The rows end with the newest moment's bucket and start with some moment's.
LEMMA QueryIs ==
    ASSUME NEW samples, CoveredSamples(samples), DatedIn(samples) # {}, NEW g \in Grain,
           NEW h, h.maxPeriods \in Nat \ {0}
    PROVE  LET rows == SeriesQuery(samples, g, h)
           IN  /\ Len(rows) \in Nat \ {0}
               /\ Len(rows) = Cardinality(MostRecent(Starts(samples, g), h.maxPeriods))
               /\ rows[Len(rows)].bucket = Begin(g, Index(g, Latest(samples)))
               /\ \E i \in DatedIn(samples) :
                     rows[1].bucket = Begin(g, Index(g, samples[i].at))
<1> DEFINE D == DatedIn(samples)
           rows == SeriesQuery(samples, g, h)
           S == Starts(samples, g)
           R == MostRecent(S, h.maxPeriods)
           top == Begin(g, Index(g, Latest(samples)))
           m == Cardinality(R)
<1>1. IsFiniteSet(S) /\ top \in S
      /\ \A x \in S : x \in Int /\ x <= top /\ \E i \in D : x = Begin(g, Index(g, samples[i].at))
  BY StartsAre
<1>7. rows = BucketRows(InOrder(R), samples, g, h)
  BY DEF SeriesQuery, Starts
<1> HIDE DEF S, top, rows
<1>8. top \in R /\ R \in SUBSET S /\ IsFiniteSet(R)
  <2>1. {c \in S : top < c} = {}
    <3>1. \A c \in S : ~(top < c)
      BY <1>1
    <3> QED
      BY <3>1
  <2>2. Cardinality({c \in S : top < c}) = 0
    BY <2>1, FS_EmptySet
  <2>3. R \in SUBSET S /\ top \in R
    BY <1>1, <2>2 DEF MostRecent
  <2> HIDE DEF R
  <2> QED
    BY <1>1, <2>3, FS_Subset
<1> HIDE DEF R, D
<1>9. R \in SUBSET Int /\ \A x \in R : x <= top
  BY <1>1, <1>8
<1>10. /\ m \in Nat \ {0} /\ DOMAIN InOrder(R) = 1..m
       /\ InOrder(R)[m] = top /\ InOrder(R)[1] \in R
  BY <1>8, <1>9, RanksAre
<1> HIDE DEF m
<1> DEFINE At(k) == Bucketed(InOrder(R)[k],
                        {i \in DatedIn(samples) : BucketStart(samples[i].at, g) = InOrder(R)[k]},
                        samples, h)
<1>11. rows = [k \in 1..m |-> At(k)]
  BY <1>7, <1>10 DEF BucketRows
<1>12. \A k : At(k).bucket = InOrder(R)[k]
  BY DEF Bucketed
<1> HIDE DEF At
<1>13. Len(rows) = m /\ \A k \in 1..m : rows[k] = At(k)
  BY <1>10, <1>11
<1>14. 1 \in 1..m /\ m \in 1..m
  BY <1>10
<1>15. rows[m].bucket = top /\ rows[1].bucket \in R
  BY <1>10, <1>12, <1>13, <1>14
<1>16. \E i \in D : rows[1].bucket = Begin(g, Index(g, samples[i].at))
  BY <1>1, <1>8, <1>15
<1> QED
  BY <1>10, <1>13, <1>15, <1>16 DEF rows, D, top, m, R, S

\* If fewer buckets are kept than may be, all of them are.
LEMMA AllRecent ==
    ASSUME NEW S \in SUBSET Int, IsFiniteSet(S), NEW n \in Nat, Cardinality(MostRecent(S, n)) < n
    PROVE  MostRecent(S, n) = S
<1> DEFINE Later(b) == {c \in S : b < c}
           R == MostRecent(S, n)
           left == {b \in S : b \notin R}
           T == {Cardinality(Later(b)) : b \in left}
<1>1. \A b : IsFiniteSet(Later(b)) /\ Cardinality(Later(b)) \in Nat
  <2>1. \A b : Later(b) \subseteq S
    OBVIOUS
  <2> HIDE DEF Later
  <2> QED
    BY <2>1, Fewer
<1>2. R \subseteq S /\ \A b \in S : b \in R <=> Cardinality(Later(b)) < n
  BY DEF MostRecent
<1>3. ASSUME NEW b \in S, NEW c \in Later(b) PROVE Cardinality(Later(c)) < Cardinality(Later(b))
  <2> DEFINE smaller == Later(c)
             rest == Later(b) \ {c}
  <2>1. b \in Int /\ c \in Int /\ b < c
    BY <1>3
  <2>2. c \in Later(b) /\ smaller \subseteq rest
    <3>1. ASSUME NEW d \in smaller PROVE d \in rest
      <4>1. d \in Int /\ c < d
        OBVIOUS
      <4>2. b < d /\ d # c
        BY <2>1, <4>1
      <4> QED
        BY <4>2
    <3> HIDE DEF smaller, rest
    <3> QED
      BY <1>3, <3>1
  <2> HIDE DEF Later, smaller
  <2>3. IsFiniteSet(rest) /\ Cardinality(rest) = Cardinality(Later(b)) - 1
    BY <1>1, <2>2, FS_RemoveElement
  <2> HIDE DEF rest
  <2>4. Cardinality(smaller) <= Cardinality(rest) /\ Cardinality(smaller) \in Nat
    BY <2>2, <2>3, Fewer
  <2> QED
    BY <1>1, <2>3, <2>4 DEF smaller
<1> SUFFICES ASSUME left # {} PROVE FALSE
  BY <1>2
<1>4. PICK b \in left : \A c \in left : Cardinality(Later(b)) <= Cardinality(Later(c))
  <2>1. T \in SUBSET Nat /\ T # {}
    BY <1>1
  <2>2. PICK t \in T : \A u \in T : t <= u
    BY <2>1, LeastOf
  <2> QED
    BY <2>2
<1>5. b \in S /\ n <= Cardinality(Later(b))
  <2>1. b \in S /\ ~(Cardinality(Later(b)) < n) /\ Cardinality(Later(b)) \in Nat
    BY <1>1, <1>2, <1>4
  <2> HIDE DEF Later
  <2> QED
    BY <2>1
<1>6. Later(b) \subseteq R
  <2> SUFFICES ASSUME NEW c \in Later(b), c \notin R PROVE FALSE
    OBVIOUS
  <2>1. c \in left
    OBVIOUS
  <2>2. Cardinality(Later(b)) <= Cardinality(Later(c)) /\ Cardinality(Later(c)) < Cardinality(Later(b))
    BY <1>3, <1>4, <1>5, <2>1
  <2>3. Cardinality(Later(b)) \in Nat /\ Cardinality(Later(c)) \in Nat
    BY <1>1
  <2> HIDE DEF Later
  <2> QED
    BY <2>2, <2>3
<1>7. IsFiniteSet(R)
  <2> HIDE DEF R
  <2> QED
    BY <1>2, Fewer
<1>8. Cardinality(R) < n
  OBVIOUS
<1> HIDE DEF R, Later
<1> DEFINE above == Later(b)
<1>9. above \subseteq R /\ n <= Cardinality(above)
  BY <1>5, <1>6
<1> HIDE DEF above
<1>10. Cardinality(above) <= Cardinality(R) /\ Cardinality(above) \in Nat /\ Cardinality(R) \in Nat
  BY <1>7, <1>9, Fewer
<1> QED
  BY <1>8, <1>9, <1>10

\* The rows of the file in a bucket.
InBucket(samples, g, b) == {i \in DatedIn(samples) : BucketStart(samples[i].at, g) = b}

\* The rows count every moment, unless there are as many of them as the cap allows.
LEMMA QueryCounts ==
    ASSUME NEW samples, CoveredSamples(samples), DatedIn(samples) # {}, NEW g \in Grain,
           NEW h, h.maxPeriods \in Nat \ {0}, Len(SeriesQuery(samples, g, h)) < h.maxPeriods
    PROVE  LET rows == SeriesQuery(samples, g, h)
           IN  /\ \A i \in DatedIn(samples) :
                     rows[1].bucket <= Begin(g, Index(g, samples[i].at))
               /\ \A b : CountFor(rows, b) = Cardinality(InBucket(samples, g, b))
               /\ \A b : RowsFor(rows, b) = IF InBucket(samples, g, b) = {} THEN {}
                                          ELSE {Bucketed(b, InBucket(samples, g, b), samples, h)}
               /\ \A k \in 2..Len(rows) : rows[1].bucket < rows[k].bucket
               /\ \A k \in 1..Len(rows) : \E i \in DatedIn(samples) :
                     rows[k].bucket = Begin(g, Index(g, samples[i].at))
               /\ Len(rows) = Cardinality(Starts(samples, g))
<1> DEFINE rows == SeriesQuery(samples, g, h)
           S == Starts(samples, g)
           R == MostRecent(S, h.maxPeriods)
           top == Begin(g, Index(g, Latest(samples)))
           m == Cardinality(R)
           o == InOrder(R)
<1>1. /\ \A i \in DatedIn(samples) : BucketStart(samples[i].at, g) = Begin(g, Index(g, samples[i].at))
      /\ IsFiniteSet(S) /\ top \in S
      /\ \A x \in S : /\ x \in Int /\ x <= top
                      /\ \E i \in DatedIn(samples) : x = Begin(g, Index(g, samples[i].at))
  BY StartsAre
<1>2. rows = BucketRows(InOrder(R), samples, g, h)
  BY DEF SeriesQuery, Starts
<1>3. \A b : b \in S <=> InBucket(samples, g, b) # {}
  BY DEF Starts, InBucket
<1>4. \A i \in DatedIn(samples) : BucketStart(samples[i].at, g) \in S
  BY DEF Starts
<1>5. Len(rows) < h.maxPeriods
  OBVIOUS
<1> HIDE DEF S, top, rows
<1>6. R \subseteq S /\ top \in R /\ IsFiniteSet(R)
  <2>1. \A c \in S : ~(top < c)
    BY <1>1
  <2>2. {c \in S : top < c} = {}
    BY <2>1
  <2>3. Cardinality({c \in S : top < c}) = 0
    BY <2>2, FS_EmptySet
  <2>4. R \subseteq S /\ top \in R
    BY <1>1, <2>3 DEF MostRecent
  <2> HIDE DEF R
  <2> QED
    BY <1>1, <2>4, Fewer
<1>7. R \in SUBSET Int /\ \A x \in R : x <= top
  BY <1>1, <1>6
<1>8. /\ m \in Nat \ {0} /\ DOMAIN o = 1..m /\ \A x \in R : o[1] <= x
      /\ \A k \in 1..m : o[k] \in R
      /\ \A x \in R : \E k \in 1..m : o[k] = x
      /\ \A i, k \in 1..m : o[i] = o[k] => i = k
  <2> HIDE DEF R
  <2>1. m \in Nat \ {0} /\ DOMAIN o = 1..m /\ \A x \in R : o[1] <= x
    BY <1>6, <1>7, RanksAre
  <2>2. Lists(o, R)
    BY <1>6, <1>7, InOrderIs
  <2> HIDE DEF o, m
  <2> QED
    BY <2>1, <2>2 DEF Lists, ToSet
<1> DEFINE At(k) == Bucketed(o[k],
                        {i \in DatedIn(samples) : BucketStart(samples[i].at, g) = o[k]}, samples, h)
<1>9. rows = [k \in 1..m |-> At(k)]
  BY <1>2, <1>8 DEF BucketRows
<1>10. \A k : /\ At(k) = Bucketed(o[k], InBucket(samples, g, o[k]), samples, h)
              /\ At(k).bucket = o[k] /\ At(k).count = Cardinality(InBucket(samples, g, o[k]))
  BY DEF Bucketed, InBucket
<1> HIDE DEF At
<1>11. /\ Len(rows) = m /\ DOMAIN rows = 1..m
       /\ \A k \in 1..m : /\ rows[k] = Bucketed(o[k], InBucket(samples, g, o[k]), samples, h)
                          /\ rows[k].bucket = o[k]
                          /\ rows[k].count = Cardinality(InBucket(samples, g, o[k]))
  BY <1>8, <1>9, <1>10
<1>12. R = S
  <2>1. Cardinality(R) < h.maxPeriods /\ S \in SUBSET Int
    BY <1>1, <1>5, <1>11
  <2> QED
    BY <1>1, <2>1, AllRecent
<1> HIDE DEF R, o, m
<1>13. ASSUME NEW b
       PROVE  /\ RowsFor(rows, b) = IF InBucket(samples, g, b) = {} THEN {}
                                  ELSE {Bucketed(b, InBucket(samples, g, b), samples, h)}
              /\ CountFor(rows, b) = Cardinality(InBucket(samples, g, b))
  <2> DEFINE row == Bucketed(b, InBucket(samples, g, b), samples, h)
  <2>1. \A r \in RowsFor(rows, b) : r = row
    BY <1>11 DEF RowsFor
  <2>2. ASSUME b \in S PROVE RowsFor(rows, b) # {}
    <3>1. PICK k \in 1..m : o[k] = b
      BY <1>8, <1>12, <2>2
    <3>2. k \in DOMAIN rows /\ rows[k].bucket = b
      BY <1>11, <3>1
    <3> QED
      BY <3>2 DEF RowsFor
  <2>3. ASSUME RowsFor(rows, b) # {} PROVE b \in S
    <3>1. PICK k \in DOMAIN rows : rows[k].bucket = b
      BY <2>3 DEF RowsFor
    <3> QED
      BY <1>8, <1>11, <1>12, <3>1
  <2>4. row.count = Cardinality(InBucket(samples, g, b))
    BY DEF Bucketed
  <2> HIDE DEF row
  <2>5. CASE b \in S
    <3>1. RowsFor(rows, b) = {row}
      BY <2>1, <2>2, <2>5
    <3>2. (CHOOSE r \in RowsFor(rows, b) : TRUE) = row
      BY <3>1
    <3>3. CountFor(rows, b) = row.count
      BY <3>1, <3>2 DEF CountFor
    <3> QED
      BY <1>3, <2>4, <2>5, <3>1, <3>3 DEF row
  <2>6. CASE b \notin S
    <3>1. RowsFor(rows, b) = {} /\ InBucket(samples, g, b) = {}
      BY <1>3, <2>3, <2>6
    <3> QED
      BY <3>1, FS_EmptySet DEF CountFor
  <2> QED
    BY <2>5, <2>6
<1>14. ASSUME NEW i \in DatedIn(samples) PROVE rows[1].bucket <= Begin(g, Index(g, samples[i].at))
  <2>1. rows[1].bucket = o[1]
    BY <1>8, <1>11
  <2>2. Begin(g, Index(g, samples[i].at)) \in R
    BY <1>1, <1>4, <1>12
  <2> QED
    BY <1>8, <2>1, <2>2
<1>15. ASSUME NEW k \in 2..Len(rows) PROVE rows[1].bucket < rows[k].bucket
  <2>1. k \in 1..m /\ 1 \in 1..m /\ k # 1
    BY <1>8, <1>11
  <2>2. rows[1].bucket = o[1] /\ rows[k].bucket = o[k] /\ o[1] # o[k] /\ o[1] <= o[k]
    BY <1>8, <1>11, <2>1
  <2>3. o[1] \in Int /\ o[k] \in Int
    BY <1>1, <1>6, <1>8, <2>1
  <2> QED
    BY <2>2, <2>3
<1>16. ASSUME NEW k \in 1..Len(rows)
       PROVE  \E i \in DatedIn(samples) : rows[k].bucket = Begin(g, Index(g, samples[i].at))
  <2>1. rows[k].bucket = o[k] /\ o[k] \in S
    BY <1>8, <1>11, <1>12
  <2> QED
    BY <1>1, <2>1
<1>17. Len(rows) = Cardinality(S)
  BY <1>11, <1>12 DEF m
<1> QED
  BY <1>13, <1>14, <1>15, <1>16, <1>17 DEF rows, S

-----------------------------------------------------------------------------
(***************************************************************************)
(* One step of the data from a moment.                                     *)
(***************************************************************************)

LEMMA MonthsOfMoment ==
    ASSUME NEW t \in Int, Covered(t)
    PROVE  LET y == YearOf(t)
               m == MonthOf(t)
               k == 12 * y + m - 1
           IN  /\ y \in (FirstYear + 1)..LastYear /\ m \in 1..12
               /\ y \in Years /\ y - 1 \in Years /\ y + 1 \in Years
               /\ k \in Months /\ k - 3 \in Months /\ k + 3 \in Months
               /\ FirstDay(k) * TicksPerDay <= t /\ t < FirstDay(k + 1) * TicksPerDay
               /\ FirstDay(k) \in Int /\ FirstDay(k + 1) \in Int
<1> DEFINE d == DayOf(t)
           y == YearOf(t)
           m == MonthOf(t)
           k == 12 * y + m - 1
<1>1. d \in Days /\ y \in (FirstYear + 1)..LastYear
  BY CoveredIs DEF Dateable
<1>2. /\ FirstYear \in Nat /\ LastYear \in Nat /\ TicksPerDay \in Nat \ {0}
      /\ Years = FirstYear..(LastYear + 2)
  BY YearsAre
<1>3. y \in Nat /\ y \in Years /\ y - 1 \in Years /\ y + 1 \in Years
  BY <1>1, <1>2
<1>4. y = YearOfDay[d] /\ m = MonthOfDay[d]
  BY DEF YearOf, MonthOf
<1>5. /\ m \in 1..12 /\ k \in Months /\ k + 1 \in Months
      /\ FirstDay(k) <= d /\ d < FirstDay(k + 1)
  BY <1>1, <1>4, DayInMonth
<1>6. k - 3 \in Months /\ k + 3 \in Months
  <2>1. y >= FirstYear + 1 /\ y <= LastYear /\ m >= 1 /\ m <= 12 /\ y \in Int /\ m \in Int
    BY <1>1, <1>2, <1>5
  <2> HIDE DEF y, m
  <2>2. k \in Int /\ 12 * FirstYear <= k - 3 /\ k + 3 <= 12 * (LastYear + 2) + 11
    BY <1>2, <2>1
  <2> QED
    BY <1>2, <2>2 DEF Months
<1>7. FirstDay(k) \in Int /\ FirstDay(k + 1) \in Int
  BY <1>5, MonthIs
<1>8. d \in Int /\ d * TicksPerDay <= t /\ t < d * TicksPerDay + TicksPerDay
  BY <1>2, Quotient DEF DayOf
<1>9. FirstDay(k) * TicksPerDay <= d * TicksPerDay
  <2>1. CASE FirstDay(k) = d
    BY <1>2, <1>8, <2>1
  <2>2. CASE FirstDay(k) # d
    <3>1. FirstDay(k) < d
      BY <1>5, <1>7, <1>8, <2>2
    <3> HIDE DEF d, k
    <3>2. FirstDay(k) * TicksPerDay < d * TicksPerDay
      BY <1>2, <1>7, <1>8, <3>1, Scale
    <3> QED
      BY <1>2, <1>7, <1>8, <3>2
  <2> QED
    BY <2>1, <2>2
<1>10. d * TicksPerDay + TicksPerDay <= FirstDay(k + 1) * TicksPerDay
  BY <1>2, <1>5, <1>7, <1>8, Scale
<1> HIDE DEF d, k
<1>11. FirstDay(k) * TicksPerDay \in Int /\ FirstDay(k + 1) * TicksPerDay \in Int
       /\ d * TicksPerDay \in Int
  BY <1>2, <1>7, <1>8
<1>12. FirstDay(k) * TicksPerDay <= t /\ t < FirstDay(k + 1) * TicksPerDay
  BY <1>2, <1>8, <1>9, <1>10, <1>11
<1> QED
  BY <1>1, <1>3, <1>5, <1>6, <1>7, <1>12 DEF k

\* A step forward is not back in time, and a step back is not forward.
LEMMA ShiftMoves ==
    ASSUME NEW f \in Grain, NEW t \in Int, Covered(t)
    PROVE  /\ Shift(t, f, 1) \in Int /\ t <= Shift(t, f, 1)
           /\ Shift(t, f, -1) \in Int /\ Shift(t, f, -1) <= t
<1> DEFINE y == YearOf(t)
           m == MonthOf(t)
           k == 12 * y + m - 1
<1>1. /\ y \in (FirstYear + 1)..LastYear /\ m \in 1..12
      /\ y \in Years /\ y - 1 \in Years /\ y + 1 \in Years
      /\ k \in Months /\ k - 3 \in Months /\ k + 3 \in Months
      /\ FirstDay(k) * TicksPerDay <= t /\ t < FirstDay(k + 1) * TicksPerDay
      /\ FirstDay(k) \in Int /\ FirstDay(k + 1) \in Int
  BY MonthsOfMoment
<1>2. TicksPerDay \in Nat \ {0}
  BY YearsAre
<1>3. y \in Nat /\ k \in Nat
  BY <1>1, YearsAre, MonthIs
<1>4. CASE f = "day"
  BY <1>2, <1>4 DEF Shift
<1>5. CASE f = "week"
  BY <1>2, <1>5 DEF Shift
<1>6. ASSUME NEW n \in {1, 3}
      PROVE  /\ AddMonths(t, n) \in Int /\ t <= AddMonths(t, n)
             /\ AddMonths(t, -n) \in Int /\ AddMonths(t, -n) <= t
  <2>1. AddMonths(t, n) = FirstDay(k + n) * TicksPerDay
        /\ AddMonths(t, -n) = FirstDay(k + (-n)) * TicksPerDay
    BY DEF AddMonths, MonthNumber, FirstOf, FirstDay
  <2> HIDE DEF k
  <2>2. /\ k + n \in Months /\ k + (-n) \in Months /\ k + 1 \in Months
        /\ k + 1 \in Int /\ k + n \in Int /\ k + (-n) < k
        /\ (n = 1 \/ k + 1 < k + n)
    BY SMTT(40), <1>1, <1>3, YearsAre DEF Months
  <2>3. FirstDay(k + n) \in Int /\ FirstDay(k + (-n)) \in Int
    BY <2>2, MonthIs
  <2>4. FirstDay(k + (-n)) * TicksPerDay < FirstDay(k) * TicksPerDay
    <3>1. FirstDay(k + (-n)) + 28 <= FirstDay(k)
      BY <1>1, <2>2, MonthsFollow
    <3>2. FirstDay(k + (-n)) < FirstDay(k)
      BY <1>1, <2>3, <3>1
    <3> QED
      BY <1>1, <1>2, <2>3, <3>2, Scale
  <2>5. FirstDay(k + 1) * TicksPerDay <= FirstDay(k + n) * TicksPerDay
    <3>1. CASE n = 1
      BY <1>1, <1>2, <3>1
    <3>2. CASE n # 1
      <4>1. FirstDay(k + 1) + 28 <= FirstDay(k + n)
        BY <2>2, <3>2, MonthsFollow
      <4>2. FirstDay(k + 1) < FirstDay(k + n)
        BY <1>1, <2>3, <4>1
      <4>3. FirstDay(k + 1) * TicksPerDay < FirstDay(k + n) * TicksPerDay
        BY <1>1, <1>2, <2>3, <4>2, Scale
      <4> QED
        BY <1>1, <1>2, <2>3, <4>3
    <3> QED
      BY <3>1, <3>2
  <2>6. /\ FirstDay(k + n) * TicksPerDay \in Int /\ FirstDay(k + (-n)) * TicksPerDay \in Int
        /\ FirstDay(k) * TicksPerDay \in Int /\ FirstDay(k + 1) * TicksPerDay \in Int
    BY <1>1, <1>2, <2>3
  <2> QED
    BY <1>1, <2>1, <2>4, <2>5, <2>6
<1>7. CASE f = "month"
  <2>1. Shift(t, f, 1) = AddMonths(t, 1) /\ Shift(t, f, -1) = AddMonths(t, -1)
    BY <1>7 DEF Shift
  <2> QED
    BY <1>6, <2>1
<1>8. CASE f = "quarter"
  <2>1. Shift(t, f, 1) = AddMonths(t, 3) /\ Shift(t, f, -1) = AddMonths(t, -3)
    <3>1. 3 * 1 = 3 /\ 3 * (-1) = -3
      OBVIOUS
    <3> QED
      BY <1>8, <3>1 DEF Shift
  <2> QED
    BY <1>6, <2>1
<1>9. CASE f = "year"
  <2> DEFINE here == MonthStart(y, m)
             next == MonthStart(y + 1, m)
             prior == MonthStart(y + (-1), m)
  <2>0. y + (-1) = y - 1
    BY <1>3
  <2>1. /\ 12 * y + m - 1 \in Months /\ FirstDay(12 * y + m - 1) = here
        /\ 12 * (y + 1) + m - 1 \in Months /\ FirstDay(12 * (y + 1) + m - 1) = next
        /\ 12 * (y + (-1)) + m - 1 \in Months /\ FirstDay(12 * (y + (-1)) + m - 1) = prior
    BY <1>1, <2>0, MonthOfYear
  <2>2. /\ 12 * y + m - 1 < 12 * (y + 1) + m - 1
        /\ 12 * (y + (-1)) + m - 1 < 12 * y + m - 1
    BY <1>1, <1>3
  <2>3. here + 28 <= next /\ prior + 28 <= here
    BY <2>1, <2>2, MonthsFollow
  <2>4. here \in Int /\ next \in Int /\ prior \in Int
    BY <1>1, <2>0, MonthsAscend
  <2>5. /\ Shift(t, f, 1) = next * TicksPerDay + t - here * TicksPerDay
        /\ Shift(t, f, -1) = prior * TicksPerDay + t - here * TicksPerDay
    BY <1>9 DEF Shift, FirstOf
  <2> HIDE DEF here, next, prior
  <2>6. here * TicksPerDay < next * TicksPerDay /\ prior * TicksPerDay < here * TicksPerDay
    <3>1. here < next /\ prior < here
      BY <2>3, <2>4
    <3> QED
      BY <1>2, <2>4, <3>1, Scale
  <2>7. here * TicksPerDay \in Int /\ next * TicksPerDay \in Int /\ prior * TicksPerDay \in Int
    BY <1>2, <2>4
  <2> QED
    BY <2>5, <2>6, <2>7
<1> QED
  BY <1>4, <1>5, <1>7, <1>8, <1>9 DEF Grain

-----------------------------------------------------------------------------
(***************************************************************************)
(* The grid of a report.                                                   *)
(***************************************************************************)

\* Could the next observation, or one before the first, fall into this period?
Open(p, samples, f) ==
    \/ Shift(Latest(samples), f, 1) < p.end
    \/ Shift(Earliest(samples), f, -1) >= p.start

\* The periods follow each other up to the newest moment's, and no more of them
\* than the cap allows; those that are still open cannot be scored.
Laid(periods, samples, g, f, most) ==
    \E s \in Int :
        /\ s <= Index(g, Latest(samples)) /\ Index(g, Latest(samples)) - s <= most
        /\ GridFrom(periods, g, s, Index(g, Latest(samples)))
        /\ f # "unknown" =>
              \A k \in DOMAIN periods : Open(periods[k], samples, f) => ~Scoreable(periods[k])

\* The moments of the file are counted, each in one of the periods.
Behind(periods, samples, g) ==
    /\ \A k \in DOMAIN periods :
          periods[k].rows = Cardinality(InBucket(samples, g, periods[k].start))
    /\ \A k, j \in DOMAIN periods : periods[k].start = periods[j].start => k = j
    /\ \A i \in DatedIn(samples) :
          \E k \in DOMAIN periods : BucketStart(samples[i].at, g) = periods[k].start

\* A grid that is not cut starts at the first bucket of the query.
WholeFrom(whole, rows, g, sides, i, l, most) ==
    /\ i \in Int /\ i <= l /\ Shiftable(g, i) /\ rows[1].bucket = Begin(g, i)
    /\ whole.cut = (i + most < l)
    /\ ~whole.cut =>
          /\ DOMAIN whole.periods = 1..((l - i) + 1) /\ Len(whole.periods) = (l - i) + 1
          /\ \A k \in 1..((l - i) + 1) :
                whole.periods[k] = Laying(rows, g, sides, FALSE, Begin(g, i), Begin(g, l),
                                          Begin(g, i + (k - 1)))

LEMMA ReindexedIs ==
    ASSUME NEW samples, CoveredSamples(samples), DatedIn(samples) # {}, NEW g \in Grain,
           NEW f \in Frequency, NEW h, h.maxPeriods \in Nat, h.maxPeriods > 1
    PROVE  LET rows == SeriesQuery(samples, g, h)
               sides == BoundariesOf(rows, samples, g, f)
               whole == Reindexed(rows, g, sides, h.maxPeriods)
           IN  /\ Laid(whole.periods, samples, g, f, h.maxPeriods)
               /\ ~Cut(rows, whole.cut, h.maxPeriods) => Behind(whole.periods, samples, g)
               /\ \E i : WholeFrom(whole, rows, g, sides, i, Index(g, Latest(samples)),
                                   h.maxPeriods)
<1> DEFINE rows == SeriesQuery(samples, g, h)
           sides == BoundariesOf(rows, samples, g, f)
           earliest == Earliest(samples)
           latest == Latest(samples)
           l == Index(g, latest)
           most == h.maxPeriods
           whole == Reindexed(rows, g, sides, most)
<1>1. /\ earliest \in Int /\ Covered(earliest) /\ latest \in Int /\ Covered(latest)
      /\ \A j \in DatedIn(samples) : /\ samples[j].at \in Int /\ Covered(samples[j].at)
                                     /\ earliest <= samples[j].at /\ samples[j].at <= latest
  BY SamplesAre
<1>2. /\ rows[Len(rows)].bucket = Begin(g, l)
      /\ \E j \in DatedIn(samples) : rows[1].bucket = Begin(g, Index(g, samples[j].at))
  BY QueryIs
<1>3. PICK j \in DatedIn(samples) : rows[1].bucket = Begin(g, Index(g, samples[j].at))
  BY <1>2
<1>18. Len(rows) \in Nat
  BY QueryIs
<1>19. Len(rows) < h.maxPeriods =>
          /\ \A d \in DatedIn(samples) : rows[1].bucket <= Begin(g, Index(g, samples[d].at))
          /\ \A b : CountFor(rows, b) = Cardinality(InBucket(samples, g, b))
  BY QueryCounts
<1> DEFINE i == Index(g, samples[j].at)
           s == IF i + most < l THEN l - (most - 1) ELSE i
           cut == i + most < l
<1>4. /\ i \in Int /\ l \in Int /\ Index(g, earliest) \in Int
      /\ Index(g, earliest) <= i /\ i <= l
  BY <1>1, LaterIndex
<1>5. Shiftable(g, i) /\ Shiftable(g, l) /\ InCalendar(g, l + 1)
  BY <1>1, Neighbours
<1>6. /\ Begin(g, l) <= latest /\ latest < Begin(g, l + 1)
      /\ Begin(g, l) \in Int /\ Begin(g, l + 1) \in Int
  BY <1>1, CoveredIs, MomentInBucket
<1>7. rows[1].bucket = Begin(g, i)
  BY <1>3
<1> HIDE DEF rows, l, earliest, latest, i, most
<1>8. most \in Nat /\ most > 1
  BY DEF most
<1>9. /\ GridBounds(Begin(g, i), Begin(g, l), g, most) = [start |-> Begin(g, s), cut |-> cut]
      /\ i <= s /\ s <= l /\ l - s <= most /\ Shiftable(g, s)
      /\ cut => i < s
  BY <1>4, <1>5, <1>8, BoundsAre
<1>10. s \in Int /\ cut \in BOOLEAN
  BY <1>4, <1>8
<1>11. /\ sides.tail = ~BucketIsComplete(latest, BucketEnd(Begin(g, l), g), f)
       /\ sides.head = (f # "unknown" /\ Shift(earliest, f, -1) >= Begin(g, i))
  BY <1>2, <1>7, Zenon DEF BoundariesOf, Boundaries, earliest, latest
<1> HIDE DEF sides, s, cut
<1>12. whole = GridOf(rows, g, sides, [start |-> Begin(g, s), cut |-> cut], Begin(g, l))
  BY <1>2, <1>7, <1>9 DEF Reindexed
<1>13. sides.head \in BOOLEAN /\ sides.tail \in BOOLEAN
  BY <1>11 DEF BucketIsComplete
<1> HIDE DEF whole
<1> DEFINE periods == whole.periods
<1>20. /\ whole.cut = cut
       /\ \A k \in DOMAIN periods : periods[k].rows = CountFor(rows, periods[k].start)
       /\ \A k \in DOMAIN periods :
             periods[k] = Laying(rows, g, sides, cut, Begin(g, s), Begin(g, l), periods[k].start)
  <2> DEFINE w == GridOf(rows, g, sides, [start |-> Begin(g, s), cut |-> cut], Begin(g, l))
  <2>3. /\ w.cut = cut
        /\ \A k \in DOMAIN w.periods :
              w.periods[k] = Laying(rows, g, sides, cut, Begin(g, s), Begin(g, l),
                                    w.periods[k].start)
    BY <1>5, <1>9, <1>10, <1>13, GridIs
  <2>4. w = whole
    BY <1>12
  <2> HIDE DEF w
  <2>1. /\ whole.cut = cut
        /\ \A k \in DOMAIN periods :
              periods[k] = Laying(rows, g, sides, cut, Begin(g, s), Begin(g, l), periods[k].start)
    BY <2>3, <2>4
  <2> HIDE DEF periods
  <2>2. \A b : Laying(rows, g, sides, cut, Begin(g, s), Begin(g, l), b).rows = CountFor(rows, b)
    BY DEF Laying, Period, CountFor
  <2> QED
    BY <2>1, <2>2
<1>14. /\ GridFrom(periods, g, s, l)
       /\ sides.head /\ ~cut => ~Scoreable(periods[1])
       /\ sides.tail => ~Scoreable(periods[(l - s) + 1])
  BY <1>5, <1>9, <1>10, <1>12, <1>13, GridIs
<1> HIDE DEF periods
<1>15. /\ DOMAIN periods = 1..((l - s) + 1)
       /\ \A k \in 1..((l - s) + 1) :
             periods[k].start = Begin(g, s + (k - 1)) /\ periods[k].end = Begin(g, s + k)
  BY <1>14 DEF GridFrom, Unjudged
<1>16. ASSUME f # "unknown", NEW k \in DOMAIN periods, Open(periods[k], samples, f)
       PROVE  ~Scoreable(periods[k])
  <2>1. /\ Shift(latest, f, 1) \in Int /\ latest <= Shift(latest, f, 1)
        /\ Shift(earliest, f, -1) \in Int /\ Shift(earliest, f, -1) <= earliest
    BY <1>1, <1>16, ShiftMoves DEF Frequency
  <2>2. k \in 1..((l - s) + 1) /\ s + k \in Int /\ s + (k - 1) \in Int
    BY <1>4, <1>10, <1>15
  <2>3. CASE Shift(latest, f, 1) < Begin(g, s + k)
    <3>1. s + k = l + 1
      <4> SUFFICES ASSUME s + k # l + 1 PROVE FALSE
        OBVIOUS
      <4>1. s <= s + k /\ s + k <= l
        BY <1>4, <1>10, <2>2
      <4>2. Shiftable(g, s + k)
        BY <1>5, <1>9, <2>2, <4>1, Enclosed
      <4>3. Begin(g, s + k) \in Int /\ l - (s + k) \in Nat
            /\ l - (s + k) <= Begin(g, l) - Begin(g, s + k)
        BY <1>5, <4>1, <4>2, BucketsSpread
      <4> QED
        BY <1>1, <1>6, <2>1, <2>3, <4>3
    <3>2. Begin(g, s + k) = Begin(g, l + 1) /\ k = (l - s) + 1
      BY <1>4, <1>10, <2>2, <3>1
    <3>3. BucketEnd(Begin(g, l), g) = Begin(g, l + 1)
      BY <1>4, <1>5, ShiftIs DEF BucketEnd
    <3>4. ~(Shift(latest, f, 1) >= BucketEnd(Begin(g, l), g))
      BY <1>6, <2>1, <2>3, <3>2, <3>3
    <3>5. sides.tail
      BY <1>11, <1>16, <3>4 DEF BucketIsComplete
    <3> QED
      BY <1>14, <3>2, <3>5
  <2>4. CASE Shift(earliest, f, -1) >= Begin(g, s + (k - 1))
    <3>1. InCalendar(g, s + (k - 1)) /\ Shiftable(g, s + (k - 1)) /\ Begin(g, s + (k - 1)) \in Int
      <4>1. s <= s + (k - 1) /\ s + (k - 1) <= l
        BY <1>4, <1>10, <2>2
      <4>2. InCalendar(g, s + (k - 1)) /\ Shiftable(g, s + (k - 1))
        BY <1>5, <1>9, <2>2, <4>1, Enclosed
      <4> QED
        BY <1>5, <4>1, <4>2, BucketsSpread
    <3>2. Begin(g, s + (k - 1)) <= earliest
      BY <1>1, <2>1, <2>4, <3>1
    <3>3. s + (k - 1) <= Index(g, earliest)
      BY <1>1, <3>1, <3>2, CoveredIs, LaterBucket
    <3>4. s = i /\ k = 1
      BY <1>4, <1>9, <1>10, <2>2, <3>3
    <3>5. ~cut
      BY <1>9, <1>4, <3>4
    <3>6. s + (k - 1) = i
      BY <1>4, <3>4
    <3>7. sides.head
      BY <1>11, <1>16, <2>4, <3>6
    <3> QED
      BY <1>14, <3>4, <3>5, <3>7
  <2> QED
    BY <1>15, <1>16, <2>2, <2>3, <2>4 DEF Open, earliest, latest
<1>17. Laid(periods, samples, g, f, most)
  BY <1>9, <1>10, <1>14, <1>16 DEF Laid, l, latest
<1>21. ASSUME ~cut, Len(rows) < most PROVE Behind(periods, samples, g)
  <2>1. s = i
    BY <1>21 DEF s, cut
  <2>2. /\ \A d \in DatedIn(samples) : Begin(g, i) <= Begin(g, Index(g, samples[d].at))
        /\ \A b : CountFor(rows, b) = Cardinality(InBucket(samples, g, b))
    BY <1>7, <1>19, <1>21 DEF most
  <2>3. \A k \in DOMAIN periods :
           periods[k].rows = Cardinality(InBucket(samples, g, periods[k].start))
    BY <1>20, <2>2
  <2>4. ASSUME NEW k \in DOMAIN periods, NEW n \in DOMAIN periods, k < n
        PROVE  periods[k].start # periods[n].start
    <3>1. k \in 1..((l - s) + 1) /\ n \in 1..((l - s) + 1) /\ k \in Int /\ n \in Int
      BY <1>4, <1>10, <1>15
    <3> DEFINE a == s + (k - 1)
               b == s + (n - 1)
    <3>2. a \in Int /\ b \in Int /\ s <= a /\ a <= l /\ s <= b /\ b <= l /\ a < b
      BY <1>4, <1>10, <2>4, <3>1
    <3>3. periods[k].start = Begin(g, a) /\ periods[n].start = Begin(g, b)
      BY <1>15, <3>1
    <3> HIDE DEF a, b
    <3>4. InCalendar(g, a) /\ InCalendar(g, b)
      BY <1>5, <1>9, <3>2, Enclosed
    <3>5. Begin(g, a) < Begin(g, b) /\ Begin(g, a) \in Int /\ Begin(g, b) \in Int
      BY <3>2, <3>4, BucketsFollow
    <3> QED
      BY <3>3, <3>5
  <2>5. \A k, n \in DOMAIN periods : periods[k].start = periods[n].start => k = n
    <3>1. \A k \in DOMAIN periods : k \in Int
      BY <1>15
    <3> QED
      BY <2>4, <3>1
  <2>6. ASSUME NEW d \in DatedIn(samples)
        PROVE  \E k \in DOMAIN periods : BucketStart(samples[d].at, g) = periods[k].start
    <3> DEFINE x == Index(g, samples[d].at)
    <3>1. x \in Int /\ x <= l
      BY <1>1, LaterIndex DEF l, latest
    <3>2. Begin(g, i) <= Begin(g, x) /\ InCalendar(g, x) /\ InCalendar(g, i)
      BY <1>1, <1>5, <2>2, Neighbours DEF Shiftable
    <3>3. BucketStart(samples[d].at, g) = Begin(g, x)
      BY StartsAre
    <3> HIDE DEF x
    <3>4. ~(x < i)
      <4> SUFFICES ASSUME x < i PROVE FALSE
        OBVIOUS
      <4>1. Begin(g, x) < Begin(g, i) /\ Begin(g, x) \in Int /\ Begin(g, i) \in Int
        BY <1>4, <3>1, <3>2, BucketsFollow
      <4> QED
        BY <3>2, <4>1
    <3> DEFINE k == (x - s) + 1
    <3>5. k \in 1..((l - s) + 1) /\ s + (k - 1) = x
      BY <1>4, <2>1, <3>1, <3>4
    <3>6. k \in DOMAIN periods /\ periods[k].start = Begin(g, x)
      BY <1>15, <3>5
    <3> QED
      BY <3>3, <3>6
  <2> QED
    BY <2>3, <2>5, <2>6 DEF Behind
<1>22. ~Cut(rows, whole.cut, most) => ~cut /\ Len(rows) < most
  BY <1>8, <1>18, <1>20 DEF Cut
<1>23. ~Cut(rows, whole.cut, most) => Behind(periods, samples, g)
  BY <1>21, <1>22
<1>24. WholeFrom(whole, rows, g, sides, i, l, most)
  <2>1. whole.cut = (i + most < l)
    BY <1>20 DEF cut
  <2>2. ASSUME ~whole.cut
        PROVE  /\ DOMAIN periods = 1..((l - i) + 1) /\ Len(periods) = (l - i) + 1
               /\ \A k \in 1..((l - i) + 1) :
                     periods[k] = Laying(rows, g, sides, FALSE, Begin(g, i), Begin(g, l),
                                         Begin(g, i + (k - 1)))
    <3>1. s = i /\ cut = FALSE
      BY <1>10, <1>20, <2>1, <2>2 DEF s, cut
    <3>2. Len(periods) = (l - s) + 1
      BY <1>14 DEF GridFrom
    <3>3. \A k \in 1..((l - s) + 1) :
             periods[k] = Laying(rows, g, sides, cut, Begin(g, s), Begin(g, l),
                                 Begin(g, s + (k - 1)))
      <4> SUFFICES ASSUME NEW k \in 1..((l - s) + 1)
                   PROVE  periods[k] = Laying(rows, g, sides, cut, Begin(g, s), Begin(g, l),
                                              Begin(g, s + (k - 1)))
        OBVIOUS
      <4>1. k \in DOMAIN periods /\ periods[k].start = Begin(g, s + (k - 1))
        BY <1>15
      <4>2. periods[k] = Laying(rows, g, sides, cut, Begin(g, s), Begin(g, l),
                                periods[k].start)
        BY <1>20, <4>1
      <4> QED
        BY <4>1, <4>2
    <3> QED
      BY <1>15, <3>1, <3>2, <3>3
  <2> QED
    BY <1>4, <1>5, <1>7, <2>1, <2>2 DEF WholeFrom, periods
<1> QED
  BY <1>17, <1>23, <1>24 DEF periods, whole, most, rows, sides, l, latest

-----------------------------------------------------------------------------
(***************************************************************************)
(* The verdicts: each period keeps its place, an unscoreable one all.      *)
(***************************************************************************)

Run(seq) == seq \in Seq({seq[k] : k \in DOMAIN seq})
Keeps(verdict, p) ==
    /\ verdict.start = p.start /\ verdict.end = p.end /\ verdict.rows = p.rows
    /\ ~Scoreable(p) => verdict = p
Walked(verdicts, periods) ==
    /\ Run(verdicts) /\ Len(verdicts) <= Len(periods)
    /\ \A k \in 1..Len(verdicts) : Keeps(verdicts[k], periods[k])

LEMMA AppendRuns ==
    ASSUME NEW s, Run(s), NEW x
    PROVE  /\ Run(Append(s, x)) /\ Len(s) \in Nat /\ Len(Append(s, x)) = Len(s) + 1
           /\ \A k \in 1..Len(s) : Append(s, x)[k] = s[k]
           /\ Append(s, x)[Len(s) + 1] = x
<1> DEFINE S == {s[k] : k \in DOMAIN s} \cup {x}
           t == Append(s, x)
<1>1. Len(s) \in Nat /\ DOMAIN s = 1..Len(s)
  BY DEF Run
<1>2. s \in Seq(S)
  <2>1. s \in [1..Len(s) -> S]
    <3>1. s = [k \in 1..Len(s) |-> s[k]]
      BY <1>1 DEF Run
    <3> QED
      BY <1>1, <3>1
  <2> QED
    BY <1>1, <2>1
<1>3. /\ t \in Seq(S) /\ Len(t) = Len(s) + 1 /\ t[Len(s) + 1] = x
      /\ \A k \in 1..Len(s) : t[k] = s[k]
  <2> HIDE DEF S
  <2>1. x \in S
    BY DEF S
  <2> QED
    BY <1>1, <1>2, <2>1
<1>4. Run(t)
  <2> HIDE DEF t, S
  <2>1. DOMAIN t = 1..Len(t) /\ Len(t) \in Nat /\ t = [k \in 1..Len(t) |-> t[k]]
    BY <1>3
  <2>2. t \in [1..Len(t) -> {t[k] : k \in DOMAIN t}]
    BY <2>1
  <2> QED
    BY <2>1, <2>2 DEF Run
<1> QED
  BY <1>1, <1>3, <1>4

LEMMA JudgeKeeps ==
    ASSUME NEW p, NEW start, NEW end, Unjudged(p, start, end), NEW periods, NEW priors, NEW method
    PROVE  Keeps(Judge(p, periods, priors, method), p)
<1>1. {"start", "end", "rows", "status", "score", "severity"} \subseteq DOMAIN p
  BY DEF Unjudged, PeriodFields
<1>2. \A x : /\ Evaluate(p, x).start = p.start /\ Evaluate(p, x).end = p.end
             /\ Evaluate(p, x).rows = p.rows
  BY <1>1 DEF Evaluate
<1>3. \/ Judge(p, periods, priors, method) = p
      \/ Scoreable(p) /\ \E x : Judge(p, periods, priors, method) = Evaluate(p, x)
  BY DEF Judge
<1> QED
  BY <1>2, <1>3 DEF Keeps

LEMMA LaidLength ==
    ASSUME NEW samples, CoveredSamples(samples), DatedIn(samples) # {}, NEW g \in Grain,
           NEW periods, NEW f, NEW most, Laid(periods, samples, g, f, most)
    PROVE  Len(periods) \in Nat /\ DOMAIN periods = 1..Len(periods)
<1>1. PICK s \in Int :
        /\ s <= Index(g, Latest(samples)) /\ GridFrom(periods, g, s, Index(g, Latest(samples)))
  BY DEF Laid
<1>2. Latest(samples) \in Int /\ Covered(Latest(samples))
  BY SamplesAre
<1>3. Index(g, Latest(samples)) \in Int
  BY <1>2, Neighbours
<1> QED
  BY <1>1, <1>3 DEF GridFrom

-----------------------------------------------------------------------------
(***************************************************************************)
(* The report: the grid is laid once, then walked.                         *)
(***************************************************************************)

Unlaid == {"idle", "describe", "load", "aggregate"}

\* The grid and the verdicts in hand, for the file and the grain in hand.
LaidFor(h, g, periods, verdicts) ==
    /\ DatedIn(h.samples) # {} /\ g \in Grain
    /\ Laid(periods, h.samples, g, h.frequency, h.maxPeriods)
    /\ Walked(verdicts, periods)

SeriesInv ==
    /\ IF seriesStage = "idle" THEN history = {} ELSE \E h \in Histories : history = {h}
    /\ seriesStage \in Unlaid => judged = <<>>
    /\ seriesStage \in {"describe", "load", "aggregate"} => seriesGrain \in Grain
    /\ seriesStage = "aggregate" => DatedIn(Asked.samples) # {}
    /\ seriesStage = "judge" \/ Reported => LaidFor(Asked, seriesGrain, grid, judged)
    /\ Reported => seriesStage = "done" /\ Len(judged) = Len(grid)

LEMMA AskedIs ==
    ASSUME NEW h \in Histories, history = {h}
    PROVE  /\ Asked = h /\ h \in History /\ CoveredSamples(h.samples)
           /\ h.maxPeriods \in Nat \ {0} /\ h.maxPeriods > 1 /\ h.frequency \in Frequency
<1>1. Asked = h
  BY DEF Asked
<1>2. /\ h \in History /\ h.maxPeriods > 1
      /\ \A i \in DOMAIN h.samples : h.samples[i].at = -1 \/ Covered(h.samples[i].at)
  BY AnomalyAssumption DEF AnomalyAssumption
<1>3. h.samples \in Seq(Sample) /\ h.maxPeriods \in Nat /\ h.frequency \in Frequency
  BY <1>2 DEF History
<1> QED
  BY <1>1, <1>2, <1>3 DEF CoveredSamples

LEMMA AskedStays == ASSUME history' = history PROVE Asked' = Asked
  BY DEF Asked

\* A grain that is not refused is one of the calendar's.
LEMMA ResolvedGrainIs ==
    ASSUME NEW h \in History, GrainFor(h) # "equal_span"
    PROVE  ResolvedGrain(h).grain \in Grain
<1>1. h.grain \in Grain \cup {"none", "equal_span"} /\ h.frequency \in Grain \cup {"unknown"}
  BY DEF History, Frequency
<1>2. GrainFor(h) \in Grain \cup {"unknown"}
  BY <1>1 DEF GrainFor
<1>3. "month" \in Grain
  BY DEF Grain
<1> QED
  BY <1>2, <1>3 DEF ResolvedGrain

LEMMA AskKeepsInv ==
    ASSUME SeriesInv, NEW h \in Histories, AskReport(h) PROVE SeriesInv'
<1>1. /\ seriesStage = "idle" /\ history' = {h} /\ judged' = judged
      /\ \/ seriesStage' = "done" /\ ~Reported'
         \/ seriesStage' = "describe" /\ seriesState' = seriesState /\ GrainFor(h) # "equal_span"
  BY DEF AskReport, Report, Proceed, Reported
<1>2. seriesStage' = "describe" => seriesGrain' = ResolvedGrain(h).grain
  BY DEF AskReport
<1>3. ~Reported /\ judged = <<>>
  BY <1>1 DEF SeriesInv, Unlaid
<1>4. h \in History
  BY AnomalyAssumption DEF AnomalyAssumption
<1>5. seriesStage' = "describe" => seriesGrain' \in Grain
  BY <1>1, <1>2, <1>4, ResolvedGrainIs
<1>6. ~Reported'
  BY <1>1, <1>3 DEF Reported
<1> QED
  BY <1>1, <1>3, <1>5, <1>6 DEF SeriesInv, Unlaid

LEMMA DescribeKeepsInv == ASSUME SeriesInv, DescribeSeries PROVE SeriesInv'
<1>1. /\ seriesStage = "describe" /\ UNCHANGED <<history, seriesGrain, judged>>
      /\ \/ seriesStage' = "done" /\ ~Reported'
         \/ seriesStage' = "load" /\ seriesState' = seriesState
  BY DEF DescribeSeries, Report, Proceed, Reported
<1>2. /\ ~Reported /\ judged = <<>> /\ seriesGrain \in Grain
      /\ \E h \in Histories : history = {h}
  BY <1>1 DEF SeriesInv, Unlaid
<1>3. ~Reported'
  BY <1>1, <1>2 DEF Reported
<1> QED
  BY <1>1, <1>2, <1>3 DEF SeriesInv, Unlaid

LEMMA LoadKeepsInv == ASSUME SeriesInv, LoadSeries PROVE SeriesInv'
<1>1. /\ seriesStage = "load" /\ UNCHANGED <<history, seriesGrain, judged>>
      /\ \/ seriesStage' = "done" /\ ~Reported'
         \/ /\ seriesStage' = "aggregate" /\ seriesState' = seriesState
            /\ DatedIn(Asked.samples) # {}
  BY DEF LoadSeries, Report, Proceed, Reported
<1>2. /\ ~Reported /\ judged = <<>> /\ seriesGrain \in Grain
      /\ \E h \in Histories : history = {h}
  BY <1>1 DEF SeriesInv, Unlaid
<1>3. ~Reported'
  BY <1>1, <1>2 DEF Reported
<1>4. Asked' = Asked
  BY <1>1, AskedStays
<1>5. seriesStage' = "aggregate" => DatedIn(Asked'.samples) # {}
  BY <1>1, <1>4
<1> QED
  BY <1>1, <1>2, <1>3, <1>5 DEF SeriesInv, Unlaid

LEMMA BuildKeepsInv == ASSUME SeriesInv, BuildSeries PROVE SeriesInv'
<1>1. seriesStage = "aggregate" /\ UNCHANGED <<history, seriesGrain, judged>>
  BY DEF BuildSeries
<1>2. /\ ~Reported /\ judged = <<>> /\ seriesGrain \in Grain
      /\ DatedIn(Asked.samples) # {}
  BY <1>1 DEF SeriesInv, Unlaid
<1>3. PICK h \in Histories : history = {h}
  BY <1>1 DEF SeriesInv
<1>4. /\ Asked = h /\ CoveredSamples(h.samples) /\ h.maxPeriods \in Nat \ {0}
      /\ h.maxPeriods > 1 /\ h.frequency \in Frequency /\ Asked' = Asked
  BY <1>1, <1>3, AskedIs, AskedStays
<1> DEFINE rows == SeriesQuery(h.samples, seriesGrain, h)
           sides == BoundariesOf(rows, h.samples, seriesGrain, h.frequency)
           periods == Reindexed(rows, seriesGrain, sides, h.maxPeriods).periods
<1>5. \/ seriesStage' = "done" /\ ~Reported'
      \/ seriesStage' = "judge" /\ seriesState' = seriesState /\ grid' = periods
  BY <1>4 DEF BuildSeries, Report, Proceed, Reported
<1>6. Laid(periods, h.samples, seriesGrain, h.frequency, h.maxPeriods)
  BY <1>2, <1>4, ReindexedIs
<1> HIDE DEF periods
<1>7. ~Reported'
  BY <1>2, <1>5 DEF Reported
<1>8. Walked(<<>>, periods)
  <2>1. Len(periods) \in Nat
    BY <1>1, <1>2, <1>4, <1>6, LaidLength
  <2>2. <<>> \in Seq({<<>>[k] : k \in DOMAIN <<>>}) /\ Len(<<>>) = 0
    OBVIOUS
  <2> QED
    BY <2>1, <2>2 DEF Walked, Run
<1>9. seriesStage' = "judge" => LaidFor(Asked', seriesGrain', grid', judged')
  BY <1>1, <1>2, <1>4, <1>5, <1>6, <1>8 DEF LaidFor
<1> QED
  BY <1>1, <1>3, <1>5, <1>7, <1>9 DEF SeriesInv, Unlaid

LEMMA JudgeKeepsInv == ASSUME SeriesInv, JudgePeriod PROVE SeriesInv'
<1>1. /\ seriesStage = "judge" /\ Len(judged) < Len(grid)
      /\ judged' = Append(judged, Verdict(grid, Len(judged) + 1, Asked))
      /\ UNCHANGED <<seriesStage, history, seriesGrain, grid, seriesState>>
  BY DEF JudgePeriod
<1>2. LaidFor(Asked, seriesGrain, grid, judged) /\ ~Reported
  BY <1>1 DEF SeriesInv
<1>3. PICK h \in Histories : history = {h}
  BY <1>1 DEF SeriesInv
<1>4. Asked = h /\ CoveredSamples(h.samples) /\ Asked' = Asked
  BY <1>1, <1>3, AskedIs, AskedStays
<1>5. /\ Laid(grid, h.samples, seriesGrain, h.frequency, h.maxPeriods)
      /\ Walked(judged, grid) /\ DatedIn(h.samples) # {} /\ seriesGrain \in Grain
  BY <1>2, <1>4 DEF LaidFor
<1> DEFINE k == Len(judged) + 1
           verdict == Verdict(grid, k, Asked)
<1>6. Len(grid) \in Nat /\ DOMAIN grid = 1..Len(grid)
  BY <1>4, <1>5, LaidLength
<1>7. /\ Run(judged') /\ Len(judged) \in Nat /\ Len(judged') = k
      /\ \A j \in 1..Len(judged) : judged'[j] = judged[j]
      /\ judged'[k] = verdict
  BY <1>1, <1>5, AppendRuns DEF Walked
<1>8. Keeps(verdict, grid[k])
  <2>1. k \in DOMAIN grid
    BY <1>1, <1>6, <1>7
  <2>2. \E start, end : Unjudged(grid[k], start, end)
    BY <1>5, <2>1 DEF Laid, GridFrom
  <2> QED
    BY <2>2, JudgeKeeps DEF Verdict
<1> HIDE DEF verdict
<1>9. Walked(judged', grid)
  <2>1. k <= Len(grid)
    BY <1>1, <1>6, <1>7
  <2>2. ASSUME NEW j \in 1..k PROVE Keeps(judged'[j], grid[j])
    <3>1. CASE j = k
      BY <1>7, <1>8, <3>1
    <3>2. CASE j # k
      <4>1. j \in 1..Len(judged)
        BY <1>7, <3>2
      <4> QED
        BY <1>5, <1>7, <4>1 DEF Walked
    <3> QED
      BY <3>1, <3>2
  <2> QED
    BY <1>7, <2>1, <2>2 DEF Walked
<1>10. LaidFor(Asked', seriesGrain', grid', judged')
  BY <1>1, <1>4, <1>5, <1>9 DEF LaidFor
<1>11. seriesStage' = "judge" /\ ~Reported'
  BY <1>1, <1>2 DEF Reported
<1> QED
  BY <1>1, <1>3, <1>10, <1>11 DEF SeriesInv, Unlaid

LEMMA ReportKeepsInv == ASSUME SeriesInv, ReportSeries PROVE SeriesInv'
<1>1. /\ seriesStage = "judge" /\ Len(judged) = Len(grid) /\ seriesStage' = "done"
      /\ UNCHANGED <<history, seriesGrain, grid, judged>>
  BY DEF ReportSeries, Report
<1>2. LaidFor(Asked, seriesGrain, grid, judged) /\ \E h \in Histories : history = {h}
  BY <1>1 DEF SeriesInv
<1>3. Asked' = Asked
  BY <1>1, AskedStays
<1>4. LaidFor(Asked', seriesGrain', grid', judged')
  BY <1>1, <1>2, <1>3
<1> QED
  BY <1>1, <1>2, <1>4 DEF SeriesInv, Unlaid

LEMMA StutterKeepsSeries == ASSUME SeriesInv, UNCHANGED seriesVars PROVE SeriesInv'
<1>1. UNCHANGED <<seriesStage, history, seriesGrain, grid, judged, seriesState>>
  BY DEF seriesVars
<1>2. Asked' = Asked /\ Reported' = Reported
  BY <1>1, AskedStays DEF Reported
<1> QED
  BY <1>1, <1>2 DEF SeriesInv

LEMMA SeriesInductive == ASSUME SeriesInv, [SeriesNext]_seriesVars PROVE SeriesInv'
<1>1. ASSUME NEW h \in Histories, AskReport(h) PROVE SeriesInv'
  BY <1>1, AskKeepsInv
<1>2. CASE DescribeSeries
  BY <1>2, DescribeKeepsInv
<1>3. CASE LoadSeries
  BY <1>3, LoadKeepsInv
<1>4. CASE BuildSeries
  BY <1>4, BuildKeepsInv
<1>5. CASE JudgePeriod
  BY <1>5, JudgeKeepsInv
<1>6. CASE ReportSeries
  BY <1>6, ReportKeepsInv
<1>7. CASE UNCHANGED seriesVars
  BY <1>7, StutterKeepsSeries
<1> QED
  BY <1>1, <1>2, <1>3, <1>4, <1>5, <1>6, <1>7 DEF SeriesNext, SeriesStep

LEMMA SeriesAlways == SeriesSpec => []SeriesInv
<1>1. SeriesInit => SeriesInv
  BY DEF SeriesInit, SeriesInv, Unlaid, Reported
<1> QED
  BY <1>1, SeriesInductive, PTL DEF SeriesSpec

\* What SeriesInv says once there is a report.
LEMMA ReportIs ==
    ASSUME SeriesInv, Reported
    PROVE  /\ CoveredSamples(Asked.samples) /\ DatedIn(Asked.samples) # {} /\ seriesGrain \in Grain
           /\ Asked.maxPeriods \in Nat
           /\ Laid(grid, Asked.samples, seriesGrain, Asked.frequency, Asked.maxPeriods)
           /\ Len(judged) = Len(grid) /\ DOMAIN judged = 1..Len(judged)
           /\ Len(grid) \in Nat /\ DOMAIN grid = DOMAIN judged
           /\ \A k \in DOMAIN judged : Keeps(judged[k], grid[k])
<1>1. seriesStage = "done" /\ Len(judged) = Len(grid) /\ LaidFor(Asked, seriesGrain, grid, judged)
  BY DEF SeriesInv
<1>2. PICK h \in Histories : history = {h}
  BY <1>1 DEF SeriesInv
<1>3. Asked = h /\ CoveredSamples(Asked.samples) /\ Asked.maxPeriods \in Nat
  BY <1>2, AskedIs
<1>4. /\ DatedIn(Asked.samples) # {} /\ seriesGrain \in Grain
      /\ Laid(grid, Asked.samples, seriesGrain, Asked.frequency, Asked.maxPeriods)
      /\ Walked(judged, grid)
  BY <1>1 DEF LaidFor
<1>5. Len(grid) \in Nat /\ DOMAIN grid = 1..Len(grid)
  BY <1>3, <1>4, LaidLength
<1>6. DOMAIN judged = 1..Len(judged)
  BY <1>4 DEF Walked, Run
<1> QED
  BY <1>1, <1>3, <1>4, <1>5, <1>6 DEF Walked

\* However far apart the moments of a file are, the series of a report is bounded by
\* MAX_PERIODS and one, has no holes and ends with the newest row's bucket
\* (anomaly/series.py, grid_bounds and _reindex), whatever the grain and the calendar.
THEOREM GridIsBounded == SeriesSpec => []GridBounded
<1>1. ASSUME SeriesInv PROVE GridBounded
  <2> SUFFICES ASSUME Reported
               PROVE  /\ Len(judged) <= Asked.maxPeriods + 1
                      /\ In(Latest(Asked.samples),
                            Window(judged[Len(judged)].start, judged[Len(judged)].end))
                      /\ \A k \in 2..Len(judged) : judged[k].start = judged[k - 1].end
    BY DEF GridBounded
  <2> DEFINE latest == Latest(Asked.samples)
             l == Index(seriesGrain, latest)
  <2>1. /\ CoveredSamples(Asked.samples) /\ DatedIn(Asked.samples) # {} /\ seriesGrain \in Grain
        /\ Asked.maxPeriods \in Nat /\ Len(judged) = Len(grid)
        /\ Laid(grid, Asked.samples, seriesGrain, Asked.frequency, Asked.maxPeriods)
        /\ DOMAIN judged = 1..Len(judged) /\ Len(grid) \in Nat
        /\ \A k \in DOMAIN judged : Keeps(judged[k], grid[k])
    BY <1>1, ReportIs
  <2>2. latest \in Int /\ Covered(latest)
    BY <2>1, SamplesAre
  <2>3. l \in Int /\ Begin(seriesGrain, l) <= latest /\ latest < Begin(seriesGrain, l + 1)
    BY <2>1, <2>2, CoveredIs, Neighbours, MomentInBucket
  <2>4. PICK s \in Int : s <= l /\ l - s <= Asked.maxPeriods /\ GridFrom(grid, seriesGrain, s, l)
    BY <2>1 DEF Laid
  <2> HIDE DEF l, latest
  <2>5. /\ Len(judged) = (l - s) + 1
        /\ \A k \in 1..((l - s) + 1) : /\ judged[k].start = Begin(seriesGrain, s + (k - 1))
                                       /\ judged[k].end = Begin(seriesGrain, s + k)
    BY <2>1, <2>4 DEF GridFrom, Unjudged, Keeps
  <2>6. Len(judged) <= Asked.maxPeriods + 1
    BY <2>1, <2>3, <2>4, <2>5
  <2>7. In(latest, Window(judged[Len(judged)].start, judged[Len(judged)].end))
    <3>1. (l - s) + 1 \in 1..((l - s) + 1)
      BY <2>3, <2>4
    <3>2. s + (((l - s) + 1) - 1) = l /\ s + ((l - s) + 1) = l + 1
      BY <2>3, <2>4
    <3>3. /\ judged[Len(judged)].start = Begin(seriesGrain, l)
          /\ judged[Len(judged)].end = Begin(seriesGrain, l + 1)
      BY <2>5, <3>1, <3>2
    <3> QED
      BY <2>3, <3>3 DEF In, Window
  <2>8. ASSUME NEW k \in 2..Len(judged) PROVE judged[k].start = judged[k - 1].end
    <3>1. k \in 1..((l - s) + 1) /\ k - 1 \in 1..((l - s) + 1)
      BY <2>3, <2>4, <2>5
    <3> QED
      BY <2>5, <3>1
  <2> QED
    BY <2>6, <2>7, <2>8 DEF latest
<1> QED
  BY <1>1, SeriesAlways, PTL

\* A period that the next observation could still fall into, or that began before the
\* data did, is neither judged nor part of a baseline (partial_boundaries, evaluate and
\* trailing_window), whatever the grain, the data's own step and the calendar.
THEOREM UnfinishedIsLeftOut == SeriesSpec => []UnfinishedNotJudged
<1>1. ASSUME SeriesInv PROVE UnfinishedNotJudged
  <2> SUFFICES ASSUME Reported, Asked.frequency # "unknown", NEW k \in DOMAIN judged,
                      Open(judged[k], Asked.samples, Asked.frequency)
               PROVE  /\ judged[k].status # "EVALUATED"
                      /\ \A j \in DOMAIN judged : k \notin TrailingWindow(judged, j, Asked.window)
    BY Zenon DEF UnfinishedNotJudged, Open
  <2>1. /\ Laid(grid, Asked.samples, seriesGrain, Asked.frequency, Asked.maxPeriods)
        /\ k \in DOMAIN grid /\ Keeps(judged[k], grid[k])
    BY <1>1, ReportIs
  <2>2. Open(grid[k], Asked.samples, Asked.frequency)
    BY <2>1 DEF Open, Keeps
  <2>3. ~Scoreable(grid[k]) /\ grid[k].status # "EVALUATED"
    BY <2>1, <2>2 DEF Laid, GridFrom, Unjudged
  <2>4. judged[k] = grid[k]
    BY <2>1, <2>3 DEF Keeps
  <2> QED
    BY <2>3, <2>4 DEF TrailingWindow
<1> QED
  BY <1>1, SeriesAlways, PTL

-----------------------------------------------------------------------------
(***************************************************************************)
(* Divisors.                                                               *)
(***************************************************************************)

Divides(c, a) == \E q \in Nat : a = c * q

\* The greatest common divisor, by what divides it.
IsDivisor(g, a, b) ==
    g \in Nat /\ \A c \in Nat : Divides(c, a) /\ Divides(c, b) <=> Divides(c, g)

LEMMA Cancel == ASSUME NEW a \in Int, NEW b \in Int, NEW c \in Int, c # 0, a * c = b * c PROVE a = b
<1>1. (a - b) * c = 0
  OBVIOUS
<1>2. a - b \in Int
  OBVIOUS
<1> QED
  BY <1>1, <1>2

LEMMA DividesBack ==
    ASSUME NEW a \in Nat, NEW b \in Nat, Divides(a, b), Divides(b, a) PROVE a = b
<1>1. PICK q \in Nat : b = a * q
  BY DEF Divides
<1>2. PICK r \in Nat : a = b * r
  BY DEF Divides
<1>3. CASE a = 0
  BY <1>1, <1>3
<1>4. CASE a # 0
  <2>1. (q * r) * a = 1 * a
    <3>1. a = (a * q) * r
      BY <1>1, <1>2
    <3>2. (a * q) * r = (q * r) * a
      OBVIOUS
    <3> QED
      BY <3>1, <3>2
  <2>2. q * r = 1
    BY <1>4, <2>1, Cancel
  <2>3. q = 1
    <3>1. q # 0 /\ r # 0
      BY <2>2
    <3>2. q * r >= q
      BY <3>1
    <3> QED
      BY <2>2, <3>1, <3>2
  <2> QED
    BY <1>1, <2>3
<1> QED
  BY <1>3, <1>4

LEMMA DividesSum ==
    ASSUME NEW c \in Nat, NEW a \in Nat, NEW b \in Nat, Divides(c, b)
    PROVE  Divides(c, a + b) <=> Divides(c, a)
<1>1. PICK q \in Nat : b = c * q
  BY DEF Divides
<1>2. ASSUME Divides(c, a) PROVE Divides(c, a + b)
  <2>1. PICK r \in Nat : a = c * r
    BY <1>2 DEF Divides
  <2>2. a + b = c * (r + q) /\ r + q \in Nat
    BY <1>1, <2>1
  <2> QED
    BY <2>2 DEF Divides
<1>3. ASSUME Divides(c, a + b) PROVE Divides(c, a)
  <2>1. PICK r \in Nat : a + b = c * r
    BY <1>3 DEF Divides
  <2>2. a = c * (r - q)
    BY <1>1, <2>1
  <2>3. CASE r - q \in Nat
    BY <2>2, <2>3 DEF Divides
  <2>4. CASE r - q \notin Nat
    <3>1. r - q \in Int /\ r - q < 0
      BY <2>4
    <3>2. c * (r - q) <= 0
      BY <3>1
    <3>3. a = c * 0 /\ 0 \in Nat
      BY <2>2, <3>2
    <3> QED
      BY <3>3 DEF Divides
  <2> QED
    BY <2>3, <2>4
<1> QED
  BY <1>2, <1>3

LEMMA DividesTimes ==
    ASSUME NEW c \in Nat, NEW b \in Nat, NEW n \in Nat, Divides(c, b) PROVE Divides(c, b * n)
<1>1. PICK q \in Nat : b = c * q
  BY DEF Divides
<1>2. b * n = c * (q * n) /\ q * n \in Nat
  <2>1. (c * q) * n = c * (q * n)
    OBVIOUS
  <2> QED
    BY <1>1, <2>1
<1> QED
  BY <1>2 DEF Divides

LEMMA DivisionIs ==
    ASSUME NEW a \in Nat, NEW b \in Nat \ {0}
    PROVE  a \div b \in Nat /\ a % b \in Nat /\ a % b < b /\ a = (a % b) + b * (a \div b)
OBVIOUS

\* One step of Euclid's.
LEMMA EuclidStep ==
    ASSUME NEW a \in Nat, NEW b \in Nat \ {0}, NEW g
    PROVE  IsDivisor(g, a, b) <=> IsDivisor(g, b, a % b)
<1> DEFINE r == a % b
           n == b * (a \div b)
<1>1. r \in Nat /\ n \in Nat /\ a = r + n
  BY DivisionIs
<1>2. ASSUME NEW c \in Nat, Divides(c, b) PROVE Divides(c, a) <=> Divides(c, r)
  <2>1. Divides(c, n)
    BY <1>2, DivisionIs, DividesTimes
  <2> HIDE DEF r, n
  <2> QED
    BY <1>1, <2>1, DividesSum
<1> QED
  BY <1>2 DEF IsDivisor

LEMMA DivisorOne == ASSUME NEW a \in Nat, NEW g \in Nat, NEW h \in Nat, NEW b,
                           IsDivisor(g, a, b), IsDivisor(h, a, b) PROVE g = h
<1>1. Divides(g, g) /\ Divides(h, h)
  <2>1. g = g * 1 /\ h = h * 1 /\ 1 \in Nat
    OBVIOUS
  <2> QED
    BY <2>1 DEF Divides
<1>2. Divides(g, h) /\ Divides(h, g)
  BY <1>1 DEF IsDivisor
<1> QED
  BY <1>2, DividesBack

LEMMA DivisorOfZero == ASSUME NEW a \in Nat PROVE IsDivisor(a, a, 0)
<1>1. \A c \in Nat : Divides(c, 0)
  <2>1. \A c \in Nat : 0 = c * 0
    OBVIOUS
  <2> QED
    BY <2>1 DEF Divides
<1> QED
  BY <1>1 DEF IsDivisor

LEMMA DivisorExists == \A a, b \in Nat : \E g : IsDivisor(g, a, b)
<1> DEFINE S == {n \in Nat : \A a \in Nat, b \in 0..n : \E g : IsDivisor(g, a, b)}
<1>1. 0 \in S
  <2>1. \A a \in Nat, b \in 0..0 : IsDivisor(a, a, b)
    BY DivisorOfZero
  <2> QED
    BY <2>1
<1>2. ASSUME NEW n \in Nat, n \in S PROVE n + 1 \in S
  <2> SUFFICES ASSUME NEW a \in Nat, NEW b \in 0..(n + 1) PROVE \E g : IsDivisor(g, a, b)
    OBVIOUS
  <2>1. CASE b \in 0..n
    BY <1>2, <2>1
  <2>2. CASE b = n + 1
    <3>1. b \in Nat \ {0} /\ a % b \in 0..n
      BY <2>2, DivisionIs
    <3>2. PICK g : IsDivisor(g, b, a % b)
      BY <1>2, <3>1
    <3>3. IsDivisor(g, a, b)
      BY <3>1, <3>2, EuclidStep
    <3> QED
      BY <3>3
  <2> QED
    BY <2>1, <2>2
<1>3. ASSUME NEW a \in Nat, NEW b \in Nat PROVE \E g : IsDivisor(g, a, b)
  <2> HIDE DEF S
  <2>1. \A k \in 0..b : k \in S
    <3>1. \A k \in 0..(b - 1) : k \in Nat
      OBVIOUS
    <3> QED
      BY <1>1, <1>2, <3>1, Climb
  <2>2. b \in S
    BY <2>1
  <2> QED
    BY <2>2 DEF S
<1> QED
  BY <1>3

LEMMA DivisorIs ==
    ASSUME NEW a \in Nat, NEW b \in Nat PROVE IsDivisor(Divisor(a, b), a, b)
<1> DEFINE Steps(f) ==
             f = [p \in Nat \X Nat |-> IF p[2] = 0 THEN p[1] ELSE f[<<p[2], p[1] % p[2]>>]]
           best == [p \in Nat \X Nat |-> CHOOSE g : IsDivisor(g, p[1], p[2])]
           gcd == CHOOSE f : Steps(f)
<1>1. \A p \in Nat \X Nat : IsDivisor(best[p], p[1], p[2]) /\ best[p] \in Nat
  <2> SUFFICES ASSUME NEW p \in Nat \X Nat
               PROVE  IsDivisor(best[p], p[1], p[2]) /\ best[p] \in Nat
    OBVIOUS
  <2>1. p[1] \in Nat /\ p[2] \in Nat
    OBVIOUS
  <2>2. best[p] = CHOOSE g : IsDivisor(g, p[1], p[2])
    OBVIOUS
  <2>3. \E g : IsDivisor(g, p[1], p[2])
    BY <2>1, DivisorExists
  <2> HIDE DEF best
  <2>4. IsDivisor(best[p], p[1], p[2])
    BY <2>2, <2>3
  <2> QED
    BY <2>4 DEF IsDivisor
<1>2. ASSUME NEW p \in Nat \X Nat
      PROVE  best[p] = IF p[2] = 0 THEN p[1] ELSE best[<<p[2], p[1] % p[2]>>]
  <2>1. p[1] \in Nat /\ p[2] \in Nat
    OBVIOUS
  <2>2. CASE p[2] = 0
    BY <1>1, <2>1, <2>2, DivisorOfZero, DivisorOne
  <2>3. CASE p[2] # 0
    <3> DEFINE x == p[1]
               y == p[2]
               q == <<y, x % y>>
    <3>1. x \in Nat /\ y \in Nat \ {0} /\ q \in Nat \X Nat /\ q[1] = y /\ q[2] = x % y
      BY <2>1, <2>3, DivisionIs
    <3>2. IsDivisor(best[q], y, x % y) /\ best[q] \in Nat
      BY <1>1, <3>1
    <3>3. IsDivisor(best[p], x, y) /\ best[p] \in Nat
      BY <1>1
    <3> HIDE DEF x, y, q, best
    <3>4. IsDivisor(best[q], x, y)
      BY <3>1, <3>2, EuclidStep
    <3>5. best[p] = best[q]
      BY <3>1, <3>2, <3>3, <3>4, DivisorOne
    <3> QED
      BY <2>3, <3>5 DEF q, x, y
  <2> QED
    BY <2>2, <2>3
<1>3. Steps(best)
  <2>1. best = [p \in Nat \X Nat |-> best[p]]
    OBVIOUS
  <2> HIDE DEF best
  <2> QED
    BY <1>2, <2>1
<1>4. Steps(gcd)
  <2> HIDE DEF Steps, best
  <2> QED
    BY <1>3
<1>5. \A p \in Nat \X Nat : gcd[p] = IF p[2] = 0 THEN p[1] ELSE gcd[<<p[2], p[1] % p[2]>>]
  <2> HIDE DEF gcd
  <2> QED
    BY <1>4
<1>6. Divisor(a, b) = gcd[<<a, b>>]
  BY DEF Divisor
<1> HIDE DEF gcd, Steps, best
<1> DEFINE S == {n \in Nat : \A x \in Nat, y \in 0..n : IsDivisor(gcd[<<x, y>>], x, y)}
<1>7. 0 \in S
  <2>1. ASSUME NEW x \in Nat, NEW y \in 0..0 PROVE IsDivisor(gcd[<<x, y>>], x, y)
    <3>1. y = 0 /\ <<x, y>> \in Nat \X Nat
      OBVIOUS
    <3>2. gcd[<<x, y>>] = x
      BY <1>5, <3>1
    <3> QED
      BY <3>1, <3>2, DivisorOfZero
  <2> QED
    BY <2>1
<1>8. ASSUME NEW n \in Nat, n \in S PROVE n + 1 \in S
  <2> SUFFICES ASSUME NEW x \in Nat, NEW y \in 0..(n + 1) PROVE IsDivisor(gcd[<<x, y>>], x, y)
    OBVIOUS
  <2>1. CASE y \in 0..n
    BY <1>8, <2>1
  <2>2. CASE y = n + 1
    <3>1. y \in Nat \ {0} /\ x % y \in 0..n /\ <<x, y>> \in Nat \X Nat
      BY <2>2, DivisionIs
    <3>2. gcd[<<x, y>>] = gcd[<<y, x % y>>]
      BY <1>5, <3>1
    <3>3. IsDivisor(gcd[<<y, x % y>>], y, x % y)
      BY <1>8, <3>1
    <3> QED
      BY <3>1, <3>2, <3>3, EuclidStep
  <2> QED
    BY <2>1, <2>2
<1>9. b \in S
  <2> HIDE DEF S
  <2>1. \A k \in 0..b : k \in S
    <3>1. \A k \in 0..(b - 1) : k \in Nat
      OBVIOUS
    <3> QED
      BY <1>7, <1>8, <3>1, Climb
  <2> QED
    BY <2>1
<1> QED
  BY <1>6, <1>9

-----------------------------------------------------------------------------
(***************************************************************************)
(* Lowest terms.                                                           *)
(***************************************************************************)

\* m / e is n / d.
Same(m, e, n, d) == m * d = n * e

\* The fractions equal to n / d are the multiples of m / e.
Primitive(m, e, n, d) ==
    /\ m \in Int /\ e \in Nat \ {0} /\ Same(m, e, n, d)
    /\ \A a \in Int, b \in Nat \ {0} : Same(a, b, n, d) =>
          \E k \in Nat \ {0} : a = m * k /\ b = e * k

LEMMA PrimitiveExists ==
    ASSUME NEW n \in Int, NEW d \in Nat \ {0} PROVE \E m, e : Primitive(m, e, n, d)
<1> DEFINE E == {b \in Nat \ {0} : \E a \in Int : Same(a, b, n, d)}
<1>1. E \in SUBSET Nat /\ E # {}
  <2>1. d \in E
    BY DEF Same
  <2> QED
    BY <2>1
<1>2. PICK e \in E : \A b \in E : e <= b
  BY <1>1, LeastOf
<1>3. PICK m \in Int : Same(m, e, n, d)
  BY <1>2
<1>4. ASSUME NEW a \in Int, NEW b \in Nat \ {0}, Same(a, b, n, d)
      PROVE  \E k \in Nat \ {0} : a = m * k /\ b = e * k
  <2> DEFINE q == b \div e
             r == b % e
  <2>1. e \in Nat \ {0}
    BY <1>2
  <2>2. q \in Nat /\ r \in Nat /\ r < e /\ b = r + e * q
    BY <2>1, DivisionIs
  <2> HIDE DEF q, r
  <2> DEFINE c == a - m * q
  <2>3. c \in Int /\ c * d = n * r
    <3>1. a * d = n * b /\ m * d = n * e
      BY <1>3, <1>4 DEF Same
    <3>2. c * d = a * d - (m * d) * q
      BY <2>2
    <3>3. n * r = n * b - (n * e) * q
      <4>1. r = b - e * q
        BY <2>1, <2>2
      <4>2. n * (b - e * q) = n * b - (n * e) * q
        BY <2>1, <2>2
      <4> QED
        BY <4>1, <4>2
    <3>4. c \in Int
      BY <2>2
    <3> QED
      BY <3>1, <3>2, <3>3, <3>4
  <2> HIDE DEF c
  <2>4. r = 0
    <3> SUFFICES ASSUME r # 0 PROVE FALSE
      OBVIOUS
    <3>1. r \in E
      BY <2>2, <2>3 DEF Same
    <3> QED
      BY <1>2, <2>1, <2>2, <3>1
  <2>5. c = 0
    <3>1. c * d = 0 * d
      BY <2>3, <2>4
    <3> QED
      BY <2>3, <3>1, Cancel
  <2>6. a = m * q /\ b = e * q
    <3>1. a - m * q = 0 /\ m * q \in Int
      BY <2>2, <2>5 DEF c
    <3>2. e * q \in Int
      BY <2>1, <2>2
    <3> QED
      BY <2>2, <2>4, <3>1, <3>2
  <2>7. q # 0
    BY <2>1, <2>6
  <2> QED
    BY <2>2, <2>6, <2>7
<1>5. e \in Nat \ {0}
  BY <1>2
<1>6. Primitive(m, e, n, d)
  BY <1>3, <1>4, <1>5 DEF Primitive
<1> QED
  BY <1>6

LEMMA AbsoluteIs ==
    ASSUME NEW n \in Int
    PROVE  /\ Absolute(n) \in Nat /\ (n = 0 <=> Absolute(n) = 0)
           /\ \A k \in Nat : Absolute(n * k) = Absolute(n) * k
<1>1. Absolute(n) \in Nat /\ (n = 0 <=> Absolute(n) = 0)
  BY DEF Absolute
<1>2. ASSUME NEW k \in Nat PROVE Absolute(n * k) = Absolute(n) * k
  <2>1. CASE n < 0
    <3>1. n * k <= 0 /\ (-n) * k = -(n * k) /\ n * k \in Int
      BY <2>1
    <3> QED
      BY <2>1, <3>1 DEF Absolute
  <2>2. CASE ~(n < 0)
    <3>1. n * k >= 0 /\ n * k \in Int
      BY <2>2
    <3> QED
      BY <2>2, <3>1 DEF Absolute
  <2> QED
    BY <2>1, <2>2
<1> QED
  BY <1>1, <1>2

\* What a fraction is a multiple of is what divides both its parts.
LEMMA MultipleIs ==
    ASSUME NEW n \in Int, NEW d \in Nat \ {0}, NEW m, NEW e, Primitive(m, e, n, d),
           NEW k \in Nat \ {0}, n = m * k, d = e * k
    PROVE  IsDivisor(k, Absolute(n), d)
<1>1. m \in Int /\ e \in Nat \ {0}
  BY DEF Primitive
<1>2. /\ Absolute(n) = k * Absolute(m) /\ Absolute(m) \in Nat /\ Absolute(n) \in Nat
      /\ d = k * e
  <2>1. Absolute(m * k) = Absolute(m) * k
    BY <1>1, AbsoluteIs
  <2>2. Absolute(m) \in Nat /\ Absolute(n) \in Nat
    BY <1>1, AbsoluteIs
  <2>3. Absolute(m) * k = k * Absolute(m) /\ e * k = k * e
    BY <1>1, <2>2
  <2> QED
    BY <2>1, <2>2, <2>3
<1>3. ASSUME NEW c \in Nat, Divides(c, k) PROVE Divides(c, Absolute(n)) /\ Divides(c, d)
  BY <1>1, <1>2, <1>3, DividesTimes
<1>4. ASSUME NEW c \in Nat, Divides(c, Absolute(n)), Divides(c, d) PROVE Divides(c, k)
  <2>1. PICK a \in Nat : Absolute(n) = c * a
    BY <1>4 DEF Divides
  <2>2. PICK b \in Nat : d = c * b
    BY <1>4 DEF Divides
  <2> DEFINE s == IF n < 0 THEN -a ELSE a
  <2>3. s \in Int /\ n = c * s
    <3>1. CASE n < 0
      <4>1. -n = c * a /\ c * (-a) = -(c * a)
        BY <2>1, <3>1 DEF Absolute
      <4> QED
        BY <3>1, <4>1
    <3>2. CASE ~(n < 0)
      BY <2>1, <3>2 DEF Absolute
    <3> QED
      BY <3>1, <3>2
  <2> HIDE DEF s
  <2>4. b \in Nat \ {0} /\ Same(s, b, n, d)
    <3>1. b # 0
      BY <2>2
    <3>2. s * (c * b) = (c * s) * b
      BY <2>3
    <3> QED
      BY <2>2, <2>3, <3>1, <3>2 DEF Same
  <2>5. PICK t \in Nat \ {0} : s = m * t /\ b = e * t
    <3>1. \A x \in Int, y \in Nat \ {0} : Same(x, y, n, d) =>
             \E t \in Nat \ {0} : x = m * t /\ y = e * t
      BY DEF Primitive
    <3> QED
      BY <2>3, <2>4, <3>1
  <2>6. (c * t) * e = k * e
    <3>1. c * (e * t) = (c * t) * e
      BY <1>1
    <3> QED
      BY <1>2, <2>2, <2>5, <3>1
  <2>7. c * t = k
    <3>1. c * t \in Int
      OBVIOUS
    <3> HIDE DEF Primitive
    <3> QED
      BY <1>1, <2>6, <3>1, Cancel
  <2> QED
    BY <2>7 DEF Divides
<1> QED
  BY <1>3, <1>4 DEF IsDivisor

LEMMA LowestIs ==
    ASSUME NEW n \in Int, NEW d \in Nat \ {0}
    PROVE  /\ Lowest(n, d) = [num |-> Lowest(n, d).num, den |-> Lowest(n, d).den]
           /\ Primitive(Lowest(n, d).num, Lowest(n, d).den, n, d)
<1>1. PICK m, e : Primitive(m, e, n, d)
  BY PrimitiveExists
<1>2. m \in Int /\ e \in Nat \ {0}
  BY <1>1 DEF Primitive
<1>3. PICK k \in Nat \ {0} : n = m * k /\ d = e * k
  <2>1. Same(n, d, n, d)
    BY DEF Same
  <2> QED
    BY <1>1, <2>1 DEF Primitive
<1> DEFINE g == IF d = 1 THEN 1 ELSE Divisor(Absolute(n), d)
<1>4. g = k
  <2>1. IsDivisor(k, Absolute(n), d) /\ Absolute(n) \in Nat
    BY <1>1, <1>3, MultipleIs, AbsoluteIs
  <2>2. CASE d = 1
    <3>1. e * k >= k
      BY <1>2
    <3> QED
      BY <1>2, <1>3, <2>2, <3>1
  <2>3. CASE d # 1
    <3>1. IsDivisor(g, Absolute(n), d) /\ g \in Nat
      BY <2>1, <2>3, DivisorIs DEF IsDivisor
    <3> HIDE DEF g
    <3> QED
      BY <2>1, <3>1, DivisorOne
  <2> QED
    BY <2>2, <2>3
<1>5. Lowest(n, d) = [num |-> n \div k, den |-> d \div k]
  BY <1>4 DEF Lowest, Reduced
<1>6. (m * k) \div k = m /\ (e * k) \div k = e
  BY <1>2
<1>7. Lowest(n, d) = [num |-> m, den |-> e]
  BY <1>3, <1>5, <1>6
<1> QED
  BY <1>1, <1>7

-----------------------------------------------------------------------------
(***************************************************************************)
(* Sums of two and of three fractions.                                     *)
(***************************************************************************)

Fraction == {x \in [num : Int, den : Nat \ {0}] : x = Lowest(x.num, x.den)}

LEMMA SameLowest ==
    ASSUME NEW n \in Int, NEW d \in Nat \ {0}, NEW m \in Int, NEW e \in Nat \ {0},
           n * e = m * d
    PROVE  Lowest(n, d) = Lowest(m, e)
<1> DEFINE x == Lowest(n, d)
           y == Lowest(m, e)
<1>1. /\ x = [num |-> x.num, den |-> x.den] /\ Primitive(x.num, x.den, n, d)
      /\ y = [num |-> y.num, den |-> y.den] /\ Primitive(y.num, y.den, m, e)
  BY LowestIs
<1> HIDE DEF x, y
<1> DEFINE a == x.num
           b == x.den
           p == y.num
           q == y.den
<1>2. /\ a \in Int /\ b \in Nat \ {0} /\ p \in Int /\ q \in Nat \ {0}
      /\ a * d = n * b /\ p * e = m * q
  BY <1>1 DEF Primitive, Same
<1>3. \A u \in Int, v \in Nat \ {0} : u * d = n * v => \E k \in Nat \ {0} : u = a * k /\ v = b * k
  BY <1>1 DEF Primitive, Same
<1>4. \A u \in Int, v \in Nat \ {0} : u * e = m * v => \E k \in Nat \ {0} : u = p * k /\ v = q * k
  BY <1>1 DEF Primitive, Same
<1> HIDE DEF a, b, p, q
<1>5. a * e = m * b
  <2>1. (a * e) * d = (m * b) * d
    <3>1. (a * e) * d = (a * d) * e
      BY <1>2
    <3>2. (n * b) * e = (n * e) * b
      BY <1>2
    <3>3. (m * d) * b = (m * b) * d
      BY <1>2
    <3> QED
      BY <1>2, <3>1, <3>2, <3>3
  <2>2. a * e \in Int /\ m * b \in Int /\ d \in Int /\ d # 0
    BY <1>2
  <2> QED
    BY <2>1, <2>2, Cancel
<1>6. p * d = n * q
  <2>1. (p * d) * e = (n * q) * e
    <3>1. (p * d) * e = (p * e) * d
      BY <1>2
    <3>2. (m * q) * d = (m * d) * q
      BY <1>2
    <3>3. (n * e) * q = (n * q) * e
      BY <1>2
    <3> QED
      BY <1>2, <3>1, <3>2, <3>3
  <2>2. p * d \in Int /\ n * q \in Int /\ e \in Int /\ e # 0
    BY <1>2
  <2> QED
    BY <2>1, <2>2, Cancel
<1>7. PICK k \in Nat \ {0} : p = a * k /\ q = b * k
  BY <1>2, <1>3, <1>6
<1>8. PICK l \in Nat \ {0} : a = p * l /\ b = q * l
  BY <1>2, <1>4, <1>5
<1>9. Divides(b, q) /\ Divides(q, b)
  BY <1>7, <1>8 DEF Divides
<1>10. b = q
  BY <1>2, <1>9, DividesBack
<1>11. k = 1
  <2>1. k * b = 1 * b
    <3>1. b * k = k * b
      BY <1>2
    <3> QED
      BY <1>2, <1>7, <1>10, <3>1
  <2> QED
    BY <1>2, <2>1, Cancel
<1>12. a = p
  BY <1>2, <1>7, <1>11
<1> QED
  BY <1>1, <1>10, <1>12 DEF a, b, p, q, x, y

LEMMA LowestIn ==
    ASSUME NEW n \in Int, NEW d \in Nat \ {0}
    PROVE  Lowest(n, d) \in Fraction /\ Lowest(n, d).num * d = n * Lowest(n, d).den
<1> DEFINE x == Lowest(n, d)
<1>1. x = [num |-> x.num, den |-> x.den] /\ Primitive(x.num, x.den, n, d)
  BY LowestIs
<1> HIDE DEF x
<1>2. x.num \in Int /\ x.den \in Nat \ {0} /\ x.num * d = n * x.den
  BY <1>1 DEF Primitive, Same
<1>3. Lowest(x.num, x.den) = Lowest(n, d)
  BY <1>2, SameLowest
<1>4. x \in [num : Int, den : Nat \ {0}]
  BY <1>1, <1>2
<1> QED
  BY <1>2, <1>3, <1>4 DEF x, Fraction

LEMMA FracIs == ASSUME NEW n \in Int, NEW d \in Nat \ {0} PROVE Frac(n, d) = Lowest(n, d)
<1>1. ~(d < 0) /\ Absolute(d) = d
  BY DEF Absolute
<1> QED
  BY <1>1 DEF Frac

LEMMA WholeIs == ASSUME NEW i \in Int PROVE Whole(i) \in Fraction
<1>1. Lowest(i, 1) = Whole(i)
  <2>1. i \div 1 = i /\ 1 \div 1 = 1
    OBVIOUS
  <2> QED
    BY <2>1 DEF Lowest, Reduced, Whole
<1> QED
  BY <1>1, LowestIn

LEMMA PlusIs ==
    ASSUME NEW x \in Fraction, NEW y \in Fraction
    PROVE  /\ Plus(x, y) = Lowest(x.num * y.den + y.num * x.den, x.den * y.den)
           /\ Plus(x, y) \in Fraction /\ Plus(x, y) = Plus(y, x) /\ Plus(x, Zero) = x
           /\ Plus(x, y).num * (x.den * y.den)
                = (x.num * y.den + y.num * x.den) * Plus(x, y).den
<1> DEFINE a == x.num
           b == x.den
           p == y.num
           q == y.den
<1>1. a \in Int /\ b \in Nat \ {0} /\ p \in Int /\ q \in Nat \ {0} /\ x = Lowest(a, b)
  BY DEF Fraction
<1>2. Plus(x, y) = Frac(a * q + p * b, b * q) /\ Plus(y, x) = Frac(p * b + a * q, q * b)
  BY DEF Plus
<1>3. Plus(x, Zero) = Frac(a * 1 + 0 * b, b * 1)
  BY DEF Plus, Zero, Whole
<1> HIDE DEF a, b, p, q
<1>4. a * q + p * b \in Int /\ b * q \in Nat \ {0}
  <2>1. a * q \in Int /\ p * b \in Int /\ b * q \in Nat
    BY <1>1
  <2>2. b * q # 0
    BY <1>1
  <2> QED
    BY <2>1, <2>2
<1>5. p * b + a * q = a * q + p * b /\ q * b = b * q /\ a * 1 + 0 * b = a /\ b * 1 = b
  BY <1>1
<1>6. Plus(x, y) = Lowest(a * q + p * b, b * q) /\ Plus(y, x) = Plus(x, y) /\ Plus(x, Zero) = x
  BY <1>1, <1>2, <1>3, <1>4, <1>5, FracIs
<1> QED
  BY <1>4, <1>6, LowestIn DEF a, b, p, q

LEMMA ThreeIs ==
    ASSUME NEW x \in Fraction, NEW y \in Fraction, NEW z \in Fraction
    PROVE  Plus(Plus(x, y), z) =
             Lowest(x.num * y.den * z.den + y.num * x.den * z.den + z.num * x.den * y.den,
                    x.den * y.den * z.den)
<1> DEFINE s == Plus(x, y)
           a == x.num
           b == x.den
           c == y.num
           d == y.den
           e == z.num
           f == z.den
           m == s.num
           n == s.den
<1>1. s \in Fraction /\ m * (b * d) = (a * d + c * b) * n
  BY PlusIs
<1>2. Plus(s, z) = Lowest(m * f + e * n, n * f)
  BY <1>1, PlusIs
<1> HIDE DEF s
<1>3. /\ a \in Int /\ b \in Nat \ {0} /\ c \in Int /\ d \in Nat \ {0}
      /\ e \in Int /\ f \in Nat \ {0} /\ m \in Int /\ n \in Nat \ {0}
  BY <1>1 DEF Fraction
<1> HIDE DEF a, b, c, d, e, f, m, n
<1> DEFINE top == a * d * f + c * b * f + e * b * d
           bottom == b * d * f
<1>4. top \in Int /\ bottom \in Nat \ {0} /\ m * f + e * n \in Int /\ n * f \in Nat \ {0}
  <2>1. a * d * f \in Int /\ c * b * f \in Int /\ e * b * d \in Int /\ m * f \in Int /\ e * n \in Int
    BY <1>3
  <2>2. b * d \in Nat \ {0} /\ n * f \in Nat \ {0}
    BY <1>3
  <2>3. (b * d) * f \in Nat \ {0}
    BY <1>3, <2>2
  <2> QED
    BY <2>1, <2>2, <2>3
<1>5. (m * f + e * n) * bottom = top * (n * f)
  <2>1. (m * f + e * n) * bottom = (m * (b * d)) * (f * f) + e * n * b * d * f
    BY <1>3
  <2>2. top * (n * f) = ((a * d + c * b) * n) * (f * f) + e * n * b * d * f
    BY <1>3
  <2> QED
    BY <1>1, <2>1, <2>2 DEF a, b, c, d, m, n
<1> HIDE DEF top, bottom
<1>6. Lowest(m * f + e * n, n * f) = Lowest(top, bottom)
  BY <1>4, <1>5, SameLowest
<1> QED
  BY <1>2, <1>6 DEF top, bottom, s, a, b, c, d, e, f, m, n

LEMMA PlusAssociates ==
    ASSUME NEW x \in Fraction, NEW y \in Fraction, NEW z \in Fraction
    PROVE  Plus(Plus(x, y), z) = Plus(x, Plus(y, z))
<1> DEFINE a == x.num
           b == x.den
           c == y.num
           d == y.den
           e == z.num
           f == z.den
<1>1. /\ a \in Int /\ b \in Int /\ c \in Int /\ d \in Int /\ e \in Int /\ f \in Int
  BY DEF Fraction
<1>2. Plus(Plus(x, y), z) = Lowest(a * d * f + c * b * f + e * b * d, b * d * f)
  BY ThreeIs
<1>3. Plus(Plus(y, z), x) = Lowest(c * f * b + e * d * b + a * d * f, d * f * b)
  BY ThreeIs
<1> HIDE DEF a, b, c, d, e, f
<1>4. /\ a * d * f + c * b * f + e * b * d = c * f * b + e * d * b + a * d * f
      /\ b * d * f = d * f * b
  BY <1>1
<1>5. Plus(x, Plus(y, z)) = Plus(Plus(y, z), x)
  BY PlusIs
<1> QED
  BY <1>2, <1>3, <1>4, <1>5

-----------------------------------------------------------------------------
(***************************************************************************)
(* Sums of any number of fractions, in any order.                          *)
(***************************************************************************)

Upto(S, n) == {s \in SUBSET S : Cardinality(s) <= n}

\* The sums over the subsets of a function's domain, one member at a time.
SumsOf(sums, of) ==
    /\ sums[{}] = Zero
    /\ \A s \in SUBSET DOMAIN of : \A x \in s : sums[s] = Plus(of[x], sums[s \ {x}])

LEMMA SubsetsAre ==
    ASSUME NEW S, IsFiniteSet(S)
    PROVE  /\ \A s \in SUBSET S : IsFiniteSet(s) /\ Cardinality(s) \in Nat
           /\ \A s \in SUBSET S : \A x \in s : /\ s \ {x} \in SUBSET S
                                               /\ Cardinality(s \ {x}) = Cardinality(s) - 1
           /\ \A s \in SUBSET S : Cardinality(s) = 0 <=> s = {}
           /\ \E n \in Nat : \A s \in SUBSET S : Cardinality(s) <= n
<1>1. \A s \in SUBSET S : IsFiniteSet(s) /\ Cardinality(s) \in Nat /\ Cardinality(s) <= Cardinality(S)
  BY Fewer
<1>2. ASSUME NEW s \in SUBSET S, NEW x \in s
      PROVE  s \ {x} \in SUBSET S /\ Cardinality(s \ {x}) = Cardinality(s) - 1
  BY <1>1, FS_RemoveElement
<1>3. \A s \in SUBSET S : Cardinality(s) = 0 <=> s = {}
  BY <1>1, FS_EmptySet
<1>4. Cardinality(S) \in Nat
  BY FS_CardinalityType
<1> QED
  BY <1>1, <1>2, <1>3, <1>4

\* One fold for every subset of a set.
FoldsOver(f, S, of, pick) ==
    f = [s \in SUBSET S |-> IF s = {} THEN Zero ELSE Plus(of[pick[s]], f[s \ {pick[s]}])]

LEMMA FoldExists ==
    ASSUME NEW S, IsFiniteSet(S), NEW of, NEW pick, \A s \in SUBSET S : s # {} => pick[s] \in s
    PROVE  \E f : FoldsOver(f, S, of, pick)
<1> DEFINE Folds(f, T) ==
             f = [s \in T |-> IF s = {} THEN Zero ELSE Plus(of[pick[s]], f[s \ {pick[s]}])]
           A == {n \in Nat : \E f : Folds(f, Upto(S, n))}
<1>1. /\ \A s \in SUBSET S : Cardinality(s) \in Nat
      /\ \A s \in SUBSET S : \A x \in s : /\ s \ {x} \in SUBSET S
                                          /\ Cardinality(s \ {x}) = Cardinality(s) - 1
      /\ \A s \in SUBSET S : Cardinality(s) = 0 <=> s = {}
  BY SubsetsAre
<1>2. 0 \in A
  <2> DEFINE f == [s \in Upto(S, 0) |-> Zero]
  <2>1. \A s \in Upto(S, 0) : s = {}
    <3>1. \A s \in Upto(S, 0) : Cardinality(s) = 0
      BY <1>1 DEF Upto
    <3> QED
      BY <1>1, <3>1 DEF Upto
  <2>2. Folds(f, Upto(S, 0))
    BY <2>1
  <2> QED
    BY <2>2
<1>3. ASSUME NEW n \in Nat, n \in A PROVE n + 1 \in A
  <2>1. PICK f : Folds(f, Upto(S, n))
    BY <1>3
  <2> DEFINE g == [s \in Upto(S, n + 1) |->
                     IF s = {} THEN Zero ELSE Plus(of[pick[s]], f[s \ {pick[s]}])]
  <2>2. \A s \in Upto(S, n) : s \in Upto(S, n + 1)
    BY <1>1 DEF Upto
  <2>3. \A s \in Upto(S, n) : g[s] = f[s]
    BY <2>1, <2>2
  <2>4. ASSUME NEW s \in Upto(S, n + 1), s # {} PROVE s \ {pick[s]} \in Upto(S, n)
    <3>1. s \in SUBSET S /\ Cardinality(s) <= n + 1 /\ pick[s] \in s
      BY <2>4 DEF Upto
    <3>2. Cardinality(s \ {pick[s]}) = Cardinality(s) - 1 /\ Cardinality(s) \in Nat
          /\ s \ {pick[s]} \in SUBSET S
      BY <1>1, <3>1
    <3>3. Cardinality(s \ {pick[s]}) <= n
      BY <3>1, <3>2
    <3> QED
      BY <3>2, <3>3 DEF Upto
  <2>5. \A s \in Upto(S, n + 1) :
           g[s] = IF s = {} THEN Zero ELSE Plus(of[pick[s]], g[s \ {pick[s]}])
    BY <2>3, <2>4
  <2>6. g = [s \in Upto(S, n + 1) |-> g[s]]
    OBVIOUS
  <2> HIDE DEF g
  <2>7. Folds(g, Upto(S, n + 1))
    BY <2>5, <2>6
  <2> HIDE DEF Folds
  <2>8. \E h : Folds(h, Upto(S, n + 1))
    BY <2>7
  <2> QED
    BY <2>8
<1>4. PICK n \in Nat : \A s \in SUBSET S : Cardinality(s) <= n
  BY SubsetsAre
<1>5. Upto(S, n) = SUBSET S
  BY <1>4 DEF Upto
<1>6. n \in A
  <2> HIDE DEF A
  <2>1. \A k \in 0..n : k \in A
    <3>1. \A k \in 0..(n - 1) : k \in Nat
      OBVIOUS
    <3> QED
      BY <1>2, <1>3, <3>1, Climb
  <2> QED
    BY <2>1
<1>7. \E f : Folds(f, SUBSET S)
  BY <1>5, <1>6
<1> QED
  BY <1>7 DEF FoldsOver

LEMMA SummedFolds ==
    ASSUME NEW of, IsFiniteSet(DOMAIN of)
    PROVE  \E iter, pick :
              /\ \A s \in SUBSET DOMAIN of : s # {} => pick[s] \in s
              /\ \A s \in SUBSET DOMAIN of :
                    iter[s] = IF s = {} THEN Zero ELSE Plus(of[pick[s]], iter[s \ {pick[s]}])
              /\ Summed(of) = iter[DOMAIN of]
<1> DEFINE S == DOMAIN of
           choose(s) == CHOOSE x \in s : TRUE
           pick == [s \in SUBSET S |-> choose(s)]
           Folds(f) == f = [s \in SUBSET S |->
                              IF s = {} THEN Zero ELSE Plus(of[choose(s)], f[s \ {choose(s)}])]
           iter == CHOOSE f : Folds(f)
<1>1. Summed(of) = iter[S]
  <2> HIDE DEF S
  <2> QED
    BY Zenon DEF Summed, MapThenFoldSet, S
<1>2. \A s \in SUBSET S : pick[s] = choose(s) /\ (s # {} => pick[s] \in s)
  OBVIOUS
<1> HIDE DEF S, pick, choose
<1>3. PICK f : FoldsOver(f, S, of, pick)
  <2>1. IsFiniteSet(S)
    BY DEF S
  <2> QED
    BY <1>2, <2>1, FoldExists
<1>4. Folds(f)
  <2>1. \A s \in SUBSET S : f[s] =
          (IF s = {} THEN Zero ELSE Plus(of[choose(s)], f[s \ {choose(s)}]))
    BY <1>2, <1>3 DEF FoldsOver
  <2>2. f = [s \in SUBSET S |-> f[s]]
    BY <1>3 DEF FoldsOver
  <2> QED
    BY <2>1, <2>2
<1>5. Folds(iter)
  <2> HIDE DEF Folds
  <2> QED
    BY <1>4
<1>6. \A s \in SUBSET S : iter[s] =
          (IF s = {} THEN Zero ELSE Plus(of[pick[s]], iter[s \ {pick[s]}]))
  <2>1. \A s \in SUBSET S : iter[s] =
          (IF s = {} THEN Zero ELSE Plus(of[choose(s)], iter[s \ {choose(s)}]))
    <3> HIDE DEF iter
    <3> QED
      BY <1>5
  <2> HIDE DEF iter
  <2> QED
    BY <1>2, <2>1
<1> HIDE DEF iter
<1> QED
  BY <1>1, <1>2, <1>6 DEF S

\* Whichever member is taken first.
LEMMA SumsAre ==
    ASSUME NEW of, IsFiniteSet(DOMAIN of), \A x \in DOMAIN of : of[x] \in Fraction
    PROVE  \E sums : /\ SumsOf(sums, of) /\ Summed(of) = sums[DOMAIN of]
                     /\ \A s \in SUBSET DOMAIN of : sums[s] \in Fraction
<1> DEFINE S == DOMAIN of
<1>1. PICK iter, pick :
        /\ \A s \in SUBSET S : s # {} => pick[s] \in s
        /\ \A s \in SUBSET S :
              iter[s] = IF s = {} THEN Zero ELSE Plus(of[pick[s]], iter[s \ {pick[s]}])
        /\ Summed(of) = iter[S]
  BY SummedFolds
<1>2. IsFiniteSet(S) /\ \A x \in S : of[x] \in Fraction
  OBVIOUS
<1> HIDE DEF S
<1>3. /\ \A s \in SUBSET S : Cardinality(s) \in Nat
      /\ \A s \in SUBSET S : \A x \in s : /\ s \ {x} \in SUBSET S
                                          /\ Cardinality(s \ {x}) = Cardinality(s) - 1
      /\ \A s \in SUBSET S : Cardinality(s) = 0 <=> s = {}
  BY <1>2, SubsetsAre
<1> DEFINE Ordered(s) == /\ iter[s] \in Fraction
                         /\ \A x \in s : iter[s] = Plus(of[x], iter[s \ {x}])
           A == {n \in Nat : \A s \in SUBSET S : Cardinality(s) <= n => Ordered(s)}
<1>4. Zero \in Fraction /\ iter[{}] = Zero
  <2>1. {} \in SUBSET S
    OBVIOUS
  <2>2. iter[{}] = Zero
    BY <1>1, <2>1
  <2> QED
    BY <2>2, WholeIs DEF Zero
<1>5. 0 \in A
  <2>1. ASSUME NEW s \in SUBSET S, Cardinality(s) <= 0 PROVE Ordered(s)
    <3>1. s = {}
      BY <1>3, <2>1
    <3> QED
      BY <1>4, <3>1
  <2> QED
    BY <2>1
<1>6. ASSUME NEW n \in Nat, n \in A PROVE n + 1 \in A
  <2> SUFFICES ASSUME NEW s \in SUBSET S, Cardinality(s) <= n + 1 PROVE Ordered(s)
    OBVIOUS
  <2>1. CASE s = {}
    BY <1>4, <2>1
  <2>2. CASE s # {}
    <3> DEFINE y == pick[s]
               t == s \ {y}
    <3>1. y \in s /\ iter[s] = Plus(of[y], iter[t])
      BY <1>1, <2>2
    <3>2. \A x \in s : /\ s \ {x} \in SUBSET S /\ Cardinality(s \ {x}) <= n
                       /\ Ordered(s \ {x})
      <4> SUFFICES ASSUME NEW x \in s
                   PROVE  s \ {x} \in SUBSET S /\ Cardinality(s \ {x}) <= n /\ Ordered(s \ {x})
        OBVIOUS
      <4>1. s \ {x} \in SUBSET S /\ Cardinality(s \ {x}) <= n
        BY <1>3
      <4> HIDE DEF Ordered
      <4> QED
        BY <1>6, <4>1
    <3> HIDE DEF y
    <3>3. iter[t] \in Fraction /\ of[y] \in Fraction
      BY <1>2, <3>1, <3>2
    <3>4. iter[s] \in Fraction
      BY <3>1, <3>3, PlusIs
    <3>5. ASSUME NEW x \in s PROVE iter[s] = Plus(of[x], iter[s \ {x}])
      <4>1. CASE x = y
        BY <3>1, <4>1
      <4>2. CASE x # y
        <5> DEFINE u == s \ {x}
                   r == t \ {x}
        <5>1. x \in t /\ y \in u /\ r = u \ {y}
          BY <3>1, <4>2
        <5>2. /\ iter[t] = Plus(of[x], iter[r])
              /\ iter[u] = Plus(of[y], iter[r])
          BY <3>1, <3>2, <5>1
        <5>3. iter[r] \in Fraction
          <6>1. t \in SUBSET S /\ Cardinality(t) <= n /\ x \in t
            BY <3>1, <3>2, <5>1
          <6>2. r \in SUBSET S /\ Cardinality(r) = Cardinality(t) - 1 /\ Cardinality(t) \in Nat
            BY <1>3, <6>1
          <6> HIDE DEF t, r
          <6>3. Cardinality(r) <= n
            BY <6>1, <6>2
          <6> HIDE DEF Ordered
          <6>4. Ordered(r)
            BY <1>6, <6>2, <6>3
          <6> QED
            BY <6>4 DEF Ordered
        <5> HIDE DEF u, r, t
        <5>4. of[x] \in Fraction
          BY <1>2
        <5> DEFINE a == of[x]
                   b == of[y]
                   c == iter[r]
        <5>5. a \in Fraction /\ b \in Fraction /\ c \in Fraction
          BY <3>3, <5>3, <5>4
        <5> HIDE DEF a, b, c
        <5>6. Plus(b, Plus(a, c)) = Plus(Plus(b, a), c)
          BY <5>5, PlusAssociates
        <5>7. Plus(b, a) = Plus(a, b)
          BY <5>5, PlusIs
        <5>8. Plus(Plus(a, b), c) = Plus(a, Plus(b, c))
          BY <5>5, PlusAssociates
        <5> QED
          BY <3>1, <5>2, <5>6, <5>7, <5>8 DEF a, b, c, u
      <4> QED
        BY <4>1, <4>2
    <3> QED
      BY <3>4, <3>5
  <2> QED
    BY <2>1, <2>2
<1>7. \A s \in SUBSET S : Ordered(s)
  <2>1. PICK n \in Nat : \A s \in SUBSET S : Cardinality(s) <= n
    BY <1>2, SubsetsAre
  <2>2. n \in A
    <3> HIDE DEF A
    <3>1. \A k \in 0..n : k \in A
      <4>1. \A k \in 0..(n - 1) : k \in Nat
        OBVIOUS
      <4> QED
        BY <1>5, <1>6, <4>1, Climb
    <3> QED
      BY <3>1
  <2> HIDE DEF Ordered
  <2> QED
    BY <2>1, <2>2
<1>8. SumsOf(iter, of)
  BY <1>4, <1>7 DEF SumsOf, S
<1> QED
  BY <1>1, <1>7, <1>8 DEF S

\* There is one way to sum, by whatever route.
LEMMA SumIs ==
    ASSUME NEW of, IsFiniteSet(DOMAIN of), \A x \in DOMAIN of : of[x] \in Fraction,
           NEW m, m[{}] = Zero,
           \A s \in SUBSET DOMAIN of : s # {} => \E x \in s : m[s] = Plus(of[x], m[s \ {x}])
    PROVE  Summed(of) = m[DOMAIN of]
<1> DEFINE S == DOMAIN of
<1>1. PICK sums : SumsOf(sums, of) /\ Summed(of) = sums[S]
  BY SumsAre
<1>2. IsFiniteSet(S) /\ \A s \in SUBSET S : s # {} => \E x \in s : m[s] = Plus(of[x], m[s \ {x}])
  OBVIOUS
<1>3. sums[{}] = Zero /\ \A s \in SUBSET S : \A x \in s : sums[s] = Plus(of[x], sums[s \ {x}])
  BY <1>1 DEF SumsOf
<1> HIDE DEF S
<1>4. /\ \A s \in SUBSET S : Cardinality(s) \in Nat
      /\ \A s \in SUBSET S : \A x \in s : /\ s \ {x} \in SUBSET S
                                          /\ Cardinality(s \ {x}) = Cardinality(s) - 1
      /\ \A s \in SUBSET S : Cardinality(s) = 0 <=> s = {}
  BY <1>2, SubsetsAre
<1> DEFINE A == {n \in Nat : \A s \in SUBSET S : Cardinality(s) <= n => m[s] = sums[s]}
<1>5. 0 \in A
  <2>1. ASSUME NEW s \in SUBSET S, Cardinality(s) <= 0 PROVE m[s] = sums[s]
    <3>1. s = {}
      BY <1>4, <2>1
    <3> QED
      BY <1>3, <3>1
  <2> QED
    BY <2>1
<1>6. ASSUME NEW n \in Nat, n \in A PROVE n + 1 \in A
  <2> SUFFICES ASSUME NEW s \in SUBSET S, Cardinality(s) <= n + 1 PROVE m[s] = sums[s]
    OBVIOUS
  <2>1. CASE s = {}
    BY <1>3, <2>1
  <2>2. CASE s # {}
    <3>1. PICK x \in s : m[s] = Plus(of[x], m[s \ {x}])
      BY <1>2, <2>2
    <3>2. s \ {x} \in SUBSET S /\ Cardinality(s \ {x}) <= n
      BY <1>4
    <3> QED
      BY <1>3, <1>6, <3>1, <3>2
  <2> QED
    BY <2>1, <2>2
<1>7. PICK n \in Nat : \A s \in SUBSET S : Cardinality(s) <= n
  BY <1>2, SubsetsAre
<1>8. n \in A
  <2> HIDE DEF A
  <2>1. \A k \in 0..n : k \in A
    <3>1. \A k \in 0..(n - 1) : k \in Nat
      OBVIOUS
    <3> QED
      BY <1>5, <1>6, <3>1, Climb
  <2> QED
    BY <2>1
<1>9. S \in SUBSET S
  OBVIOUS
<1> QED
  BY <1>1, <1>7, <1>8, <1>9 DEF S

LEMMA SumInFraction ==
    ASSUME NEW of, IsFiniteSet(DOMAIN of), \A x \in DOMAIN of : of[x] \in Fraction
    PROVE  Summed(of) \in Fraction
<1>1. DOMAIN of \in SUBSET DOMAIN of
  OBVIOUS
<1> QED
  BY <1>1, SumsAre

\* The members may go by other names.
LEMMA SameSum ==
    ASSUME NEW of, IsFiniteSet(DOMAIN of), \A x \in DOMAIN of : of[x] \in Fraction,
           NEW as,
           NEW o, DOMAIN o = DOMAIN as,
           \A j \in DOMAIN as : o[j] \in DOMAIN of /\ as[j] = of[o[j]],
           \A j, k \in DOMAIN as : o[j] = o[k] => j = k,
           \A x \in DOMAIN of : \E j \in DOMAIN as : o[j] = x
    PROVE  Summed(as) = Summed(of)
<1> DEFINE S == DOMAIN of
           T == DOMAIN as
           image(t) == {o[j] : j \in t}
<1>1. PICK sums : SumsOf(sums, of) /\ Summed(of) = sums[S]
  BY SumsAre
<1>2. sums[{}] = Zero /\ \A s \in SUBSET S : \A x \in s : sums[s] = Plus(of[x], sums[s \ {x}])
  BY <1>1 DEF SumsOf
<1> DEFINE m == [t \in SUBSET T |-> sums[image(t)]]
<1>3. IsFiniteSet(T) /\ \A j \in T : as[j] \in Fraction
  <2> DEFINE f == [j \in T |-> o[j]]
  <2>1. f \in Injection(T, S)
    BY DEF Injection, IsInjective
  <2> HIDE DEF f, T, S
  <2>2. IsFiniteSet(S)
    BY DEF S
  <2>3. IsFiniteSet(T)
    BY <2>1, <2>2, FS_Injection
  <2>4. \A j \in T : as[j] \in Fraction
    BY DEF T, S
  <2> QED
    BY <2>3, <2>4
<1>4. ASSUME NEW t \in SUBSET T, NEW j \in t PROVE m[t] = Plus(as[j], m[t \ {j}])
  <2>5. /\ \A x : x \in image(t) <=> \E k \in t : o[k] = x
        /\ \A x : x \in image(t \ {j}) <=> \E k \in t \ {j} : o[k] = x
    BY ZenonT(40)
  <2>6. j \in T /\ \A k \in t : k \in T
    BY <1>4
  <2>7. /\ \A k \in T : o[k] \in S /\ as[k] = of[o[k]]
        /\ \A k, l \in T : o[k] = o[l] => k = l
    OBVIOUS
  <2> HIDE DEF image, S, T
  <2>1. image(t) \in SUBSET S /\ o[j] \in image(t) /\ as[j] = of[o[j]]
    <3>1. ASSUME NEW x \in image(t) PROVE x \in S
      <4>1. PICK k \in t : o[k] = x
        BY <2>5, <3>1
      <4>2. k \in T
        BY <2>6, <4>1
      <4>3. o[k] \in S
        BY <2>7, <4>2
      <4> QED
        BY <4>1, <4>3
    <3>2. o[j] \in image(t)
      BY <1>4, <2>5
    <3> QED
      BY <2>6, <2>7, <3>1, <3>2
  <2>2. image(t) \ {o[j]} = image(t \ {j})
    <3>1. ASSUME NEW x \in image(t), x # o[j] PROVE x \in image(t \ {j})
      <4>1. PICK k \in t : o[k] = x
        BY <2>5, <3>1
      <4>2. k \in t \ {j}
        BY <3>1, <4>1
      <4> QED
        BY <2>5, <4>1, <4>2
    <3>2. ASSUME NEW x \in image(t \ {j}) PROVE x \in image(t) /\ x # o[j]
      <4>1. PICK k \in t \ {j} : o[k] = x
        BY <2>5, <3>2
      <4>2. k \in T /\ k # j /\ k \in t
        BY <2>6, <4>1
      <4> QED
        BY <2>5, <2>6, <2>7, <4>1, <4>2
    <3> QED
      BY <3>1, <3>2
  <2>3. sums[image(t)] = Plus(of[o[j]], sums[image(t) \ {o[j]}])
    BY <1>2, <2>1
  <2>4. m[t] = sums[image(t)] /\ m[t \ {j}] = sums[image(t \ {j})]
    BY <1>4 DEF m
  <2> HIDE DEF m
  <2> QED
    BY <2>1, <2>2, <2>3, <2>4
<1>5. m[{}] = Zero
  <2>1. image({}) = {} /\ {} \in SUBSET T
    OBVIOUS
  <2> HIDE DEF image
  <2> QED
    BY <1>2, <2>1
<1>6. m[T] = sums[S]
  <2>1. image(T) = S /\ T \in SUBSET T
    <3>1. \A x : x \in image(T) <=> \E k \in T : o[k] = x
      OBVIOUS
    <3>2. \A k \in T : o[k] \in S
      OBVIOUS
    <3>3. \A x \in S : \E k \in T : o[k] = x
      OBVIOUS
    <3> HIDE DEF image, S, T
    <3>4. ASSUME NEW x PROVE x \in image(T) <=> x \in S
      <4>1. x \in image(T) <=> \E k \in T : o[k] = x
        BY <3>1
      <4>2. ASSUME NEW k \in T, o[k] = x PROVE x \in S
        BY <3>2, <4>2
      <4>3. ASSUME x \in S PROVE \E k \in T : o[k] = x
        BY <3>3, <4>3
      <4> QED
        BY <4>1, <4>2, <4>3
    <3> QED
      BY <3>4
  <2> HIDE DEF image
  <2> QED
    BY <2>1
<1>7. \A t \in SUBSET T : t # {} => \E j \in t : m[t] = Plus(as[j], m[t \ {j}])
  <2> HIDE DEF m
  <2> QED
    BY <1>4
<1> HIDE DEF m, image, S
<1>8. Summed(as) = m[DOMAIN as]
  BY <1>3, <1>5, <1>7, SumIs DEF T
<1> QED
  BY <1>1, <1>6, <1>8

LEMMA WholeSum == \A a, b \in Int : Plus(Whole(a), Whole(b)) = Whole(a + b)
<1> SUFFICES ASSUME NEW a \in Int, NEW b \in Int PROVE Plus(Whole(a), Whole(b)) = Whole(a + b)
  OBVIOUS
<1>1. Plus(Whole(a), Whole(b)) = Lowest(a + b, 1)
  <2>1. /\ Whole(a).num * Whole(b).den + Whole(b).num * Whole(a).den = a + b
        /\ Whole(a).den * Whole(b).den = 1
    BY DEF Whole
  <2> QED
    BY <2>1, WholeIs, PlusIs
<1>2. (a + b) \div 1 = a + b /\ 1 \div 1 = 1
  OBVIOUS
<1> QED
  BY <1>1, <1>2 DEF Lowest, Reduced, Whole

CountedBy(ps, D, at) ==
    /\ IsFiniteSet(DOMAIN ps) /\ IsFiniteSet(D)
    /\ \A k \in DOMAIN ps : ps[k].rows = Cardinality({i \in D : at[i] = ps[k].start})
    /\ \A k, l \in DOMAIN ps : ps[k].start = ps[l].start => k = l
    /\ \A i \in D : \E k \in DOMAIN ps : at[i] = ps[k].start

CountsOf(ps) == [k \in DOMAIN ps |-> Whole(ps[k].rows)]

\* The counts of the periods add up to the number of the members, if each member is of
\* one period.
LEMMA SumOfCounts ==
    ASSUME NEW ps, NEW D, NEW at, CountedBy(ps, D, at)
    PROVE  Summed(CountsOf(ps)) = Whole(Cardinality(D))
<1>0. /\ IsFiniteSet(DOMAIN ps) /\ IsFiniteSet(D)
      /\ \A k \in DOMAIN ps : ps[k].rows = Cardinality({i \in D : at[i] = ps[k].start})
      /\ \A k, l \in DOMAIN ps : ps[k].start = ps[l].start => k = l
      /\ \A i \in D : \E k \in DOMAIN ps : at[i] = ps[k].start
  BY DEF CountedBy
<1> USE <1>0
<1> DEFINE S == DOMAIN ps
           of == [k \in S |-> Whole(ps[k].rows)]
           behind(s) == {i \in D : \E k \in s : at[i] = ps[k].start}
           sums == [s \in SUBSET S |-> Whole(Cardinality(behind(s)))]
<1>1. DOMAIN of = S /\ \A k \in S : of[k] \in Fraction
  <2>1. ASSUME NEW k \in S PROVE of[k] \in Fraction
    <3> DEFINE own == {i \in D : at[i] = ps[k].start}
    <3>1. own \subseteq D
      OBVIOUS
    <3>2. of[k] = Whole(Cardinality(own))
      OBVIOUS
    <3> HIDE DEF own, of
    <3>3. Cardinality(own) \in Int
      BY <3>1, Fewer
    <3> QED
      BY <3>2, <3>3, WholeIs
  <2> QED
    BY <2>1
<1>2. \A s \in SUBSET S : IsFiniteSet(behind(s)) /\ Cardinality(behind(s)) \in Nat
  <2>1. \A s : behind(s) \subseteq D
    OBVIOUS
  <2> HIDE DEF behind
  <2> QED
    BY <2>1, Fewer
<1>3. ASSUME NEW s \in SUBSET S, NEW x \in s
      PROVE  sums[s] = Plus(of[x], sums[s \ {x}])
  <2> DEFINE rest == s \ {x}
             own == {i \in D : at[i] = ps[x].start}
  <2>1. x \in s /\ x \in S /\ rest \in SUBSET S
    BY <1>3
  <2>2. of[x] = Whole(Cardinality(own))
    BY <2>1
  <2>3. behind(s) = own \cup behind(rest) /\ own \cap behind(rest) = {}
    BY <2>1
  <2>4. IsFiniteSet(own)
    <3>1. own \subseteq D
      OBVIOUS
    <3> HIDE DEF own
    <3> QED
      BY <3>1, Fewer
  <2> HIDE DEF own, behind, rest
  <2>5. Cardinality(behind(s)) = Cardinality(own) + Cardinality(behind(rest))
    <3> DEFINE B == behind(rest)
    <3>1. IsFiniteSet(B) /\ behind(s) = own \cup B /\ own \cap B = {}
      BY <1>2, <2>1, <2>3
    <3> HIDE DEF B
    <3>2. Cardinality(own \cup B) = Cardinality(own) + Cardinality(B) - Cardinality(own \cap B)
      BY <2>4, <3>1, FS_Union
    <3>3. Cardinality(own \cap B) = 0 /\ Cardinality(own) \in Nat /\ Cardinality(B) \in Nat
      BY <2>4, <3>1, FS_EmptySet, FS_CardinalityType
    <3>4. Cardinality(behind(s)) = Cardinality(own) + Cardinality(B)
      BY <3>1, <3>2, <3>3
    <3> QED
      BY <3>4 DEF B
  <2>6. Cardinality(own) \in Int /\ Cardinality(behind(rest)) \in Int
    BY <1>2, <2>1, <2>4, FS_CardinalityType
  <2>7. sums[s] = Whole(Cardinality(behind(s))) /\ sums[rest] = Whole(Cardinality(behind(rest)))
    BY <1>3, <2>1
  <2> HIDE DEF sums, of
  <2>8. sums[s] = Plus(of[x], sums[rest])
    BY <2>2, <2>5, <2>6, <2>7, WholeSum
  <2> QED
    BY <2>8 DEF rest
<1>4. sums[{}] = Zero
  <2>1. behind({}) = {} /\ {} \in SUBSET S
    OBVIOUS
  <2>2. Cardinality(behind({})) = 0
    BY <2>1, FS_EmptySet
  <2> HIDE DEF behind
  <2> QED
    BY <2>1, <2>2 DEF Zero
<1>5. \A s \in SUBSET S : s # {} => \E x \in s : sums[s] = Plus(of[x], sums[s \ {x}])
  <2> HIDE DEF sums, of
  <2> QED
    BY <1>3
<1>6. sums[S] = Whole(Cardinality(D))
  <2>1. behind(S) = D /\ S \in SUBSET S
    OBVIOUS
  <2> HIDE DEF behind
  <2> QED
    BY <2>1 DEF sums
<1>7. IsFiniteSet(DOMAIN of)
  BY <1>1
<1> HIDE DEF sums, of, behind, S
<1>8. Summed(of) = sums[S]
  <2>1. /\ \A k \in DOMAIN of : of[k] \in Fraction
        /\ \A s \in SUBSET DOMAIN of : s # {} => \E x \in s : sums[s] = Plus(of[x], sums[s \ {x}])
    BY <1>1, <1>5
  <2>2. Summed(of) = sums[DOMAIN of]
    BY ONLY <1>4, <1>7, <2>1, SumIs
  <2> QED
    BY <1>1, <2>2
<1> QED
  BY <1>6, <1>8 DEF CountsOf, of, S

-----------------------------------------------------------------------------
(***************************************************************************)
(* Every row is counted or the report says that the series was cut.        *)
(***************************************************************************)

CountsInv ==
    seriesStage = "judge" \/ Reported =>
        \/ "SERIES_TRUNCATED" \in remarks
        \/ Behind(grid, Asked.samples, seriesGrain)

LEMMA BuildKeepsCounts == ASSUME SeriesInv, BuildSeries PROVE CountsInv'
<1>1. seriesStage = "aggregate" /\ UNCHANGED <<history, seriesGrain>>
  BY DEF BuildSeries
<1>2. ~Reported /\ seriesGrain \in Grain /\ DatedIn(Asked.samples) # {}
  BY <1>1 DEF SeriesInv, Unlaid
<1>3. PICK h \in Histories : history = {h}
  BY <1>1 DEF SeriesInv
<1>4. /\ Asked = h /\ CoveredSamples(h.samples) /\ h.maxPeriods \in Nat \ {0}
      /\ h.maxPeriods > 1 /\ h.frequency \in Frequency /\ Asked' = Asked
  BY <1>1, <1>3, AskedIs, AskedStays
<1> DEFINE rows == SeriesQuery(h.samples, seriesGrain, h)
           sides == BoundariesOf(rows, h.samples, seriesGrain, h.frequency)
           whole == Reindexed(rows, seriesGrain, sides, h.maxPeriods)
<1>5. \/ seriesStage' = "done" /\ ~Reported'
      \/ /\ grid' = whole.periods
         /\ Cut(rows, whole.cut, h.maxPeriods) => "SERIES_TRUNCATED" \in remarks'
  BY <1>4 DEF BuildSeries, Report, Reported
<1>6. ~Cut(rows, whole.cut, h.maxPeriods) => Behind(whole.periods, h.samples, seriesGrain)
  BY <1>2, <1>4, ReindexedIs
<1> HIDE DEF whole, rows
<1> QED
  BY <1>1, <1>4, <1>5, <1>6 DEF CountsInv

LEMMA CountsInductive == ASSUME SeriesInv, CountsInv, [SeriesNext]_seriesVars PROVE CountsInv'
<1>1. ASSUME \/ \E h \in Histories : AskReport(h)
             \/ DescribeSeries \/ LoadSeries
      PROVE  CountsInv'
  <2>1. ~Reported
    BY <1>1 DEF SeriesInv, AskReport, DescribeSeries, LoadSeries, Reported
  <2>2. seriesStage' # "judge" /\ ~Reported'
    BY <1>1, <2>1 DEF AskReport, DescribeSeries, LoadSeries, Report, Proceed, Reported
  <2> QED
    BY <2>2 DEF CountsInv
<1>2. CASE BuildSeries
  BY <1>2, BuildKeepsCounts
<1>3. CASE JudgePeriod \/ ReportSeries \/ UNCHANGED seriesVars
  <2>1. /\ UNCHANGED <<history, seriesGrain, grid>> /\ remarks \subseteq remarks'
        /\ seriesStage' = "judge" \/ Reported' => seriesStage = "judge" \/ Reported
    BY <1>3 DEF JudgePeriod, ReportSeries, seriesVars, Report, Reported
  <2>2. Asked' = Asked
    BY <2>1, AskedStays
  <2> QED
    BY <2>1, <2>2 DEF CountsInv
<1> QED
  BY <1>1, <1>2, <1>3 DEF SeriesNext, SeriesStep

\* However the rows of a file are spread, each of them is counted in a period of the
\* series unless it has no date or the report says that the series was cut
\* (anomaly_service.run, the notices of _series, and anomaly/series.py): at every
\* grain, for every cap and every calendar, no row of the file is left out in silence.
THEOREM RowsAreAccountedFor == SeriesSpec => []RowsAccountedFor
<1>1. ASSUME SeriesInv, CountsInv PROVE RowsAccountedFor
  <2> DEFINE at == [i \in DatedIn(Asked.samples) |-> BucketStart(Asked.samples[i].at, seriesGrain)]
             D == DatedIn(Asked.samples)
  <2> SUFFICES ASSUME Reported, "SERIES_TRUNCATED" \notin remarks
               PROVE  SumOver(DOMAIN judged, LAMBDA k : Whole(judged[k].rows))
                        = Whole(Cardinality(D))
    BY Zenon DEF RowsAccountedFor
  <2>1. /\ CoveredSamples(Asked.samples) /\ D # {} /\ seriesGrain \in Grain
        /\ DOMAIN judged = 1..Len(judged) /\ Len(judged) \in Nat /\ DOMAIN grid = DOMAIN judged
        /\ \A k \in DOMAIN judged : Keeps(judged[k], grid[k])
    BY <1>1, ReportIs
  <2>2. Behind(grid, Asked.samples, seriesGrain)
    BY <1>1 DEF CountsInv
  <2>3. IsFiniteSet(D)
    BY <2>1, SamplesAre
  <2>4. IsFiniteSet(DOMAIN judged)
    BY <2>1, FS_Interval
  <2>5. \A k \in DOMAIN judged : judged[k].start = grid[k].start /\ judged[k].rows = grid[k].rows
    BY <2>1 DEF Keeps
  <2>6. \A b : InBucket(Asked.samples, seriesGrain, b) = {i \in D : at[i] = b}
    BY DEF InBucket
  <2>7. \A k \in DOMAIN judged : judged[k].rows = Cardinality({i \in D : at[i] = judged[k].start})
    <3> HIDE DEF at, D
    <3>1. \A k \in DOMAIN judged :
             judged[k].rows = Cardinality(InBucket(Asked.samples, seriesGrain, judged[k].start))
      BY <2>1, <2>2, <2>5 DEF Behind
    <3> QED
      BY <2>6, <3>1
  <2>8. \A k, l \in DOMAIN judged : judged[k].start = judged[l].start => k = l
    BY <2>1, <2>2, <2>5 DEF Behind
  <2>9. \A i \in D : \E k \in DOMAIN judged : at[i] = judged[k].start
    BY <2>1, <2>2, <2>5 DEF Behind
  <2>10. SumOver(DOMAIN judged, LAMBDA k : Whole(judged[k].rows))
            = Summed([k \in DOMAIN judged |-> Whole(judged[k].rows)])
    BY Zenon DEF SumOver
  <2> HIDE DEF at, D
  <2>11. Summed([k \in DOMAIN judged |-> Whole(judged[k].rows)]) = Whole(Cardinality(D))
    <3>1. CountedBy(judged, D, at)
      BY ONLY <2>3, <2>4, <2>7, <2>8, <2>9 DEF CountedBy
    <3>2. Summed(CountsOf(judged)) = Whole(Cardinality(D))
      BY ONLY <3>1, SumOfCounts
    <3> QED
      BY ONLY <3>2 DEF CountsOf
  <2> QED
    BY <2>10, <2>11
<1>2. SeriesInit => CountsInv
  BY DEF SeriesInit, CountsInv, Reported
<1> QED
  BY <1>1, <1>2, SeriesAlways, CountsInductive, PTL DEF SeriesSpec

-----------------------------------------------------------------------------
(***************************************************************************)
(* The file as it was before a moment.                                     *)
(***************************************************************************)

Places(samples, b) == {i \in DOMAIN samples : samples[i].at >= 0 /\ samples[i].at < b}
Earlier(samples, b) == Picked(samples, Places(samples, b))

\* Its rows are those of the file that are dated before the moment.
Renames(o, early, samples, b) ==
    /\ DOMAIN o = DOMAIN early
    /\ \A j \in DOMAIN early : /\ o[j] \in DatedIn(samples) /\ samples[o[j]].at < b
                               /\ early[j] = samples[o[j]]
    /\ \A j, k \in DOMAIN early : o[j] = o[k] => j = k
    /\ \A i \in DatedIn(samples) : samples[i].at < b => \E j \in DOMAIN early : o[j] = i

LEMMA EarlierIs ==
    ASSUME NEW samples, CoveredSamples(samples), NEW b \in Int
    PROVE  /\ CoveredSamples(Earlier(samples, b))
           /\ DatedIn(Earlier(samples, b)) = DOMAIN Earlier(samples, b)
           /\ \E o : Renames(o, Earlier(samples, b), samples, b)
<1> DEFINE early == Earlier(samples, b)
           places == Places(samples, b)
<1>1. places \in SUBSET DOMAIN samples /\ samples \in Seq(Sample)
  BY DEF Places, CoveredSamples
<1>2. /\ early \in Seq(Sample)
      /\ \E o : /\ Lists(o, places) /\ DOMAIN early = DOMAIN o
                /\ \A k \in DOMAIN o : early[k] = samples[o[k]]
  BY <1>1, PickedIs DEF Earlier
<1>3. PICK o : /\ Lists(o, places) /\ DOMAIN early = DOMAIN o
               /\ \A k \in DOMAIN o : early[k] = samples[o[k]]
  BY <1>2
<1>4. \A i : i \in places <=> i \in DatedIn(samples) /\ samples[i].at < b
  BY DEF Places, DatedIn
<1> HIDE DEF early, places
<1>5. /\ \A k \in DOMAIN o : o[k] \in places
      /\ \A i \in places : \E k \in DOMAIN o : o[k] = i
      /\ \A i, j \in DOMAIN o : o[i] = o[j] => i = j
  BY <1>3 DEF Lists, ToSet
<1>6. Renames(o, early, samples, b)
  BY <1>3, <1>4, <1>5 DEF Renames
<1>7. \A j \in DOMAIN early : early[j].at >= 0 /\ Covered(early[j].at)
  <2>1. \A i \in DatedIn(samples) : samples[i].at >= 0 /\ Covered(samples[i].at)
    <3>1. \A i \in DatedIn(samples) : i \in DOMAIN samples /\ samples[i].at >= 0
      BY DEF DatedIn
    <3>2. \A i \in DOMAIN samples : samples[i].at = -1 \/ Covered(samples[i].at)
      BY DEF CoveredSamples
    <3>3. \A i \in DatedIn(samples) : samples[i].at # -1
      BY <3>1
    <3> QED
      BY <3>1, <3>2, <3>3
  <2> QED
    BY <1>6, <2>1 DEF Renames
<1>8. DatedIn(early) = DOMAIN early
  BY <1>7 DEF DatedIn
<1>9. CoveredSamples(early)
  BY <1>2, <1>7 DEF CoveredSamples
<1> QED
  BY <1>6, <1>8, <1>9 DEF early

-----------------------------------------------------------------------------
(***************************************************************************)
(* What the same rows add up to, whatever their places in the file.        *)
(***************************************************************************)

\* A set and its members' other names.
Paired(o, T, S) ==
    /\ \A j \in T : o[j] \in S
    /\ \A j, k \in T : o[j] = o[k] => j = k
    /\ \A i \in S : \E j \in T : o[j] = i

LEMMA SameCount ==
    ASSUME NEW S, IsFiniteSet(S), NEW T, NEW o, Paired(o, T, S)
    PROVE  IsFiniteSet(T) /\ Cardinality(T) = Cardinality(S)
<1> DEFINE f == [j \in T |-> o[j]]
<1>1. f \in Injection(T, S)
  BY DEF Injection, IsInjective, Paired
<1>2. f \in Surjection(T, S)
  <2>1. \A j \in T : f[j] \in S /\ f[j] = o[j]
    BY DEF Paired
  <2>2. \A i \in S : \E j \in T : f[j] = i
    BY <2>1 DEF Paired
  <2>3. f \in [T -> S]
    BY <2>1
  <2> HIDE DEF f
  <2> QED
    BY <2>2, <2>3 DEF Surjection
<1> HIDE DEF f
<1> QED
  BY <1>1, <1>2, FS_Injection

\* Two lists of the same numbers, whatever their places are called.
Renumbered(as, of, o) ==
    /\ IsFiniteSet(DOMAIN of) /\ \A i \in DOMAIN of : of[i] \in Fraction
    /\ Paired(o, DOMAIN as, DOMAIN of) /\ \A j \in DOMAIN as : as[j] = of[o[j]]

LEMMA SameTotal ==
    ASSUME NEW of, NEW as, NEW o, Renumbered(as, of, o)
    PROVE  Summed(as) = Summed(of)
<1> DEFINE f == [j \in DOMAIN as |-> o[j]]
<1>1. IsFiniteSet(DOMAIN of) /\ \A x \in DOMAIN of : of[x] \in Fraction
  BY DEF Renumbered
<1>2. DOMAIN f = DOMAIN as /\ \A j \in DOMAIN as : f[j] \in DOMAIN of /\ as[j] = of[f[j]]
  BY DEF Renumbered, Paired
<1>3. /\ \A j, k \in DOMAIN as : f[j] = f[k] => j = k
      /\ \A x \in DOMAIN of : \E j \in DOMAIN as : f[j] = x
  <2>1. \A j \in DOMAIN as : f[j] = o[j]
    OBVIOUS
  <2> HIDE DEF f
  <2> QED
    BY <2>1 DEF Renumbered, Paired
<1> HIDE DEF f
<1> QED
  BY ONLY <1>1, <1>2, <1>3, SameSum

ValuesIn(of) == {of[i] : i \in DOMAIN of}
LEMMA SameValuesIn ==
    ASSUME NEW of, NEW as, NEW o, Renumbered(as, of, o)
    PROVE  ValuesIn(as) = ValuesIn(of)
<1> USE DEF ValuesIn
<1>1. ASSUME NEW j \in DOMAIN as PROVE as[j] \in ValuesIn(of)
  BY DEF Renumbered, Paired
<1>2. ASSUME NEW i \in DOMAIN of PROVE of[i] \in ValuesIn(as)
  <2>1. PICK j \in DOMAIN as : o[j] = i
    BY DEF Renumbered, Paired
  <2> QED
    BY <2>1 DEF Renumbered
<1> QED
  BY <1>1, <1>2

\* As many of the ones as of the others pass a test.
LEMMA SameShare ==
    ASSUME NEW S, IsFiniteSet(S), NEW T, NEW o, Paired(o, T, S),
           NEW A, NEW B, A \subseteq T, B \subseteq S, \A j \in T : j \in A <=> o[j] \in B
    PROVE  Cardinality(A) = Cardinality(B)
<1>1. IsFiniteSet(B)
  BY Fewer
<1>2. Paired(o, A, B)
  BY DEF Paired
<1> QED
  BY <1>1, <1>2, SameCount

LEMMA SameNth ==
    ASSUME NEW of, NEW as, NEW o, Renumbered(as, of, o), NEW k
    PROVE  Nth(as, k) = Nth(of, k)
<1> DEFINE S == DOMAIN of
           T == DOMAIN as
           V == {of[i] : i \in S}
           W == {as[j] : j \in T}
           Less1(u) == {i \in S : Less(of[i], u)}
           Less2(u) == {j \in T : Less(as[j], u)}
           Upto1(u) == {i \in S : AtMost(of[i], u)}
           Upto2(u) == {j \in T : AtMost(as[j], u)}
           P == {u \in V : Cardinality(Less1(u)) < k /\ k <= Cardinality(Upto1(u))}
           Q == {u \in W : Cardinality(Less2(u)) < k /\ k <= Cardinality(Upto2(u))}
<1>1. IsFiniteSet(S) /\ Paired(o, T, S) /\ \A j \in T : as[j] = of[o[j]]
  BY DEF Renumbered
<1>2. W = V
  <2>1. ValuesIn(as) = ValuesIn(of)
    BY SameValuesIn
  <2> QED
    BY Zenon, <2>1 DEF ValuesIn
<1>3. ASSUME NEW u
      PROVE  /\ Cardinality(Less2(u)) = Cardinality(Less1(u))
             /\ Cardinality(Upto2(u)) = Cardinality(Upto1(u))
  <2>1. /\ Less2(u) \subseteq T /\ Less1(u) \subseteq S
        /\ \A j \in T : j \in Less2(u) <=> o[j] \in Less1(u)
    <3> HIDE DEF S, T
    <3> QED
      BY <1>1 DEF Paired
  <2>2. /\ Upto2(u) \subseteq T /\ Upto1(u) \subseteq S
        /\ \A j \in T : j \in Upto2(u) <=> o[j] \in Upto1(u)
    <3> HIDE DEF S, T
    <3> QED
      BY <1>1 DEF Paired
  <2> HIDE DEF Less1, Less2, Upto1, Upto2, S, T
  <2>3. Cardinality(Less2(u)) = Cardinality(Less1(u))
    BY ONLY <1>1, <2>1, SameShare
  <2>4. Cardinality(Upto2(u)) = Cardinality(Upto1(u))
    BY ONLY <1>1, <2>2, SameShare
  <2> QED
    BY <2>3, <2>4
<1>4. Q = P
  <2> HIDE DEF V, W, Less1, Less2, Upto1, Upto2
  <2> QED
    BY <1>2, <1>3
<1>5. Nth(as, k) = CHOOSE v \in Q : TRUE
  BY Zenon DEF Nth
<1>6. Nth(of, k) = CHOOSE v \in P : TRUE
  BY Zenon DEF Nth
<1> HIDE DEF P, Q
<1> QED
  BY <1>4, <1>5, <1>6

\* The same numbers have the same aggregate, whichever it is.
LEMMA SameAggregateOf ==
    ASSUME NEW of, NEW as, NEW o, Renumbered(as, of, o), NEW aggregation
    PROVE  Aggregate(as, aggregation) = Aggregate(of, aggregation)
<1> DEFINE Made(n, distinct, total, first, last, median) ==
             CASE aggregation = "COUNT" -> {Whole(n)}
               [] aggregation = "COUNT_DISTINCT" -> {Whole(distinct)}
               [] aggregation \notin {"COUNT", "COUNT_DISTINCT"} /\ n = 0 -> {}
               [] aggregation = "SUM" /\ n # 0 -> {total}
               [] aggregation = "AVG" /\ n # 0 -> {Over(total, Whole(n))}
               [] aggregation = "MIN" /\ n # 0 -> {first}
               [] aggregation = "MAX" /\ n # 0 -> {last}
               [] aggregation = "MEDIAN" /\ n # 0 -> {median}
           n == Cardinality(DOMAIN of)
           m == Cardinality(DOMAIN as)
<1>1. m = n
  BY SameCount DEF Renumbered
<1>2. {as[j] : j \in DOMAIN as} = {of[i] : i \in DOMAIN of}
  <2>1. ValuesIn(as) = ValuesIn(of)
    BY SameValuesIn
  <2> QED
    BY Zenon, <2>1 DEF ValuesIn
<1>3. Summed(as) = Summed(of)
  BY SameTotal
<1>4. \A k : Nth(as, k) = Nth(of, k)
  BY SameNth
<1>5. MedianOf(as) = MedianOf(of)
  BY <1>1, <1>4 DEF MedianOf
<1>6. Aggregate(of, aggregation) =
        Made(n, Cardinality({of[i] : i \in DOMAIN of}), Summed(of), Nth(of, 1), Nth(of, n), MedianOf(of))
  BY Zenon DEF Aggregate
<1>7. Aggregate(as, aggregation) =
        Made(m, Cardinality({as[j] : j \in DOMAIN as}), Summed(as), Nth(as, 1), Nth(as, m), MedianOf(as))
  BY Zenon DEF Aggregate
<1>8. Nth(as, 1) = Nth(of, 1) /\ Nth(as, m) = Nth(of, n)
  BY <1>1, <1>4
<1> HIDE DEF Made, m, n
<1> QED
  BY <1>1, <1>2, <1>3, <1>5, <1>6, <1>7, <1>8

\* The same rows of two files.
SameRows(o, T, early, S, samples) ==
    /\ IsFiniteSet(S) /\ S \subseteq DOMAIN samples /\ T \subseteq DOMAIN early
    /\ \A i \in S : samples[i].cell \in SUBSET Int
    /\ Paired(o, T, S) /\ \A j \in T : early[j] = samples[o[j]]

LEMMA SameAggregate ==
    ASSUME NEW o, NEW T, NEW early, NEW S, NEW samples, SameRows(o, T, early, S, samples)
    PROVE  \A aggregation :
              Aggregated(T, early, aggregation) = Aggregated(S, samples, aggregation)
<1>0. /\ IsFiniteSet(S) /\ S \subseteq DOMAIN samples /\ T \subseteq DOMAIN early
      /\ \A i \in S : samples[i].cell \in SUBSET Int
      /\ Paired(o, T, S) /\ \A j \in T : early[j] = samples[o[j]]
  BY DEF SameRows
<1> DEFINE N == S \cap CountedIn(samples)
           M == T \cap CountedIn(early)
           of == [i \in N |-> Whole(CHOOSE x \in samples[i].cell : TRUE)]
           as == [j \in M |-> Whole(CHOOSE x \in early[j].cell : TRUE)]
<1>1. /\ \A i : i \in N <=> i \in S /\ samples[i].cell # {}
      /\ \A j : j \in M <=> j \in T /\ early[j].cell # {}
  BY <1>0 DEF CountedIn
<1>2. IsFiniteSet(N)
  <2>1. N \subseteq S
    OBVIOUS
  <2> HIDE DEF N
  <2> QED
    BY <1>0, <2>1, Fewer
<1>3. DOMAIN of = N /\ DOMAIN as = M
  OBVIOUS
<1>4. ASSUME NEW i \in N PROVE of[i] \in Fraction
  <2>1. samples[i].cell # {} /\ samples[i].cell \in SUBSET Int
    BY <1>0, <1>1
  <2>2. (CHOOSE x \in samples[i].cell : TRUE) \in Int
    BY <2>1
  <2>3. of[i] = Whole(CHOOSE x \in samples[i].cell : TRUE)
    OBVIOUS
  <2> HIDE DEF of
  <2> QED
    BY <2>2, <2>3, WholeIs
<1>5. Paired(o, M, N)
  <2> HIDE DEF N, M
  <2>1. \A j \in T : j \in M <=> o[j] \in N
    BY <1>0, <1>1 DEF Paired
  <2>2. M \subseteq T /\ N \subseteq S
    BY <1>1
  <2> QED
    BY <1>0, <2>1, <2>2 DEF Paired
<1>6. ASSUME NEW j \in M PROVE as[j] = of[o[j]]
  <2>1. j \in T /\ early[j] = samples[o[j]]
    BY <1>0, <1>1
  <2>2. o[j] \in N
    BY <1>5 DEF Paired
  <2>3. /\ as[j] = Whole(CHOOSE x \in early[j].cell : TRUE)
        /\ of[o[j]] = Whole(CHOOSE x \in samples[o[j]].cell : TRUE)
    BY <2>2
  <2> QED
    BY <2>1, <2>3
<1> HIDE DEF N, M, of, as
<1>7. Renumbered(as, of, o)
  BY <1>2, <1>3, <1>4, <1>5, <1>6 DEF Renumbered
<1>8. \A aggregation : /\ Aggregated(T, early, aggregation) = Aggregate(as, aggregation)
                       /\ Aggregated(S, samples, aggregation) = Aggregate(of, aggregation)
  BY Zenon DEF Aggregated, as, of, N, M
<1> QED
  BY <1>7, <1>8, SameAggregateOf

LEMMA BeforeBucket ==
    ASSUME NEW g \in Grain, NEW t \in Int, NEW u \in Int, Covered(t), Covered(u)
    PROVE  Begin(g, Index(g, t)) < Begin(g, Index(g, u)) <=> t < Begin(g, Index(g, u))
<1> DEFINE i == Index(g, t)
           x == Index(g, u)
<1>1. Dateable(t) /\ Dateable(u)
  BY CoveredIs
<1>2. Shiftable(g, x) /\ InCalendar(g, x)
  BY Neighbours DEF Shiftable
<1>3. Begin(g, i) \in Int /\ Begin(g, i) <= t
  BY <1>1, MomentInBucket
<1>4. Begin(g, x) \in Int
  BY <1>1, MomentInBucket
<1>5. Begin(g, x) <= t => Begin(g, x) <= Begin(g, i)
  BY <1>1, <1>2, LaterBucket
<1> HIDE DEF i, x
<1>6. Begin(g, i) < Begin(g, x) <=> t < Begin(g, x)
  BY <1>3, <1>4, <1>5
<1> QED
  BY <1>6 DEF i, x

\* A bucket of the earlier rows and of all: is it empty, and what its row in the query is.
SameBehind(samples, g, h, B, b) ==
    LET early == Earlier(samples, B)
    IN  /\ InBucket(early, g, b) = {} <=> InBucket(samples, g, b) = {}
        /\ Bucketed(b, InBucket(early, g, b), early, h)
             = Bucketed(b, InBucket(samples, g, b), samples, h)

\* A bucket that ends before the moment has the same rows, counted and aggregated alike.
LEMMA SameBucket ==
    ASSUME NEW samples, CoveredSamples(samples), NEW g \in Grain, NEW h,
           NEW now \in DatedIn(samples), NEW B, B = Begin(g, Index(g, samples[now].at)),
           NEW b \in Int, b < B
    PROVE  SameBehind(samples, g, h, B, b)
<1> DEFINE early == Earlier(samples, B)
           T == InBucket(early, g, b)
           S == InBucket(samples, g, b)
<1>1. /\ DatedIn(samples) # {} /\ samples \in Seq(Sample) /\ DatedIn(samples) \subseteq DOMAIN samples
  BY DEF DatedIn, CoveredSamples
<1>2. /\ \A i \in DatedIn(samples) : samples[i].at \in Int /\ Covered(samples[i].at)
      /\ IsFiniteSet(DatedIn(samples))
  BY <1>1, SamplesAre
<1>3. \A i \in DatedIn(samples) :
         BucketStart(samples[i].at, g) = Begin(g, Index(g, samples[i].at))
  BY <1>1, StartsAre
<1>4. \A i \in DatedIn(samples) :
         Begin(g, Index(g, samples[i].at)) < B <=> samples[i].at < B
  BY <1>2, BeforeBucket
<1>5. B \in Int
  <2>1. Dateable(samples[now].at)
    BY <1>2, CoveredIs
  <2> QED
    BY <2>1, MomentInBucket
<1>6. DatedIn(early) = DOMAIN early /\ \E o : Renames(o, early, samples, B)
  BY <1>5, EarlierIs
<1>7. PICK o : Renames(o, early, samples, B)
  BY <1>6
<1>8. /\ \A j : j \in T <=> j \in DatedIn(early) /\ BucketStart(early[j].at, g) = b
      /\ \A i : i \in S <=> i \in DatedIn(samples) /\ BucketStart(samples[i].at, g) = b
  BY DEF InBucket
<1> HIDE DEF early, T, S
<1>9. Paired(o, T, S)
  <2>1. \A j \in T : o[j] \in S
    BY <1>6, <1>7, <1>8 DEF Renames
  <2>2. \A j, k \in T : o[j] = o[k] => j = k
    BY <1>6, <1>7, <1>8 DEF Renames
  <2>3. \A i \in S : \E j \in T : o[j] = i
    <3> SUFFICES ASSUME NEW i \in S PROVE \E j \in T : o[j] = i
      OBVIOUS
    <3>1. i \in DatedIn(samples) /\ BucketStart(samples[i].at, g) = b
      BY <1>8
    <3>2. samples[i].at < B
      BY <1>3, <1>4, <3>1
    <3>3. PICK j \in DOMAIN early : o[j] = i
      BY <1>7, <3>1, <3>2 DEF Renames
    <3>4. early[j] = samples[i]
      BY <1>7, <3>3 DEF Renames
    <3>5. j \in T
      BY <1>6, <1>8, <3>1, <3>3, <3>4
    <3> QED
      BY <3>3, <3>5
  <2> QED
    BY <2>1, <2>2, <2>3 DEF Paired
<1>10. S \subseteq DatedIn(samples) /\ T \subseteq DOMAIN early
  BY <1>6, <1>8
<1>11. IsFiniteSet(S)
  BY <1>2, <1>10, Fewer
<1>12. T = {} <=> S = {}
  BY <1>9 DEF Paired
<1>13. Cardinality(T) = Cardinality(S)
  BY <1>9, <1>11, SameCount
<1>14. Aggregated(T, early, h.aggregation) = Aggregated(S, samples, h.aggregation)
  <2>1. /\ IsFiniteSet(S) /\ S \subseteq DOMAIN samples
        /\ \A i \in S : samples[i].cell \in SUBSET Int
    <3>1. S \subseteq DOMAIN samples
      BY <1>1, <1>10
    <3>2. \A i \in DOMAIN samples : samples[i] \in Sample
      BY <1>1
    <3> QED
      BY <1>11, <3>1, <3>2 DEF Sample
  <2>2. /\ T \subseteq DOMAIN early /\ Paired(o, T, S)
        /\ \A j \in T : early[j] = samples[o[j]]
    BY <1>9, <1>7, <1>10 DEF Renames
  <2>3. SameRows(o, T, early, S, samples)
    BY <2>1, <2>2 DEF SameRows
  <2> QED
    BY <2>3, SameAggregate
<1>15. Bucketed(b, T, early, h) = Bucketed(b, S, samples, h)
  BY <1>13, <1>14 DEF Bucketed
<1> QED
  BY <1>12, <1>15 DEF early, T, S, SameBehind

\* What is said of the first periods of a series does not depend on the others.
LEMMA SameVerdict ==
    ASSUME NEW p, NEW q, NEW m \in Nat, NEW n \in Nat, DOMAIN p = 1..m, DOMAIN q = 1..n,
           NEW k \in 1..m, k <= n, \A j \in 1..k : p[j] = q[j], NEW h
    PROVE  Verdict(p, k, h) = Verdict(q, k, h)
<1> DEFINE A == TrailingWindow(p, k, h.window)
           B == TrailingWindow(q, k, h.window)
<1>1. A = B
  <2>1. \A j : j \in A <=> j \in DOMAIN p /\ h.window = h.window /\ k - h.window <= j /\ j < k
                             /\ Scoreable(p[j])
    BY DEF TrailingWindow
  <2>2. \A j : j \in B <=> j \in DOMAIN q /\ k - h.window <= j /\ j < k /\ Scoreable(q[j])
    BY DEF TrailingWindow
  <2>3. \A j : j \in DOMAIN p /\ j < k <=> j \in DOMAIN q /\ j < k
    OBVIOUS
  <2>4. \A j \in DOMAIN p : j < k => p[j] = q[j]
    OBVIOUS
  <2> HIDE DEF A, B
  <2>5. \A j : j \in A <=> j \in B
    BY ONLY <2>1, <2>2, <2>3, <2>4
  <2> QED
    BY <2>5
<1>2. Values(p, A) = Values(q, A)
  <2>1. \A j \in A : p[j] = q[j]
    BY DEF TrailingWindow
  <2> HIDE DEF A
  <2>2. \A j \in A : ValueOfPeriod(p[j]) = ValueOfPeriod(q[j])
    BY <2>1
  <2> QED
    BY <2>2 DEF Values
<1>3. p[k] = q[k]
  OBVIOUS
<1> HIDE DEF A, B
<1>4. Judge(p[k], p, A, h.method) = Judge(q[k], q, B, h.method)
  BY <1>1, <1>2, <1>3, Zenon DEF Judge
<1> QED
  BY <1>4 DEF Verdict, A, B

\* The grid of the rows before a later bucket of the query.
LEMMA EarlierRows ==
    ASSUME NEW samples, CoveredSamples(samples), DatedIn(samples) # {}, NEW g \in Grain,
           NEW h, h.maxPeriods \in Nat, h.maxPeriods > 1,
           Len(SeriesQuery(samples, g, h)) < h.maxPeriods,
           NEW k \in 2..Len(SeriesQuery(samples, g, h))
    PROVE  LET rows == SeriesQuery(samples, g, h)
               B == rows[k].bucket
               early == Earlier(samples, B)
               then == SeriesQuery(early, g, h)
           IN  /\ \E now \in DatedIn(samples) : B = Begin(g, Index(g, samples[now].at))
               /\ B \in Int /\ CoveredSamples(early) /\ DatedIn(early) # {}
               /\ Len(then) < h.maxPeriods
               /\ then[1].bucket = rows[1].bucket /\ Earliest(early) = Earliest(samples)
               /\ Latest(early) < B
<1> DEFINE rows == SeriesQuery(samples, g, h)
           B == rows[k].bucket
           early == Earlier(samples, B)
           then == SeriesQuery(early, g, h)
           D == DatedIn(samples)
           E == DatedIn(early)
           most == h.maxPeriods
<1>1. /\ \A d \in D : rows[1].bucket <= Begin(g, Index(g, samples[d].at))
      /\ \A n \in 2..Len(rows) : rows[1].bucket < rows[n].bucket
      /\ \A n \in 1..Len(rows) : \E d \in D : rows[n].bucket = Begin(g, Index(g, samples[d].at))
      /\ Len(rows) = Cardinality(Starts(samples, g))
  BY QueryCounts
<1>2. Len(rows) \in Nat
  BY QueryIs
<1>3. k \in 1..Len(rows) /\ 1 \in 1..Len(rows) /\ k \in 2..Len(rows)
  BY <1>2
<1>4. PICK now \in D : B = Begin(g, Index(g, samples[now].at))
  BY <1>1, <1>3
<1>5. PICK j \in D : rows[1].bucket = Begin(g, Index(g, samples[j].at))
  BY <1>1, <1>3
<1>6. /\ \A d \in D : samples[d].at \in Int /\ Covered(samples[d].at)
                      /\ Earliest(samples) <= samples[d].at
      /\ \E d \in D : Earliest(samples) = samples[d].at
      /\ IsFiniteSet(D)
  BY SamplesAre
<1>7. B \in Int
  <2>1. Dateable(samples[now].at)
    BY <1>6, CoveredIs
  <2> QED
    BY <1>4, <2>1, MomentInBucket
<1>8. CoveredSamples(early) /\ E = DOMAIN early /\ \E o : Renames(o, early, samples, B)
  BY <1>7, EarlierIs
<1>9. PICK o : Renames(o, early, samples, B)
  BY <1>8
<1>10. rows[1].bucket < B
  BY <1>1, <1>3
<1>11. samples[j].at < B
  BY <1>4, <1>5, <1>6, <1>10, BeforeBucket
<1>12. /\ \A e \in E : o[e] \in D /\ samples[o[e]].at < B /\ early[e] = samples[o[e]]
       /\ \A d \in D : samples[d].at < B => \E e \in E : early[e] = samples[d]
  <2>1. \A e \in E : o[e] \in D /\ samples[o[e]].at < B /\ early[e] = samples[o[e]]
    BY <1>8, <1>9 DEF Renames
  <2>2. \A d \in D : samples[d].at < B => \E e \in E : o[e] = d
    BY <1>8, <1>9 DEF Renames
  <2> QED
    BY <2>1, <2>2
<1>13. E # {}
  BY <1>11, <1>12
<1>14. /\ \A e \in E : early[e].at \in Int /\ Covered(early[e].at) /\ Earliest(early) <= early[e].at
       /\ \E e \in E : Earliest(early) = early[e].at
       /\ \E e \in E : Latest(early) = early[e].at
  BY <1>8, <1>13, SamplesAre
<1>15. Latest(early) < B
  BY <1>12, <1>14
<1>16. PICK a \in D : Earliest(samples) = samples[a].at
  BY <1>6
<1>17. Earliest(early) = Earliest(samples)
  <2>1. samples[a].at < B
    <3>1. samples[a].at \in Int /\ samples[j].at \in Int /\ samples[a].at <= samples[j].at
      BY <1>6, <1>16
    <3> QED
      BY <1>7, <1>11, <3>1
  <2>2. PICK e \in E : early[e] = samples[a]
    BY <1>12, <2>1
  <2>3. Earliest(early) <= Earliest(samples) /\ Earliest(samples) \in Int
    BY <1>6, <1>14, <1>16, <2>2
  <2>4. PICK c \in E : Earliest(early) = early[c].at
    BY <1>14
  <2>5. Earliest(samples) <= Earliest(early) /\ Earliest(early) \in Int
    BY <1>6, <1>12, <1>14, <2>4
  <2> QED
    BY <2>3, <2>5
<1>18. \A x \in Starts(early, g) : x \in Starts(samples, g)
  <2>1. \A e \in E : BucketStart(early[e].at, g) = BucketStart(samples[o[e]].at, g) /\ o[e] \in D
    BY <1>12
  <2> QED
    BY <2>1 DEF Starts
<1>19. most \in Nat \ {0}
  OBVIOUS
<1>20. Len(then) < most
  <2>1. Len(then) = Cardinality(MostRecent(Starts(early, g), most))
    BY <1>8, <1>13, <1>19, QueryIs
  <2>2. MostRecent(Starts(early, g), most) \subseteq Starts(samples, g)
    BY <1>18 DEF MostRecent
  <2>3. IsFiniteSet(Starts(samples, g))
    BY StartsAre
  <2> DEFINE M == MostRecent(Starts(early, g), most)
  <2> HIDE DEF M
  <2>4. Cardinality(M) \in Nat /\ Cardinality(M) <= Cardinality(Starts(samples, g))
    BY <2>2, <2>3, Fewer DEF M
  <2>5. Len(then) = Cardinality(M)
    BY <2>1 DEF M
  <2>6. Len(rows) < most
    OBVIOUS
  <2> HIDE DEF then, rows, most
  <2> QED
    BY <1>1, <1>2, <1>19, <2>4, <2>5, <2>6
<1>21. then[1].bucket = rows[1].bucket
  <2>1. /\ \A e \in E : then[1].bucket <= Begin(g, Index(g, early[e].at))
        /\ \A n \in 1..Len(then) : \E e \in E : then[n].bucket = Begin(g, Index(g, early[e].at))
    BY <1>8, <1>13, <1>19, <1>20, QueryCounts
  <2>2. Len(then) \in Nat \ {0}
    BY <1>8, <1>13, <1>19, QueryIs
  <2>3. 1 \in 1..Len(then)
    BY <2>2
  <2>4. PICK e \in E : then[1].bucket = Begin(g, Index(g, early[e].at))
    BY <2>1, <2>3
  <2>5. rows[1].bucket <= then[1].bucket
    BY <1>1, <1>12, <2>4
  <2>6. PICK f \in E : early[f] = samples[j]
    BY <1>11, <1>12
  <2>7. then[1].bucket <= rows[1].bucket
    BY <1>5, <2>1, <2>6
  <2>8. then[1].bucket \in Int /\ rows[1].bucket \in Int
    <3>1. Dateable(early[e].at) /\ Dateable(samples[j].at)
      BY <1>6, <1>14, CoveredIs
    <3> QED
      BY <1>5, <2>4, <3>1, MomentInBucket
  <2> QED
    BY <2>5, <2>7, <2>8
<1> QED
  BY <1>4, <1>7, <1>8, <1>13, <1>15, <1>17, <1>20, <1>21

LEMMA HeadIs ==
    ASSUME NEW rows, NEW samples, NEW g, NEW f
    PROVE  BoundariesOf(rows, samples, g, f).head
             = (f # "unknown" /\ Shift(Earliest(samples), f, -1) >= rows[1].bucket)
  BY Zenon DEF BoundariesOf, Boundaries

\* All but the last of its periods are those of the grid of the file.
Agrees(samples, g, f, h, k) ==
    LET rows == SeriesQuery(samples, g, h)
        whole == Reindexed(rows, g, BoundariesOf(rows, samples, g, f), h.maxPeriods)
        early == Earlier(samples, rows[k].bucket)
        then == SeriesQuery(early, g, h)
        seen == Reindexed(then, g, BoundariesOf(then, early, g, f), h.maxPeriods)
    IN  ~whole.cut =>
           \E m \in Nat, n \in Nat :
              /\ DOMAIN seen.periods = 1..(n + 1) /\ Len(seen.periods) = n + 1
              /\ DOMAIN whole.periods = 1..m /\ n <= m
              /\ \A p \in 1..n : seen.periods[p] = whole.periods[p]

LEMMA EarlierGrid ==
    ASSUME NEW samples, CoveredSamples(samples), DatedIn(samples) # {}, NEW g \in Grain,
           NEW f \in Frequency, NEW h, h.maxPeriods \in Nat, h.maxPeriods > 1,
           Len(SeriesQuery(samples, g, h)) < h.maxPeriods,
           NEW k \in 2..Len(SeriesQuery(samples, g, h))
    PROVE  Agrees(samples, g, f, h, k)
<1> DEFINE rows == SeriesQuery(samples, g, h)
           sides == BoundariesOf(rows, samples, g, f)
           whole == Reindexed(rows, g, sides, h.maxPeriods)
           B == rows[k].bucket
           early == Earlier(samples, B)
           then == SeriesQuery(early, g, h)
           trim == BoundariesOf(then, early, g, f)
           seen == Reindexed(then, g, trim, h.maxPeriods)
           l == Index(g, Latest(samples))
           c == Index(g, Latest(early))
           most == h.maxPeriods
<1>1. /\ \E now \in DatedIn(samples) : B = Begin(g, Index(g, samples[now].at))
      /\ B \in Int /\ CoveredSamples(early) /\ DatedIn(early) # {}
      /\ Len(then) < most
      /\ then[1].bucket = rows[1].bucket /\ Earliest(early) = Earliest(samples)
      /\ Latest(early) < B
  BY EarlierRows
<1>2. PICK now \in DatedIn(samples) : B = Begin(g, Index(g, samples[now].at))
  BY <1>1
<1> DEFINE x == Index(g, samples[now].at)
<1>3. most \in Nat \ {0} /\ most > 1 /\ most \in Nat
  OBVIOUS
<1>4. \E i : WholeFrom(whole, rows, g, sides, i, l, most)
  BY ReindexedIs
<1>5. PICK i : WholeFrom(whole, rows, g, sides, i, l, most)
  BY <1>4
<1>6. \E d : WholeFrom(seen, then, g, trim, d, c, most)
  <2> DEFINE e == early
  <2>1. CoveredSamples(e) /\ DatedIn(e) # {}
    BY <1>1
  <2>2. e = early
    OBVIOUS
  <2> HIDE DEF e
  <2>3. \E d : WholeFrom(Reindexed(SeriesQuery(e, g, h), g,
                                   BoundariesOf(SeriesQuery(e, g, h), e, g, f), h.maxPeriods),
                         SeriesQuery(e, g, h), g, BoundariesOf(SeriesQuery(e, g, h), e, g, f),
                         d, Index(g, Latest(e)), h.maxPeriods)
    BY <2>1, ReindexedIs
  <2> QED
    BY <2>2, <2>3
<1>7. PICK d : WholeFrom(seen, then, g, trim, d, c, most)
  BY <1>6
<1>8. /\ \A j \in DatedIn(samples) : samples[j].at \in Int /\ Covered(samples[j].at)
                                     /\ samples[j].at <= Latest(samples)
      /\ Latest(samples) \in Int /\ Covered(Latest(samples))
  BY SamplesAre
<1>9. Latest(early) \in Int /\ Covered(Latest(early))
  BY <1>1, SamplesAre
<1>10. l \in Int /\ c \in Int /\ x \in Int /\ c + 1 <= x /\ x <= l
  <2>1. x \in Int /\ l \in Int /\ x <= l
    BY <1>8, LaterIndex
  <2>2. Shiftable(g, x) /\ c \in Int
    BY <1>8, <1>9, Neighbours
  <2>3. c + 1 <= x
    BY <1>1, <1>2, <1>9, <2>2, CoveredIs, EarlierBucket DEF Shiftable
  <2> QED
    BY <2>1, <2>2, <2>3
<1>11. Shiftable(g, l) /\ Shiftable(g, c) /\ Shiftable(g, x)
  BY <1>8, <1>9, Neighbours
<1>12. \A b : RowsFor(rows, b) = IF InBucket(samples, g, b) = {} THEN {}
                               ELSE {Bucketed(b, InBucket(samples, g, b), samples, h)}
  BY <1>3, QueryCounts
<1>13. \A b : RowsFor(then, b) = IF InBucket(early, g, b) = {} THEN {}
                               ELSE {Bucketed(b, InBucket(early, g, b), early, h)}
  <2> DEFINE e == early
  <2>1. CoveredSamples(e) /\ DatedIn(e) # {} /\ Len(SeriesQuery(e, g, h)) < h.maxPeriods
    BY <1>1
  <2>2. e = early
    OBVIOUS
  <2> HIDE DEF e
  <2>3. \A b : RowsFor(SeriesQuery(e, g, h), b) =
                  IF InBucket(e, g, b) = {} THEN {}
                  ELSE {Bucketed(b, InBucket(e, g, b), e, h)}
    BY <1>3, <2>1, QueryCounts
  <2> QED
    BY <2>2, <2>3
<1>14. ASSUME NEW b \in Int, b < B PROVE RowsFor(then, b) = RowsFor(rows, b)
  <2>1. /\ InBucket(early, g, b) = {} <=> InBucket(samples, g, b) = {}
        /\ Bucketed(b, InBucket(early, g, b), early, h)
             = Bucketed(b, InBucket(samples, g, b), samples, h)
    <3> HIDE DEF rows, B
    <3>1. SameBehind(samples, g, h, B, b)
      BY <1>2, <1>14, SameBucket
    <3> QED
      BY <3>1 DEF SameBehind
  <2> HIDE DEF early, then, rows
  <2> QED
    BY <1>12, <1>13, <2>1
<1>15. sides.head = trim.head
  BY <1>1, HeadIs
<1> HIDE DEF rows, sides, whole, B, early, then, trim, seen, l, c, most, x
<1>16. /\ i \in Int /\ i <= l /\ Shiftable(g, i) /\ rows[1].bucket = Begin(g, i)
       /\ d \in Int /\ d <= c /\ Shiftable(g, d) /\ then[1].bucket = Begin(g, d)
  BY <1>5, <1>7 DEF WholeFrom
<1>17. i = d
  <2>1. InCalendar(g, i) /\ InCalendar(g, d) /\ Begin(g, i) = Begin(g, d)
    BY <1>1, <1>16 DEF Shiftable
  <2>2. ~(i < d)
    <3> SUFFICES ASSUME i < d PROVE FALSE
      OBVIOUS
    <3> QED
      BY <2>1, BucketsFollow
  <2>3. ~(d < i)
    <3> SUFFICES ASSUME d < i PROVE FALSE
      OBVIOUS
    <3> QED
      BY <2>1, BucketsFollow
  <2> QED
    BY <1>16, <2>2, <2>3
<1> SUFFICES ASSUME ~whole.cut
             PROVE  \E m \in Nat, n \in Nat :
                       /\ DOMAIN seen.periods = 1..(n + 1) /\ Len(seen.periods) = n + 1
                       /\ DOMAIN whole.periods = 1..m /\ n <= m
                       /\ \A p \in 1..n : seen.periods[p] = whole.periods[p]
  BY DEF rows, sides, whole, B, early, then, trim, seen, most, Agrees
<1>18. ~seen.cut
  <2>1. ~(i + most < l) /\ seen.cut = (d + most < c)
    BY <1>5, <1>7 DEF WholeFrom
  <2>2. ~(d + most < c)
    BY <1>3, <1>10, <1>16, <1>17, <2>1
  <2> QED
    BY <2>1, <2>2
<1> DEFINE n == c - i
           m == (l - i) + 1
<1>19. n \in Nat /\ m \in Nat /\ n <= m /\ (c - d) + 1 = n + 1
  BY <1>10, <1>16, <1>17
<1>20. /\ DOMAIN whole.periods = 1..m
       /\ \A p \in 1..m : whole.periods[p] =
             Laying(rows, g, sides, FALSE, Begin(g, i), Begin(g, l), Begin(g, i + (p - 1)))
  BY <1>5 DEF WholeFrom
<1>21. /\ DOMAIN seen.periods = 1..(n + 1) /\ Len(seen.periods) = n + 1
       /\ \A p \in 1..(n + 1) : seen.periods[p] =
             Laying(then, g, trim, FALSE, Begin(g, i), Begin(g, c), Begin(g, i + (p - 1)))
  BY <1>7, <1>17, <1>18 DEF WholeFrom
<1>22. ASSUME NEW p \in 1..n PROVE seen.periods[p] = whole.periods[p]
  <2> DEFINE a == i + (p - 1)
             b == Begin(g, a)
  <2>1. a \in Int /\ i <= a /\ a < c /\ a < x /\ a < l /\ p \in 1..m /\ p \in 1..(n + 1)
    BY <1>10, <1>16, <1>17, <1>19
  <2> HIDE DEF a
  <2>7. InCalendar(g, a)
    <3>1. a <= l
      BY <1>10, <2>1
    <3> QED
      BY <1>11, <1>16, <2>1, <3>1, Enclosed
  <2>2. InCalendar(g, a) /\ InCalendar(g, c) /\ InCalendar(g, x) /\ InCalendar(g, l)
    BY <1>11, <2>7 DEF Shiftable
  <2>3. /\ b \in Int /\ b < Begin(g, c) /\ b < Begin(g, x) /\ b < Begin(g, l)
        /\ Begin(g, c) \in Int /\ Begin(g, l) \in Int
    BY <2>1, <2>2, BucketsFollow
  <2>4. RowsFor(then, b) = RowsFor(rows, b)
    BY <1>2, <1>14, <2>3 DEF x
  <2>5. b # Begin(g, c) /\ b # Begin(g, l)
    BY <2>3
  <2>6. Laying(then, g, trim, FALSE, Begin(g, i), Begin(g, c), b)
          = Laying(rows, g, sides, FALSE, Begin(g, i), Begin(g, l), b)
    <3> HIDE DEF b
    <3> QED
      BY <1>15, <2>4, <2>5 DEF Laying
  <2> QED
    BY <1>20, <1>21, <2>1, <2>6 DEF a
<1> QED
  BY <1>19, <1>20, <1>21, <1>22

-----------------------------------------------------------------------------
(***************************************************************************)
(* The verdicts of a report are those of its grid.                         *)
(***************************************************************************)

GridFor(h, g, rows) ==
    Reindexed(rows, g, BoundariesOf(rows, h.samples, g, h.frequency), h.maxPeriods)
BuiltFor(h, g, rows, periods, cut, verdicts) ==
    /\ rows = SeriesQuery(h.samples, g, h)
    /\ periods = GridFor(h, g, rows).periods /\ cut = GridFor(h, g, rows).cut
    /\ \A k \in 1..Len(verdicts) : verdicts[k] = Verdict(periods, k, h)

BuiltInv ==
    seriesStage = "judge" \/ Reported =>
        BuiltFor(Asked, seriesGrain, raw, grid, cutShort, judged)

LEMMA BuildKeepsBuilt == ASSUME SeriesInv, BuildSeries PROVE BuiltInv'
<1>1. seriesStage = "aggregate" /\ UNCHANGED <<history, seriesGrain, judged>>
  BY DEF BuildSeries
<1>2. ~Reported /\ judged = <<>>
  BY <1>1 DEF SeriesInv, Unlaid
<1>3. Asked' = Asked
  BY <1>1, AskedStays
<1>4. \/ ~Reported' /\ seriesStage' = "done"
      \/ /\ raw' = SeriesQuery(Asked.samples, seriesGrain, Asked)
         /\ grid' = GridFor(Asked, seriesGrain, raw').periods
         /\ cutShort' = GridFor(Asked, seriesGrain, raw').cut
  BY DEF BuildSeries, Report, Reported, GridFor
<1>5. 1..Len(judged') = {}
  <2>1. Len(judged') = 0
    BY <1>1, <1>2
  <2> QED
    BY <2>1
<1> QED
  BY <1>1, <1>3, <1>4, <1>5 DEF BuiltInv, BuiltFor

LEMMA JudgeKeepsBuilt == ASSUME SeriesInv, BuiltInv, JudgePeriod PROVE BuiltInv'
<1>1. /\ seriesStage = "judge" /\ judged' = Append(judged, Verdict(grid, Len(judged) + 1, Asked))
      /\ UNCHANGED <<seriesStage, history, seriesGrain, raw, grid, cutShort, seriesState>>
  BY DEF JudgePeriod
<1>2. Asked' = Asked
  BY <1>1, AskedStays
<1>3. Run(judged)
  BY <1>1 DEF SeriesInv, LaidFor, Walked
<1> DEFINE n == Len(judged)
           v == Verdict(grid, n + 1, Asked)
<1>4. /\ n \in Nat /\ Len(judged') = n + 1
      /\ \A k \in 1..n : judged'[k] = judged[k]
      /\ judged'[n + 1] = v
  BY <1>1, <1>3, AppendRuns
<1>5. BuiltFor(Asked, seriesGrain, raw, grid, cutShort, judged)
  BY <1>1 DEF BuiltInv
<1>6. \A k \in 1..n : judged[k] = Verdict(grid, k, Asked)
  BY <1>5 DEF BuiltFor
<1>7. ASSUME NEW k \in 1..(n + 1) PROVE judged'[k] = Verdict(grid, k, Asked)
  <2>1. CASE k = n + 1
    BY <1>4, <2>1
  <2>2. CASE k # n + 1
    <3>1. k \in 1..n
      BY <1>4, <2>2
    <3> QED
      BY <1>4, <1>6, <3>1
  <2> QED
    BY <2>1, <2>2
<1>8. BuiltFor(Asked, seriesGrain, raw, grid, cutShort, judged')
  BY <1>4, <1>5, <1>7 DEF BuiltFor
<1>9. BuiltFor(Asked', seriesGrain', raw', grid', cutShort', judged')
  BY <1>1, <1>2, <1>8
<1> QED
  BY <1>9 DEF BuiltInv

LEMMA BuiltInductive == ASSUME SeriesInv, BuiltInv, [SeriesNext]_seriesVars PROVE BuiltInv'
<1>1. ASSUME \/ \E h \in Histories : AskReport(h)
             \/ DescribeSeries \/ LoadSeries
      PROVE  BuiltInv'
  <2>1. ~Reported
    BY <1>1 DEF SeriesInv, AskReport, DescribeSeries, LoadSeries, Reported
  <2>2. seriesStage' # "judge" /\ ~Reported'
    BY <1>1, <2>1 DEF AskReport, DescribeSeries, LoadSeries, Report, Proceed, Reported
  <2> QED
    BY <2>2 DEF BuiltInv
<1>2. CASE BuildSeries
  BY <1>2, BuildKeepsBuilt
<1>3. CASE JudgePeriod
  BY <1>3, JudgeKeepsBuilt
<1>4. CASE ReportSeries \/ UNCHANGED seriesVars
  <2>1. /\ UNCHANGED <<history, seriesGrain, raw, grid, cutShort, judged>>
        /\ seriesStage' = "judge" \/ Reported' => seriesStage = "judge" \/ Reported
    BY <1>4 DEF ReportSeries, seriesVars, Report, Reported
  <2>2. Asked' = Asked
    BY <2>1, AskedStays
  <2> QED
    BY <2>1, <2>2 DEF BuiltInv
<1> QED
  BY <1>1, <1>2, <1>3, <1>4 DEF SeriesNext, SeriesStep

\* A verdict once given stands (anomaly/detectors.py, trailing_window and evaluate;
\* anomaly/series.py, _reindex): the report over the rows dated before a bucket of the
\* series says of every period but its last what the report over all rows says, for every
\* file whose series is neither capped nor cut, at every grain, with every method.
THEOREM VerdictsStand == SeriesSpec => []HistoryStands
<1>1. ASSUME SeriesInv, BuiltInv PROVE HistoryStands
  <2> DEFINE h == Asked
             g == seriesGrain
             samples == Asked.samples
  <2> SUFFICES ASSUME Reported, ~cutShort, Len(raw) < Asked.maxPeriods, NEW k \in 2..Len(raw)
               PROVE  Stands(Chosen(Asked.samples, LAMBDA s : s.at >= 0 /\ s.at < raw[k].bucket))
    BY Zenon DEF HistoryStands
  <2>1. /\ CoveredSamples(samples) /\ DatedIn(samples) # {} /\ g \in Grain
        /\ DOMAIN judged = 1..Len(judged) /\ Len(judged) \in Nat /\ DOMAIN grid = DOMAIN judged
    BY <1>1, ReportIs
  <2>2. h.maxPeriods \in Nat /\ h.maxPeriods > 1 /\ h.frequency \in Frequency
    <3>1. PICK a \in Histories : history = {a}
      BY <1>1 DEF SeriesInv, Reported
    <3> QED
      BY <3>1, AskedIs
  <2>3. BuiltFor(h, g, raw, grid, cutShort, judged)
    BY <1>1 DEF BuiltInv
  <2>4. /\ raw = SeriesQuery(samples, g, h) /\ grid = GridFor(h, g, raw).periods
        /\ ~GridFor(h, g, raw).cut
        /\ \A j \in 1..Len(judged) : judged[j] = Verdict(grid, j, h)
    BY <2>3 DEF BuiltFor
  <2> DEFINE early == Earlier(samples, raw[k].bucket)
             then == SeriesQuery(early, g, h)
             seen == Reindexed(then, g, BoundariesOf(then, early, g, h.frequency), h.maxPeriods)
  <2>5. Chosen(Asked.samples, LAMBDA s : s.at >= 0 /\ s.at < raw[k].bucket) = early
    BY Zenon DEF Chosen, Earlier, Places
  <2>6. \E m \in Nat, n \in Nat :
           /\ DOMAIN seen.periods = 1..(n + 1) /\ Len(seen.periods) = n + 1
           /\ DOMAIN grid = 1..m /\ n <= m
           /\ \A p \in 1..n : seen.periods[p] = grid[p]
    <3> DEFINE f == h.frequency
               rows == SeriesQuery(samples, g, h)
    <3>1. f \in Frequency /\ raw = rows
      BY <2>2, <2>4
    <3>2. h.samples = samples
      OBVIOUS
    <3> HIDE DEF samples, h, g, f
    <3>3. Len(SeriesQuery(samples, g, h)) < h.maxPeriods
          /\ k \in 2..Len(SeriesQuery(samples, g, h))
      BY <3>1 DEF h
    <3>4. Agrees(samples, g, f, h, k)
      BY <2>1, <2>2, <3>1, <3>3, EarlierGrid
    <3> HIDE DEF rows
    <3>5. grid = Reindexed(raw, g, BoundariesOf(raw, samples, g, f), h.maxPeriods).periods
          /\ ~Reindexed(raw, g, BoundariesOf(raw, samples, g, f), h.maxPeriods).cut
      BY <2>4, <3>2 DEF GridFor, f
    <3> QED
      BY <3>1, <3>4, <3>5 DEF f, Agrees, rows
  <2>7. PICK m \in Nat, n \in Nat :
           /\ DOMAIN seen.periods = 1..(n + 1) /\ Len(seen.periods) = n + 1
           /\ DOMAIN grid = 1..m /\ n <= m
           /\ \A p \in 1..n : seen.periods[p] = grid[p]
    BY <2>6
  <2> HIDE DEF early, seen
  <2>8. ASSUME NEW j \in 1..(Len(seen.periods) - 1) PROVE Verdict(seen.periods, j, h) = judged[j]
    <3>1. j \in 1..n /\ j \in 1..m /\ j \in 1..(n + 1) /\ j <= m /\ n + 1 \in Nat
      BY <2>7, <2>8
    <3>2. \A p \in 1..j : seen.periods[p] = grid[p]
      BY <2>7, <3>1
    <3>3. Verdict(seen.periods, j, h) = Verdict(grid, j, h)
      BY <2>7, <3>1, <3>2, SameVerdict
    <3>4. j \in 1..Len(judged)
      BY <2>1, <2>7, <3>1
    <3> QED
      BY <2>4, <3>3, <3>4
  <2>9. SameVerdicts(seen.periods)
    BY <2>8 DEF SameVerdicts
  <2>10. SeenThen(SeriesQuery(early, seriesGrain, Asked), early) = seen.periods
    BY DEF SeenThen, seen
  <2>11. Stands(early)
    BY <2>9, <2>10 DEF Stands
  <2> QED
    BY <2>5, <2>11
<1>2. SeriesInit => BuiltInv
  BY DEF SeriesInit, BuiltInv, Reported
<1> QED
  BY <1>1, <1>2, SeriesAlways, BuiltInductive, PTL DEF SeriesSpec
=============================================================================
