--------------------------- MODULE GwContactProofs ---------------------------
(***************************************************************************)
(* Theorems about Calendar and GwContact: the two conversions undo each     *)
(* other for every date up to LastYear, the test for contact is right, and  *)
(* contact that was lost comes back, for every timeout and cadence.         *)
(***************************************************************************)
EXTENDS GwContact, FiniteSetTheorems, TLAPS

-----------------------------------------------------------------------------
(* Counting.  What the loops of the code stop at is here a number of years  *)
(* or months: how many of a range are over.                                 *)

\* A set that has all from lo up to any of its members ...
FilledFrom(lo, A) == \A a \in A : \A b \in lo .. a : b \in A

\* ... is the range of its size.
LEMMA CountIsBound ==
  ASSUME NEW lo \in Int, NEW hi \in Int, lo <= hi + 1, NEW A \in SUBSET (lo .. hi),
         FilledFrom(lo, A)
  PROVE  /\ Cardinality(A) \in 0 .. hi - lo + 1
         /\ A = lo .. lo + Cardinality(A) - 1
<1>1. IsFiniteSet(lo .. hi) /\ Cardinality(lo .. hi) = hi - lo + 1
  <2>1. IsFiniteSet(lo .. hi) /\ Cardinality(lo .. hi) = IF lo > hi THEN 0 ELSE hi - lo + 1
    BY FS_Interval
  <2> QED BY <2>1
<1>2. IsFiniteSet(A) /\ Cardinality(A) <= hi - lo + 1
  BY <1>1, FS_Subset
<1>3. PICK c \in Nat : c = Cardinality(A)
  BY <1>2, FS_CardinalityType
<1>4. ASSUME NEW a \in A PROVE a <= lo + c - 1
  <2>1. lo .. a \in SUBSET A /\ a \in Int /\ a >= lo
    BY <1>4 DEF FilledFrom
  <2>2. Cardinality(lo .. a) = a - lo + 1
    BY <2>1, FS_Interval
  <2>3. Cardinality(lo .. a) <= c
    BY <1>2, <1>3, <2>1, FS_Subset
  <2> QED BY <2>1, <2>2, <2>3
<1>5. A \in SUBSET (lo .. lo + c - 1)
  BY <1>4
<1>6. IsFiniteSet(lo .. lo + c - 1) /\ Cardinality(lo .. lo + c - 1) = c
  BY FS_Interval
<1>7. A = lo .. lo + c - 1
  BY <1>3, <1>5, <1>6, FS_Subset
<1> QED BY <1>2, <1>3, <1>7

-----------------------------------------------------------------------------
(* Years and months.                                                        *)
\* The months of a year by their lengths: the function the loop over them
\* computes is the one that this table is.
LEMMA MonthStep ==
  ASSUME NEW leap \in BOOLEAN
  PROVE  /\ DaysToMonth[leap][1] = 0
         /\ \A m \in 1 .. 12 :
              DaysToMonth[leap][m + 1] = DaysToMonth[leap][m] + TM_RTC_Months[leap][m]
<1> DEFINE len == TM_RTC_Months[leap]
           l == IF leap THEN 1 ELSE 0
           Table == <<0, 31, 59 + l, 90 + l, 120 + l, 151 + l, 181 + l, 212 + l,
                      243 + l, 273 + l, 304 + l, 334 + l, 365 + l>>
           g == [m \in 1 .. 13 |-> Table[m]]
           days == CHOOSE f : f = [month \in 1 .. 13 |->
                      IF month = 1 THEN 0 ELSE f[month - 1] + len[month - 1]]
<1>1. g = [month \in 1 .. 13 |-> IF month = 1 THEN 0 ELSE g[month - 1] + len[month - 1]]
  <2>1. ASSUME NEW month \in 1 .. 13
        PROVE  g[month] = IF month = 1 THEN 0 ELSE g[month - 1] + len[month - 1]
    BY DEF TM_RTC_Months
  <2> QED BY <2>1
<1>2. days = [month \in 1 .. 13 |-> IF month = 1 THEN 0 ELSE days[month - 1] + len[month - 1]]
  <2> HIDE DEF g, len, l, Table
  <2>1. \E f : f = [month \in 1 .. 13 |->
                   IF month = 1 THEN 0 ELSE f[month - 1] + len[month - 1]]
    BY <1>1
  <2> QED BY <2>1
<1>3. DaysToMonth[leap] = days
  BY DEF DaysToMonth
<1> HIDE DEF days
<1>4. days[1] = 0 /\ \A m \in 1 .. 12 : days[m + 1] = days[m] + len[m]
  <2> HIDE DEF len
  <2> QED BY <1>2
<1> QED BY <1>3, <1>4

Years == RTC_OFFSET_YEAR .. LastYear
LeapsBefore(year) == {y \in RTC_OFFSET_YEAR .. year - 1 : RTC_LEAP_YEAR(y)}
YearLength(year) == IF RTC_LEAP_YEAR(year) THEN 366 ELSE 365

\* The range of years as inequalities, which the provers take better.
LEMMA YearRange == LastYear \in Nat /\ 1980 <= LastYear /\ LastYear <= 2037
BY YearAssumption

\* ... and as members of the ranges that functions have for domains.
LEMMA YearDomain ==
  /\ RTC_OFFSET_YEAR \in Nat /\ LastYear \in Nat /\ RTC_OFFSET_YEAR < LastYear
  /\ \A year \in Years : year \in RTC_OFFSET_YEAR .. LastYear + 1
                        /\ year + 1 \in RTC_OFFSET_YEAR .. LastYear + 1
BY YearRange DEF Years, RTC_OFFSET_YEAR

\* Of the years considered every fourth is a leap year.
LEMMA LeapYears ==
  \A year \in Years : RTC_LEAP_YEAR(year) <=> year % 4 = 0
BY YearRange DEF RTC_LEAP_YEAR, Years, RTC_OFFSET_YEAR

\* The leap years between two years.
LEMMA LeapCount ==
  ASSUME NEW year \in RTC_OFFSET_YEAR .. LastYear + 1
  PROVE  IsFiniteSet(LeapsBefore(year)) /\ Cardinality(LeapsBefore(year)) \in Nat
<1>1. RTC_OFFSET_YEAR \in Int /\ year - 1 \in Int
  BY YearDomain
<1>2. IsFiniteSet(RTC_OFFSET_YEAR .. year - 1)
  BY <1>1, FS_Interval
<1>3. LeapsBefore(year) \in SUBSET (RTC_OFFSET_YEAR .. year - 1)
  BY DEF LeapsBefore
<1>4. IsFiniteSet(LeapsBefore(year))
  BY <1>2, <1>3, FS_Subset
<1> QED BY <1>4, FS_CardinalityType

\* The day a year begins with.
LEMMA YearBegins ==
  ASSUME NEW year \in RTC_OFFSET_YEAR .. LastYear + 1
  PROVE  /\ DaysToYear[year] = 365 * (year - RTC_OFFSET_YEAR) + Cardinality(LeapsBefore(year))
         /\ DaysToYear[year] \in Nat
<1>1. DaysToYear[year] = 365 * (year - RTC_OFFSET_YEAR) + Cardinality(LeapsBefore(year))
  BY DEF DaysToYear, LeapsBefore
<1> QED BY <1>1, LeapCount, YearDomain

\* A year begins the length of the year before after it.
LEMMA YearStep ==
  ASSUME NEW year \in Years
  PROVE  DaysToYear[year + 1] = DaysToYear[year] + YearLength(year)
<1>1. /\ year \in RTC_OFFSET_YEAR .. LastYear + 1 /\ year + 1 \in RTC_OFFSET_YEAR .. LastYear + 1
      /\ year \in Nat /\ RTC_OFFSET_YEAR \in Nat
  BY YearDomain DEF Years
<1>2. /\ DaysToYear[year] = 365 * (year - RTC_OFFSET_YEAR) + Cardinality(LeapsBefore(year))
      /\ DaysToYear[year + 1] = 365 * (year + 1 - RTC_OFFSET_YEAR) + Cardinality(LeapsBefore(year + 1))
  BY <1>1, YearBegins
<1>3. IsFiniteSet(LeapsBefore(year)) /\ Cardinality(LeapsBefore(year)) \in Nat
  BY <1>1, LeapCount
<1>4. CASE RTC_LEAP_YEAR(year)
  <2>1. LeapsBefore(year + 1) = LeapsBefore(year) \cup {year} /\ year \notin LeapsBefore(year)
    BY <1>1, <1>4 DEF LeapsBefore
  <2>2. Cardinality(LeapsBefore(year + 1)) = Cardinality(LeapsBefore(year)) + 1
    BY <1>3, <2>1, FS_AddElement, Zenon
  <2> QED BY <1>1, <1>2, <1>3, <1>4, <2>2 DEF YearLength
<1>5. CASE ~RTC_LEAP_YEAR(year)
  <2>1. LeapsBefore(year + 1) = LeapsBefore(year)
    BY <1>1, <1>5 DEF LeapsBefore
  <2> QED BY <1>1, <1>2, <1>3, <1>5, <2>1 DEF YearLength
<1> QED BY <1>4, <1>5

\* A later year begins later.
LEMMA YearsGrow ==
  ASSUME NEW y \in RTC_OFFSET_YEAR .. LastYear + 1,
         NEW z \in RTC_OFFSET_YEAR .. LastYear + 1, y <= z
  PROVE  /\ DaysToYear[y] \in Nat /\ DaysToYear[z] \in Nat
         /\ DaysToYear[y] <= DaysToYear[z]
<1>1. /\ DaysToYear[y] = 365 * (y - RTC_OFFSET_YEAR) + Cardinality(LeapsBefore(y))
      /\ DaysToYear[z] = 365 * (z - RTC_OFFSET_YEAR) + Cardinality(LeapsBefore(z))
      /\ DaysToYear[y] \in Nat /\ DaysToYear[z] \in Nat
  BY YearBegins
<1>2. /\ IsFiniteSet(LeapsBefore(z)) /\ Cardinality(LeapsBefore(y)) \in Nat
      /\ Cardinality(LeapsBefore(z)) \in Nat
  BY LeapCount
<1>3. LeapsBefore(y) \in SUBSET LeapsBefore(z)
  BY YearDomain DEF LeapsBefore
<1>4. Cardinality(LeapsBefore(y)) <= Cardinality(LeapsBefore(z))
  BY <1>2, <1>3, FS_Subset
<1> QED BY <1>1, <1>2, <1>4, YearDomain

\* The first begins with day 0.
LEMMA FirstYear == DaysToYear[RTC_OFFSET_YEAR] = 0
<1>1. LeapsBefore(RTC_OFFSET_YEAR) = {}
  BY YearDomain DEF LeapsBefore
<1>2. RTC_OFFSET_YEAR \in RTC_OFFSET_YEAR .. LastYear + 1
  BY YearDomain
<1>3. Cardinality(LeapsBefore(RTC_OFFSET_YEAR)) = 0
  BY <1>1, FS_EmptySet
<1>4. RTC_OFFSET_YEAR \in Nat
  BY YearDomain
<1>5. DaysToYear[RTC_OFFSET_YEAR] =
        365 * (RTC_OFFSET_YEAR - RTC_OFFSET_YEAR) + Cardinality(LeapsBefore(RTC_OFFSET_YEAR))
  BY <1>2, YearBegins
<1> QED BY <1>3, <1>4, <1>5

\* Where the months of a year begin, and how long they are.
LEMMA Months ==
  ASSUME NEW leap \in BOOLEAN
  PROVE  /\ DaysToMonth[leap][13] = IF leap THEN 366 ELSE 365
         /\ \A m \in 1 .. 12 : TM_RTC_Months[leap][m] \in 28 .. 31
         /\ \A m \in 1 .. 13 : DaysToMonth[leap][m] \in Nat
         /\ \A j, k \in 1 .. 13 : j <= k => DaysToMonth[leap][j] <= DaysToMonth[leap][k]
<1> DEFINE start == DaysToMonth[leap]
           l == IF leap THEN 1 ELSE 0
<1>1. start[1] = 0 /\ \A m \in 1 .. 12 : start[m + 1] = start[m] + TM_RTC_Months[leap][m]
  BY MonthStep
<1> HIDE DEF start
<1>2. start[2] = 31 /\ start[3] = 59 + l /\ start[4] = 90 + l /\ start[5] = 120 + l
  BY <1>1 DEF TM_RTC_Months
<1>3. start[6] = 151 + l /\ start[7] = 181 + l /\ start[8] = 212 + l /\ start[9] = 243 + l
  BY <1>1, <1>2 DEF TM_RTC_Months
<1>4. start[10] = 273 + l /\ start[11] = 304 + l /\ start[12] = 334 + l /\ start[13] = 365 + l
  BY <1>1, <1>3 DEF TM_RTC_Months
<1>5. \A m \in 1 .. 12 : TM_RTC_Months[leap][m] \in 28 .. 31
  BY DEF TM_RTC_Months
<1>6. \A m \in 1 .. 13 : start[m] \in Nat
  BY <1>1, <1>2, <1>3, <1>4
<1>7. \A j, k \in 1 .. 13 : j <= k => start[j] <= start[k]
  BY <1>1, <1>2, <1>3, <1>4
<1> QED BY <1>4, <1>5, <1>6, <1>7 DEF start

-----------------------------------------------------------------------------
(* The year and the month a day is in.                                      *)
InYear(day, year) ==
  year \in Years /\ DaysToYear[year] <= day /\ day < DaysToYear[year + 1]

InMonth(rest, leap, month) ==
  /\ month \in 1 .. 12
  /\ DaysToMonth[leap][month] <= rest /\ rest < DaysToMonth[leap][month + 1]

\* There is only one of each ...
LEMMA OneYear ==
  ASSUME NEW day \in Nat, NEW y, InYear(day, y), NEW z, InYear(day, z)
  PROVE  y = z
<1>1. ASSUME NEW a \in Years, NEW b \in Years, InYear(day, a), InYear(day, b), a < b
      PROVE  FALSE
  <2>1. /\ a + 1 \in RTC_OFFSET_YEAR .. LastYear + 1
        /\ b \in RTC_OFFSET_YEAR .. LastYear + 1 /\ a + 1 <= b
    BY <1>1, YearDomain
  <2>2. DaysToYear[a + 1] <= DaysToYear[b] /\ DaysToYear[a + 1] \in Nat /\ DaysToYear[b] \in Nat
    BY <2>1, YearsGrow
  <2> QED BY <1>1, <2>2 DEF InYear
<1>2. y \in Years /\ z \in Years
  BY DEF InYear
<1>3. y \in Nat /\ z \in Nat
  BY <1>2, YearDomain
<1> QED BY <1>1, <1>2, <1>3

\* ... of the months just as of the years ...
LEMMA OneMonth ==
  ASSUME NEW rest \in Nat, NEW leap \in BOOLEAN,
         NEW j, InMonth(rest, leap, j), NEW k, InMonth(rest, leap, k)
  PROVE  j = k
<1>1. ASSUME NEW a \in 1 .. 12, NEW b \in 1 .. 12,
             InMonth(rest, leap, a), InMonth(rest, leap, b), a < b
      PROVE  FALSE
  <2>1. a + 1 \in 1 .. 13 /\ b \in 1 .. 13 /\ a + 1 <= b
    BY <1>1
  <2>2. /\ DaysToMonth[leap][a + 1] <= DaysToMonth[leap][b]
        /\ DaysToMonth[leap][a + 1] \in Nat /\ DaysToMonth[leap][b] \in Nat
    BY <2>1, Months
  <2> QED BY <1>1, <2>2 DEF InMonth
<1>2. j \in 1 .. 12 /\ k \in 1 .. 12
  BY DEF InMonth
<1> QED BY <1>1, <1>2

\* ... and it is the one the conversion counts to.
LEMMA YearCounted ==
  ASSUME NEW day \in Nat, day < DaysToYear[LastYear + 1]
  PROVE  InYear(day, RTC_OFFSET_YEAR
           + Cardinality({y \in RTC_OFFSET_YEAR + 1 .. LastYear : day >= DaysToYear[y]}))
<1> DEFINE A == {y \in RTC_OFFSET_YEAR + 1 .. LastYear : day >= DaysToYear[y]}
<1>0. RTC_OFFSET_YEAR \in Nat /\ LastYear \in Nat /\ RTC_OFFSET_YEAR < LastYear
  BY YearDomain
<1>1. PICK lo \in Int : lo = RTC_OFFSET_YEAR + 1
  BY <1>0
<1>2. A \in SUBSET (lo .. LastYear) /\ lo <= LastYear + 1 /\ LastYear \in Int
  BY <1>0, <1>1
<1>3. FilledFrom(lo, A)
  <2> SUFFICES ASSUME NEW a \in A, NEW b \in lo .. a PROVE b \in A
    BY DEF FilledFrom
  <2>1. /\ a \in RTC_OFFSET_YEAR .. LastYear + 1 /\ b \in RTC_OFFSET_YEAR .. LastYear + 1
        /\ b <= a /\ b \in RTC_OFFSET_YEAR + 1 .. LastYear
    BY <1>0, <1>1
  <2>2. DaysToYear[b] <= DaysToYear[a] /\ DaysToYear[a] \in Nat /\ DaysToYear[b] \in Nat
    BY <2>1, YearsGrow
  <2> QED BY <2>1, <2>2
<1> HIDE DEF A
<1>4. Cardinality(A) \in 0 .. LastYear - lo + 1 /\ A = lo .. lo + Cardinality(A) - 1
  BY <1>2, <1>3, CountIsBound
<1>5. PICK year \in Years : year = RTC_OFFSET_YEAR + Cardinality(A)
  BY <1>0, <1>1, <1>4 DEF Years
<1>6. year \in Nat /\ RTC_OFFSET_YEAR <= year /\ year <= LastYear
  BY <1>0 DEF Years
<1>7. A = RTC_OFFSET_YEAR + 1 .. year
  <2>1. PICK c \in Nat : c = Cardinality(A)
    BY <1>4
  <2>2. lo + c - 1 = year
    BY <1>0, <1>1, <1>5, <2>1
  <2> QED BY <1>1, <1>4, <2>1, <2>2
<1>8. \A y \in RTC_OFFSET_YEAR + 1 .. LastYear : day >= DaysToYear[y] <=> y <= year
  BY <1>0, <1>6, <1>7 DEF A
<1>9. DaysToYear[year] <= day
  <2>1. CASE year = RTC_OFFSET_YEAR
    BY <2>1, FirstYear
  <2>2. CASE year # RTC_OFFSET_YEAR
    <3>1. year \in RTC_OFFSET_YEAR + 1 .. LastYear /\ year <= year
      BY <1>0, <1>6, <2>2
    <3>2. DaysToYear[year] \in Nat
      BY <1>5, YearDomain, YearBegins
    <3> QED BY <1>8, <3>1, <3>2
  <2> QED BY <2>1, <2>2
<1>10. day < DaysToYear[year + 1]
  <2>1. CASE year = LastYear
    BY <2>1
  <2>2. CASE year # LastYear
    <3>1. year + 1 \in RTC_OFFSET_YEAR + 1 .. LastYear /\ ~(year + 1 <= year)
      BY <1>0, <1>6, <2>2
    <3>2. DaysToYear[year + 1] \in Nat
      BY <1>5, YearDomain, YearBegins
    <3> QED BY <1>8, <3>1, <3>2
  <2> QED BY <2>1, <2>2
<1>11. InYear(day, year)
  BY <1>9, <1>10 DEF InYear
<1> QED BY <1>5, <1>11 DEF A

\* The same of the months.
LEMMA MonthCounted ==
  ASSUME NEW leap \in BOOLEAN, NEW rest \in Nat, rest < DaysToMonth[leap][13]
  PROVE  InMonth(rest, leap,
           1 + Cardinality({m \in 1 .. 12 : rest >= DaysToMonth[leap][m + 1]}))
<1> DEFINE A == {m \in 1 .. 12 : rest >= DaysToMonth[leap][m + 1]}
<1>1. PICK lo \in Int, hi \in Int : lo = 1 /\ hi = 12
  OBVIOUS
<1>2. A \in SUBSET (lo .. hi) /\ lo <= hi + 1
  BY <1>1
<1>3. FilledFrom(lo, A)
  <2> SUFFICES ASSUME NEW a \in A, NEW b \in lo .. a PROVE b \in A
    BY DEF FilledFrom
  <2>1. a + 1 \in 1 .. 13 /\ b + 1 \in 1 .. 13 /\ b + 1 <= a + 1 /\ b \in 1 .. 12
    BY <1>1
  <2>2. /\ DaysToMonth[leap][b + 1] <= DaysToMonth[leap][a + 1]
        /\ DaysToMonth[leap][a + 1] \in Nat /\ DaysToMonth[leap][b + 1] \in Nat
    BY <2>1, Months
  <2> QED BY <2>1, <2>2
<1> HIDE DEF A
<1>4. Cardinality(A) \in 0 .. hi - lo + 1 /\ A = lo .. lo + Cardinality(A) - 1
  BY <1>2, <1>3, CountIsBound
<1>5. PICK c \in 0 .. 12 : c = Cardinality(A)
  BY <1>1, <1>4
<1>6. A = 1 .. c
  BY <1>1, <1>4, <1>5
<1>7. ASSUME NEW m \in 1 .. 12
      PROVE  rest >= DaysToMonth[leap][m + 1] <=> m <= c
  <2>1. m \in A <=> rest >= DaysToMonth[leap][m + 1]
    BY DEF A
  <2>2. m \in A <=> m <= c
    BY <1>6
  <2> QED BY <2>1, <2>2
<1>8. c # 12
  BY <1>7, Months
<1>9. DaysToMonth[leap][c + 1] <= rest
  BY <1>7, MonthStep
<1>10. rest < DaysToMonth[leap][c + 2]
  <2>1. c + 1 \in 1 .. 12 /\ ~(c + 1 <= c) /\ c + 2 \in 1 .. 13 /\ c + 1 + 1 = c + 2
    BY <1>8
  <2>2. DaysToMonth[leap][c + 2] \in Nat
    BY <2>1, Months
  <2> QED BY <1>7, <2>1, <2>2
<1>11. 1 + c \in 1 .. 12 /\ 1 + c = c + 1 /\ (1 + c) + 1 = c + 2
  BY <1>8
<1>12. InMonth(rest, leap, 1 + c)
  BY <1>9, <1>10, <1>11 DEF InMonth
<1> QED BY <1>5, <1>12 DEF A

-----------------------------------------------------------------------------
(* The conversions.                                                         *)
YearOf(date) == date.year + 1980
LeapOf(date) == RTC_LEAP_YEAR(YearOf(date))
DayOfYear(date) == DaysToMonth[LeapOf(date)][date.month] + date.day - 1
DayOf(date) == DaysToYear[YearOf(date)] + DayOfYear(date)

\* A year is a leap year or not, whatever it is.
LEMMA Leaps == \A year : RTC_LEAP_YEAR(year) \in BOOLEAN
BY DEF RTC_LEAP_YEAR

\* What is a record.
LEMMA DateFields ==
  ASSUME NEW d \in Dates
  PROVE  /\ YearOf(d) \in Years /\ YearOf(d) >= 1980 /\ d.year = YearOf(d) - 1980
         /\ LeapOf(d) \in BOOLEAN
         /\ d.month \in MonthsOfYear
         /\ d.day \in DaysOfMonth /\ d.day <= TM_RTC_Months[LeapOf(d)][d.month]
         /\ d.second \in SecondsOfDay
         /\ d = [year |-> d.year, month |-> d.month, day |-> d.day, second |-> d.second]
<1>1. d \in RTCDateTime
  BY DEF Dates
<1>2. d.day <= TM_RTC_Months[LeapOf(d)][d.month]
  BY DEF Dates, LeapOf, YearOf
<1>3. LeapOf(d) \in BOOLEAN
  BY Leaps DEF LeapOf
<1>4. /\ d.year \in RTCYears /\ d.month \in MonthsOfYear /\ d.day \in DaysOfMonth
      /\ d.second \in SecondsOfDay
      /\ d = [year |-> d.year, month |-> d.month, day |-> d.day, second |-> d.second]
  BY <1>1 DEF RTCDateTime
<1>5. PICK y \in RTCYears : y = d.year
  BY <1>4
<1>6. y + 1980 \in Years /\ y + 1980 >= 1980 /\ y = (y + 1980) - 1980
  BY YearRange DEF RTCYears, Years, RTC_OFFSET_YEAR
<1>7. YearOf(d) \in Years /\ YearOf(d) >= 1980 /\ d.year = YearOf(d) - 1980
  BY <1>5, <1>6 DEF YearOf
<1> QED BY <1>2, <1>3, <1>4, <1>7

\* The year and the month of a date are those its day is in.
LEMMA DateIsIn ==
  ASSUME NEW d \in Dates
  PROVE  /\ DayOfYear(d) \in Nat /\ InMonth(DayOfYear(d), LeapOf(d), d.month)
         /\ DayOf(d) \in Nat /\ InYear(DayOf(d), YearOf(d))
         /\ UnixSecond(d) = DayOf(d) * SECONDS_PER_DAY + d.second
<1>0. /\ YearOf(d) \in Years /\ LeapOf(d) \in BOOLEAN /\ d.month \in MonthsOfYear
      /\ d.day \in DaysOfMonth /\ d.day <= TM_RTC_Months[LeapOf(d)][d.month]
  BY DateFields
<1>1. PICK leap \in BOOLEAN, month \in MonthsOfYear, year \in Years :
        leap = LeapOf(d) /\ month = d.month /\ year = YearOf(d)
  BY <1>0, Zenon
<1>2. PICK start \in Nat : start = DaysToMonth[leap][month]
  BY Months DEF MonthsOfYear
<1>3. d.day \in DaysOfMonth /\ d.day <= TM_RTC_Months[leap][month]
  BY <1>0, <1>1, Zenon
<1>4. DayOfYear(d) = start + d.day - 1 /\ DayOfYear(d) \in Nat
  BY <1>1, <1>2, <1>3 DEF DayOfYear, MonthsOfYear, DaysOfMonth
<1>5. /\ DaysToMonth[leap][month + 1] = start + TM_RTC_Months[leap][month]
      /\ TM_RTC_Months[leap][month] \in 28 .. 31
  BY <1>2, MonthStep, Months DEF MonthsOfYear, DaysOfMonth
<1>6. DayOfYear(d) < DaysToMonth[leap][month + 1]
  BY <1>3, <1>4, <1>5 DEF MonthsOfYear, DaysOfMonth
<1>7. InMonth(DayOfYear(d), LeapOf(d), d.month)
  BY <1>1, <1>2, <1>3, <1>4, <1>6 DEF InMonth, MonthsOfYear, DaysOfMonth
<1>8. /\ DaysToMonth[leap][month + 1] <= DaysToMonth[leap][13]
      /\ DaysToMonth[leap][13] = YearLength(year)
  BY <1>1, Months DEF YearLength, LeapOf, MonthsOfYear, DaysOfMonth
<1>9. /\ DaysToYear[year] \in Nat
      /\ DaysToYear[year + 1] = DaysToYear[year] + YearLength(year)
  BY YearStep, YearsGrow, YearRange DEF Years, RTC_OFFSET_YEAR
<1>10. DayOf(d) = DaysToYear[year] + DayOfYear(d)
  BY <1>1 DEF DayOf
<1>11. DayOf(d) \in Nat /\ InYear(DayOf(d), YearOf(d))
  <2>1. YearLength(year) \in Nat
    BY DEF YearLength
  <2>2. DaysToMonth[leap][month + 1] \in Nat
    BY <1>5
  <2> QED BY <1>1, <1>4, <1>6, <1>8, <1>9, <1>10, <2>1, <2>2 DEF InYear, MonthsOfYear, DaysOfMonth
<1>12. UnixSecond(d) = (DaysToYear[year] + start + d.day - 1) * SECONDS_PER_DAY + d.second
  BY <1>1, <1>2 DEF UnixSecond, LeapOf, YearOf
<1>13. DaysToYear[year] + start + d.day - 1 = DayOf(d)
  BY <1>3, <1>4, <1>9, <1>10 DEF MonthsOfYear, DaysOfMonth
<1> QED BY <1>4, <1>7, <1>11, <1>12, <1>13

\* The seconds of a day, for which an interval of that size is never expanded.
LEMMA SecondRange ==
  /\ \A n \in Nat : n < SECONDS_PER_DAY => n \in SecondsOfDay
  /\ \A n \in SecondsOfDay : n \in Nat /\ n < SECONDS_PER_DAY
<1>1. SECONDS_PER_DAY \in Nat
  BY DEF SECONDS_PER_DAY
<1> QED BY <1>1 DEF SecondsOfDay

\* A second is split into a day and a second of it, and put together again.
LEMMA SplitSecond ==
  ASSUME NEW day \in Nat, NEW second \in SecondsOfDay
  PROVE  /\ day * SECONDS_PER_DAY + second \in Nat
         /\ (day * SECONDS_PER_DAY + second) \div SECONDS_PER_DAY = day
         /\ (day * SECONDS_PER_DAY + second) % SECONDS_PER_DAY = second
<1>1. second \in Nat /\ second < 86400
  BY SecondRange DEF SECONDS_PER_DAY
<1>2. PICK n \in Nat : n = day * 86400 + second
  BY <1>1
<1>3. n \div 86400 = day
  BY <1>1, <1>2
<1>4. n % 86400 = second
  BY <1>1, <1>2
<1> QED BY <1>2, <1>3, <1>4 DEF SECONDS_PER_DAY

\* ... and put together again.
LEMMA JoinSecond ==
  ASSUME NEW unix \in Nat
  PROVE  /\ unix \div SECONDS_PER_DAY \in Nat
         /\ unix % SECONDS_PER_DAY \in SecondsOfDay
         /\ unix = (unix \div SECONDS_PER_DAY) * SECONDS_PER_DAY + (unix % SECONDS_PER_DAY)
<1>1. unix \div 86400 \in Nat
  OBVIOUS
<1>2. unix % 86400 \in Nat /\ unix % 86400 < 86400
  OBVIOUS
<1>3. unix = (unix \div 86400) * 86400 + (unix % 86400)
  OBVIOUS
<1>4. unix % SECONDS_PER_DAY \in SecondsOfDay
  <2>1. unix % SECONDS_PER_DAY \in Nat /\ unix % SECONDS_PER_DAY < SECONDS_PER_DAY
    BY <1>2 DEF SECONDS_PER_DAY
  <2> QED BY <2>1, SecondRange
<1> QED BY <1>1, <1>3, <1>4 DEF SECONDS_PER_DAY

\* The date of a second, by the year and the month its day is in.
LEMMA DateTimeIs ==
  ASSUME NEW unix \in Nat, NEW day \in Nat, day = unix \div SECONDS_PER_DAY,
         NEW year, InYear(day, year), NEW leap, leap = RTC_LEAP_YEAR(year),
         NEW rest \in Nat, rest = day - DaysToYear[year],
         NEW month, InMonth(rest, leap, month)
  PROVE  DateTime(unix) =
           [year |-> year - 1980, month |-> month,
            day |-> rest - DaysToMonth[leap][month] + 1,
            second |-> unix % SECONDS_PER_DAY]
<1> DEFINE Y == RTC_OFFSET_YEAR
             + Cardinality({y \in RTC_OFFSET_YEAR + 1 .. LastYear : day >= DaysToYear[y]})
           M == 1 + Cardinality({m \in 1 .. 12 : rest >= DaysToMonth[leap][m + 1]})
<1>1. year \in Years /\ day < DaysToYear[LastYear + 1]
  <2>1. year \in Years /\ day < DaysToYear[year + 1]
    BY DEF InYear
  <2>2. /\ year + 1 \in RTC_OFFSET_YEAR .. LastYear + 1 /\ year + 1 <= LastYear + 1
        /\ LastYear + 1 \in RTC_OFFSET_YEAR .. LastYear + 1
    BY <2>1, YearRange DEF Years, RTC_OFFSET_YEAR
  <2>3. /\ DaysToYear[year + 1] \in Nat /\ DaysToYear[LastYear + 1] \in Nat
        /\ DaysToYear[year + 1] <= DaysToYear[LastYear + 1]
    BY <2>2, YearsGrow
  <2> QED BY <2>1, <2>3
<1>2. Y = year
  <2>1. InYear(day, Y)
    BY <1>1, YearCounted
  <2> HIDE DEF Y
  <2> QED BY <2>1, OneYear
<1>3. M = month
  <2>1. leap \in BOOLEAN
    BY Leaps
  <2>2. month \in 1 .. 12 /\ rest < DaysToMonth[leap][month + 1]
    BY Zenon DEF InMonth
  <2>3. /\ DaysToMonth[leap][month + 1] \in Nat /\ DaysToMonth[leap][13] \in Nat
        /\ DaysToMonth[leap][month + 1] <= DaysToMonth[leap][13]
    BY <2>1, <2>2, Months
  <2>4. InMonth(rest, leap, M)
    BY <2>1, <2>2, <2>3, MonthCounted
  <2> HIDE DEF M
  <2> QED BY <2>1, <2>4, OneMonth
<1>4. DateTime(unix) =
        [year |-> Y - 1980, month |-> 1 + Cardinality({m \in 1 .. 12 :
            day - DaysToYear[Y] >= DaysToMonth[RTC_LEAP_YEAR(Y)][m + 1]}),
         day |-> day - DaysToYear[Y] - DaysToMonth[RTC_LEAP_YEAR(Y)][1 + Cardinality({m \in 1 .. 12 :
            day - DaysToYear[Y] >= DaysToMonth[RTC_LEAP_YEAR(Y)][m + 1]})] + 1,
         second |-> unix % SECONDS_PER_DAY]
  BY DEF DateTime
<1> HIDE DEF Y
<1>5. DateTime(unix) =
        [year |-> year - 1980, month |-> M, day |-> rest - DaysToMonth[leap][M] + 1,
         second |-> unix % SECONDS_PER_DAY]
  BY <1>2, <1>4
<1> HIDE DEF M
<1> QED BY <1>3, <1>5

\* A date is converted back to itself.
THEOREM DateComesBack ==
  ASSUME NEW d \in Dates
  PROVE  UnixSecond(d) \in Nat /\ DateTime(UnixSecond(d)) = d
<1>1. PICK day \in Nat, rest \in Nat : day = DayOf(d) /\ rest = DayOfYear(d)
  BY DateIsIn
<1>2. PICK unix : unix = UnixSecond(d)
  OBVIOUS
<1>3. /\ InMonth(rest, LeapOf(d), d.month) /\ InYear(day, YearOf(d))
      /\ unix = day * SECONDS_PER_DAY + d.second
  BY <1>1, <1>2, DateIsIn
<1>4. /\ YearOf(d) \in Years /\ d.year = YearOf(d) - 1980 /\ LeapOf(d) \in BOOLEAN
      /\ d.month \in MonthsOfYear /\ d.day \in DaysOfMonth /\ d.second \in SecondsOfDay
      /\ d = [year |-> d.year, month |-> d.month, day |-> d.day, second |-> d.second]
  BY DateFields
<1>5. unix \in Nat /\ unix \div SECONDS_PER_DAY = day /\ unix % SECONDS_PER_DAY = d.second
  BY <1>3, <1>4, SplitSecond
<1>6. PICK begin \in Nat : begin = DaysToYear[YearOf(d)]
  BY <1>4, YearDomain, YearBegins
<1>7. day = begin + rest
  BY <1>1, <1>6 DEF DayOf
<1>8. rest = day - DaysToYear[YearOf(d)]
  BY <1>6, <1>7
<1>9. LeapOf(d) = RTC_LEAP_YEAR(YearOf(d))
  BY Zenon DEF LeapOf
<1>10. DateTime(unix) =
         [year |-> YearOf(d) - 1980, month |-> d.month,
          day |-> rest - DaysToMonth[LeapOf(d)][d.month] + 1,
          second |-> unix % SECONDS_PER_DAY]
  BY <1>3, <1>5, <1>8, <1>9, DateTimeIs
<1>11. rest - DaysToMonth[LeapOf(d)][d.month] + 1 = d.day
  <2>1. PICK start \in Nat : start = DaysToMonth[LeapOf(d)][d.month]
    <3>1. d.month \in 1 .. 13
      BY <1>4 DEF MonthsOfYear
    <3> QED BY <1>4, <3>1, Months
  <2>2. PICK n \in Nat : n = d.day
    BY <1>4 DEF DaysOfMonth
  <2>3. rest = start + n - 1
    BY <1>1, <2>1, <2>2 DEF DayOfYear
  <2> QED BY <2>1, <2>2, <2>3
<1>12. DateTime(unix) =
         [year |-> d.year, month |-> d.month, day |-> d.day, second |-> d.second]
  BY <1>4, <1>5, <1>10, <1>11
<1> QED BY <1>2, <1>4, <1>5, <1>12

\* The first and the last day of what is considered.
LEMMA YearEnds ==
  /\ 1980 \in RTC_OFFSET_YEAR .. LastYear + 1 /\ LastYear + 1 \in RTC_OFFSET_YEAR .. LastYear + 1
  /\ DaysToYear[1980] \in Nat /\ DaysToYear[LastYear + 1] \in Nat
  /\ DaysToYear[1980] > 0
<1>1. /\ 1980 \in RTC_OFFSET_YEAR .. LastYear + 1 /\ RTC_OFFSET_YEAR \in Nat
      /\ LastYear + 1 \in RTC_OFFSET_YEAR .. LastYear + 1 /\ 1980 - RTC_OFFSET_YEAR = 10
  BY YearRange DEF RTC_OFFSET_YEAR
<1>2. DaysToYear[1980] \in Nat /\ DaysToYear[LastYear + 1] \in Nat
  BY <1>1, YearBegins
<1>3. /\ DaysToYear[1980] = 365 * 10 + Cardinality(LeapsBefore(1980))
      /\ Cardinality(LeapsBefore(1980)) \in Nat
  BY <1>1, YearBegins, LeapCount
<1> QED BY <1>1, <1>2, <1>3

\* The days of a year are less than those to its end.
LEMMA DayBounds ==
  ASSUME NEW n \in Nat, NEW a \in Nat, NEW b \in Nat, NEW day \in Nat,
         NEW second \in SecondsOfDay, n = day * SECONDS_PER_DAY + second
  PROVE  /\ a * SECONDS_PER_DAY <= n <=> a <= day
         /\ n < b * SECONDS_PER_DAY <=> day < b
<1>1. second \in Nat /\ second < 86400
  BY SecondRange DEF SECONDS_PER_DAY
<1>2. n = day * 86400 + second
  BY DEF SECONDS_PER_DAY
<1>3. a * 86400 <= n <=> a <= day
  BY <1>1, <1>2
<1>4. n < b * 86400 <=> day < b
  BY <1>1, <1>2
<1> QED BY <1>3, <1>4 DEF SECONDS_PER_DAY

\* A date by its fields.
LEMMA DateMade ==
  ASSUME NEW year \in Years, 1980 <= year,
         NEW leap \in BOOLEAN, leap = RTC_LEAP_YEAR(year),
         NEW month \in MonthsOfYear, NEW dom \in DaysOfMonth,
         dom <= TM_RTC_Months[leap][month], NEW second \in SecondsOfDay,
         NEW d, d = [year |-> year - 1980, month |-> month, day |-> dom, second |-> second]
  PROVE  /\ d \in Dates /\ YearOf(d) = year /\ d.second = second
         /\ DayOf(d) = DaysToYear[year] + DaysToMonth[leap][month] + dom - 1
<1>1. year - 1980 \in RTCYears /\ (year - 1980) + 1980 = year
  BY YearRange, YearDomain DEF RTCYears, Years
<1>2. /\ d \in RTCDateTime
      /\ d.year = year - 1980 /\ d.month = month /\ d.day = dom /\ d.second = second
  BY <1>1 DEF RTCDateTime
<1>3. YearOf(d) = year
  BY <1>1, <1>2 DEF YearOf
<1>4. LeapOf(d) = leap
  BY <1>3 DEF LeapOf
<1>5. d \in Dates
  <2>1. d.day <= TM_RTC_Months[LeapOf(d)][d.month]
    BY <1>2, <1>4
  <2> QED BY <1>2, <2>1 DEF Dates, LeapOf, YearOf
<1>6. DaysToYear[year] \in Nat
  BY YearDomain, YearBegins
<1>7. DaysToMonth[leap][month] \in Nat
  BY Months DEF MonthsOfYear
<1>8. DayOf(d) = DaysToYear[year] + (DaysToMonth[leap][month] + dom - 1)
  BY <1>2, <1>3, <1>4 DEF DayOf, DayOfYear
<1> QED BY <1>2, <1>3, <1>5, <1>6, <1>7, <1>8 DEF DaysOfMonth

\* The date of a second of a day that is in a year and a month.
LEMMA DateOfDay ==
  ASSUME NEW day \in Nat, NEW second \in SecondsOfDay,
         NEW unix \in Nat, unix = day * SECONDS_PER_DAY + second,
         NEW year \in Years, 1980 <= year, InYear(day, year),
         NEW leap \in BOOLEAN, leap = RTC_LEAP_YEAR(year),
         NEW rest \in Nat, rest = day - DaysToYear[year],
         NEW month \in MonthsOfYear, InMonth(rest, leap, month)
  PROVE  DateTime(unix) \in Dates /\ UnixSecond(DateTime(unix)) = unix
<1>1. unix \div SECONDS_PER_DAY = day /\ unix % SECONDS_PER_DAY = second
  BY SplitSecond
<1>2. PICK begin \in Nat : begin = DaysToYear[year]
  BY YearDomain, YearBegins
<1>3. /\ DaysToMonth[leap][month] \in Nat /\ TM_RTC_Months[leap][month] \in 28 .. 31
      /\ DaysToMonth[leap][month + 1] = DaysToMonth[leap][month] + TM_RTC_Months[leap][month]
  BY MonthStep, Months DEF MonthsOfYear
<1>4. PICK start \in Nat : start = DaysToMonth[leap][month]
  BY <1>3
<1>5. PICK len \in Nat : len = TM_RTC_Months[leap][month] /\ len <= 31
  BY <1>3
<1>6. start <= rest /\ rest < start + len
  BY <1>3, <1>4, <1>5 DEF InMonth
<1>7. PICK dom \in Nat : dom = rest - start + 1 /\ 1 <= dom /\ dom <= len
  BY <1>6
<1>8. dom \in DaysOfMonth
  BY <1>5, <1>7 DEF DaysOfMonth
<1>9. DateTime(unix) =
        [year |-> year - 1980, month |-> month, day |-> dom, second |-> second]
  <2>1. DateTime(unix) =
          [year |-> year - 1980, month |-> month,
           day |-> rest - DaysToMonth[leap][month] + 1,
           second |-> unix % SECONDS_PER_DAY]
    BY <1>1, DateTimeIs
  <2> QED BY <1>1, <1>4, <1>7, <2>1
<1>10. DateTime(unix) \in Dates /\ DayOf(DateTime(unix)) = begin + start + dom - 1
       /\ DateTime(unix).second = second
  BY <1>2, <1>4, <1>5, <1>7, <1>8, <1>9, DateMade
<1>11. begin + start + dom - 1 = day
  BY <1>2, <1>7
<1> QED BY <1>10, <1>11, DateIsIn

\* Every second considered has a date, which is converted back to it.
THEOREM SecondComesBack ==
  ASSUME NEW unix \in Nat, DaysToYear[1980] * SECONDS_PER_DAY <= unix,
         unix < DaysToYear[LastYear + 1] * SECONDS_PER_DAY
  PROVE  DateTime(unix) \in Dates /\ UnixSecond(DateTime(unix)) = unix
<1> DEFINE day == unix \div SECONDS_PER_DAY
           second == unix % SECONDS_PER_DAY
           year == RTC_OFFSET_YEAR
             + Cardinality({y \in RTC_OFFSET_YEAR + 1 .. LastYear : day >= DaysToYear[y]})
           leap == RTC_LEAP_YEAR(year)
           rest == day - DaysToYear[year]
           month == 1 + Cardinality({m \in 1 .. 12 : rest >= DaysToMonth[leap][m + 1]})
<1>1. day \in Nat /\ second \in SecondsOfDay /\ unix = day * SECONDS_PER_DAY + second
  BY JoinSecond
<1> HIDE DEF second
<1>2. DaysToYear[1980] <= day /\ day < DaysToYear[LastYear + 1]
  BY <1>1, YearEnds, DayBounds
<1>3. InYear(day, year)
  BY <1>1, <1>2, YearCounted
<1>4. leap \in BOOLEAN
  BY Leaps
<1> HIDE DEF day, year
<1>5. year \in Years /\ DaysToYear[year] \in Nat /\ YearLength(year) \in Nat
  BY <1>3, YearDomain, YearBegins DEF InYear, YearLength
<1>6. rest \in Nat /\ rest < YearLength(year)
  BY <1>1, <1>3, <1>5, YearStep DEF InYear
<1>7. YearLength(year) = DaysToMonth[leap][13]
  BY <1>4, Months DEF YearLength
<1>8. InMonth(rest, leap, month)
  <2> HIDE DEF rest, leap
  <2> QED BY <1>4, <1>6, <1>7, MonthCounted
<1>9. 1980 <= year
  <2>1. year \in Nat /\ year + 1 \in RTC_OFFSET_YEAR .. LastYear + 1
    BY <1>5, YearDomain DEF Years
  <2> SUFFICES ASSUME year + 1 <= 1980 PROVE FALSE
    BY <2>1
  <2>2. DaysToYear[year + 1] <= DaysToYear[1980] /\ DaysToYear[year + 1] \in Nat
    BY <2>1, YearEnds, YearsGrow
  <2> QED BY <1>1, <1>2, <1>3, <2>2, YearEnds DEF InYear
<1>10. leap = RTC_LEAP_YEAR(year) /\ rest = day - DaysToYear[year]
  OBVIOUS
<1> HIDE DEF leap, rest, month
<1>11. month \in MonthsOfYear
  BY <1>8 DEF InMonth, MonthsOfYear
<1> QED BY <1>1, <1>3, <1>4, <1>5, <1>6, <1>8, <1>9, <1>10, <1>11, DateOfDay

-----------------------------------------------------------------------------
(* The RTC counts in the seconds of the conversions.                        *)

\* Its months end where the table says.
LEMMA MonthEnd ==
  ASSUME NEW d \in Dates
  PROVE  EndOfMonth(d) <=> d.day = TM_RTC_Months[LeapOf(d)][d.month]
<1>1. /\ YearOf(d) \in Years /\ d.year = YearOf(d) - 1980 /\ LeapOf(d) \in BOOLEAN
      /\ d.month \in MonthsOfYear
  BY DateFields
<1>2. PICK year \in Years : year = YearOf(d) /\ d.year + 1980 = year
  BY <1>1, YearDomain
<1>0. LeapOf(d) \in BOOLEAN
  BY <1>1
<1>3. PICK leap \in BOOLEAN : leap = LeapOf(d)
  BY <1>0, Zenon
<1>4. leap <=> (d.year + 1980) % 4 = 0
  BY <1>2, <1>3, LeapYears DEF LeapOf
<1>5. PICK month \in 1 .. 12 : month = d.month
  BY <1>1 DEF MonthsOfYear
<1>6. TM_RTC_Months[leap][month] =
        CASE month \in {4, 6, 9, 11} -> 30
          [] month = 2 /\ leap -> 29
          [] month = 2 /\ ~leap -> 28
          [] OTHER -> 31
  BY DEF TM_RTC_Months
<1>7. EndOfMonth(d) <=>
        d.day = CASE month \in {4, 6, 9, 11} -> 30
                  [] month = 2 /\ leap -> 29
                  [] month = 2 /\ ~leap -> 28
                  [] OTHER -> 31
  BY <1>4, <1>5 DEF EndOfMonth
<1> QED BY <1>3, <1>5, <1>6, <1>7

\* The next day is the day after, if there is one.
LEMMA DayPasses ==
  ASSUME NEW d \in Dates, DayOf(d) + 1 < DaysToYear[LastYear + 1]
  PROVE  /\ NextDay(d) \in Dates /\ DayOf(NextDay(d)) = DayOf(d) + 1
         /\ NextDay(d).second = 0
<1>1. /\ YearOf(d) \in Years /\ 1980 <= YearOf(d) /\ d.year = YearOf(d) - 1980
      /\ LeapOf(d) \in BOOLEAN /\ d.month \in MonthsOfYear
      /\ d.day \in DaysOfMonth /\ d.day <= TM_RTC_Months[LeapOf(d)][d.month]
  BY DateFields
<1>0. /\ YearOf(d) \in Years /\ LeapOf(d) \in BOOLEAN /\ d.month \in MonthsOfYear
      /\ d.day \in DaysOfMonth
  BY <1>1
<1>2. PICK leap \in BOOLEAN, month \in MonthsOfYear, year \in Years, dom \in DaysOfMonth :
        leap = LeapOf(d) /\ month = d.month /\ year = YearOf(d) /\ dom = d.day
  BY <1>0, Zenon
<1>3. leap = RTC_LEAP_YEAR(year) /\ 1980 <= year /\ d.year = year - 1980
  BY <1>1, <1>2 DEF LeapOf
<1>4. PICK begin \in Nat : begin = DaysToYear[year]
  BY YearDomain, YearBegins
<1>5. /\ DaysToMonth[leap][month] \in Nat /\ TM_RTC_Months[leap][month] \in 28 .. 31
      /\ DaysToMonth[leap][month + 1] = DaysToMonth[leap][month] + TM_RTC_Months[leap][month]
  BY MonthStep, Months DEF MonthsOfYear
<1>6. PICK start \in Nat, len \in DaysOfMonth :
        start = DaysToMonth[leap][month] /\ len = TM_RTC_Months[leap][month]
  BY <1>5 DEF DaysOfMonth
<1>7. DayOf(d) = begin + start + dom - 1
  BY <1>2, <1>4, <1>6 DEF DayOf, DayOfYear, DaysOfMonth
<1>8. dom <= len /\ (EndOfMonth(d) <=> dom = len)
  BY <1>1, <1>2, <1>6, MonthEnd
<1>9. 0 \in SecondsOfDay
  BY SecondRange DEF SECONDS_PER_DAY
<1>10. CASE ~EndOfMonth(d)
  <2>1. ~(month = 12 /\ dom = 31)
    <3>1. TM_RTC_Months[leap][12] = 31
      BY DEF TM_RTC_Months
    <3> QED BY <1>6, <1>8, <1>10, <3>1
  <2>2. dom + 1 \in DaysOfMonth /\ dom + 1 <= len
    BY <1>8, <1>10 DEF DaysOfMonth
  <2>3. NextDay(d) = [year |-> year - 1980, month |-> month, day |-> dom + 1, second |-> 0]
    BY <1>2, <1>3, <1>10, <2>1 DEF NextDay
  <2>4. /\ NextDay(d) \in Dates /\ NextDay(d).second = 0
        /\ DayOf(NextDay(d)) = begin + start + (dom + 1) - 1
    BY <1>3, <1>4, <1>6, <1>9, <2>2, <2>3, DateMade
  <2> QED BY <1>7, <2>4 DEF DaysOfMonth
<1>11. CASE EndOfMonth(d) /\ month # 12
  <2>1. month + 1 \in MonthsOfYear /\ (month % 12) + 1 = month + 1
    BY <1>11 DEF MonthsOfYear
  <2>2. 1 \in DaysOfMonth /\ 1 <= TM_RTC_Months[leap][month + 1]
    BY <2>1, Months DEF MonthsOfYear, DaysOfMonth
  <2>3. NextDay(d) = [year |-> year - 1980, month |-> month + 1, day |-> 1, second |-> 0]
    BY <1>2, <1>3, <1>11, <2>1 DEF NextDay
  <2>4. /\ NextDay(d) \in Dates /\ NextDay(d).second = 0
        /\ DayOf(NextDay(d)) = begin + DaysToMonth[leap][month + 1] + 1 - 1
    BY <1>3, <1>4, <1>9, <2>1, <2>2, <2>3, DateMade
  <2> QED BY <1>5, <1>6, <1>7, <1>8, <1>11, <2>4 DEF DaysOfMonth
<1>12. CASE EndOfMonth(d) /\ month = 12
  <2>1. len = 31 /\ dom = 31
    <3>1. TM_RTC_Months[leap][12] = 31
      BY DEF TM_RTC_Months
    <3> QED BY <1>6, <1>8, <1>12, <3>1
  <2>2. DaysToMonth[leap][13] = start + 31
    BY <1>5, <1>6, <1>12, <2>1
  <2>3. DaysToYear[year + 1] = begin + DaysToMonth[leap][13]
    BY <1>3, <1>4, YearStep, Months DEF YearLength
  <2>4. DayOf(d) + 1 = DaysToYear[year + 1]
    BY <1>7, <2>1, <2>2, <2>3
  <2>5. year + 1 \in Years /\ 1980 <= year + 1 /\ (year - 1980) + 1 = (year + 1) - 1980
    <3>1. year # LastYear /\ year \in Nat
      BY <2>4, YearDomain, YearEnds DEF Years
    <3> QED BY <1>3, <3>1, YearRange DEF Years, RTC_OFFSET_YEAR
  <2>6. PICK next \in BOOLEAN : next = RTC_LEAP_YEAR(year + 1)
    <3>1. RTC_LEAP_YEAR(year + 1) \in BOOLEAN
      BY Leaps
    <3> QED BY <3>1
  <2>7. 1 \in MonthsOfYear /\ 1 \in DaysOfMonth /\ 1 <= TM_RTC_Months[next][1]
    BY Months DEF MonthsOfYear, DaysOfMonth
  <2>8. NextDay(d) = [year |-> (year + 1) - 1980, month |-> 1, day |-> 1, second |-> 0]
    BY <1>2, <1>3, <1>12, <2>1, <2>5 DEF NextDay
  <2>9. /\ NextDay(d) \in Dates /\ NextDay(d).second = 0
        /\ DayOf(NextDay(d)) = DaysToYear[year + 1] + DaysToMonth[next][1] + 1 - 1
    BY <1>9, <2>5, <2>6, <2>7, <2>8, DateMade
  <2>10. DaysToMonth[next][1] = 0 /\ DaysToYear[year + 1] \in Nat
    BY <2>5, MonthStep, YearDomain, YearBegins
  <2> QED BY <2>4, <2>9, <2>10
<1> QED BY <1>10, <1>11, <1>12

\* The next second is the second after, if there is one.
LEMMA SecondPasses ==
  ASSUME NEW d \in Dates, UnixSecond(d) + 1 < DaysToYear[LastYear + 1] * SECONDS_PER_DAY
  PROVE  /\ NextSecond(d) \in Dates
         /\ UnixSecond(NextSecond(d)) = UnixSecond(d) + 1
<1>1. PICK day \in Nat, second \in SecondsOfDay : day = DayOf(d) /\ second = d.second
  BY DateFields, DateIsIn
<1>2. UnixSecond(d) = day * SECONDS_PER_DAY + second
  BY <1>1, DateIsIn
<1>3. second \in Nat /\ second < 86400
  BY SecondRange DEF SECONDS_PER_DAY
<1>4. CASE second = SECONDS_PER_DAY - 1
  <2>1. UnixSecond(d) + 1 = (day + 1) * SECONDS_PER_DAY
    BY <1>2, <1>3, <1>4 DEF SECONDS_PER_DAY
  <2>2. PICK end \in Nat : end = DaysToYear[LastYear + 1]
    BY YearEnds
  <2>3. day + 1 < end
    BY <2>1, <2>2 DEF SECONDS_PER_DAY
  <2>4. /\ NextDay(d) \in Dates /\ DayOf(NextDay(d)) = day + 1 /\ NextDay(d).second = 0
    BY <1>1, <2>2, <2>3, DayPasses
  <2>5. NextSecond(d) = NextDay(d)
    BY <1>1, <1>4 DEF NextSecond
  <2>6. UnixSecond(NextDay(d)) = (day + 1) * SECONDS_PER_DAY + 0
    BY <2>4, DateIsIn
  <2> QED BY <2>1, <2>4, <2>5, <2>6 DEF SECONDS_PER_DAY
<1>5. CASE second # SECONDS_PER_DAY - 1
  <2>1. second + 1 \in SecondsOfDay
    <3>1. second + 1 \in Nat /\ second + 1 < SECONDS_PER_DAY
      BY <1>3, <1>5 DEF SECONDS_PER_DAY
    <3> QED BY <3>1, SecondRange
  <2>2. /\ d.year \in RTCYears /\ d.month \in MonthsOfYear /\ d.day \in DaysOfMonth
        /\ d \in RTCDateTime
        /\ d = [year |-> d.year, month |-> d.month, day |-> d.day, second |-> d.second]
    BY DEF Dates, RTCDateTime
  <2> DEFINE n == [year |-> d.year, month |-> d.month, day |-> d.day, second |-> second + 1]
  <2>3. NextSecond(d) = n
    BY <1>1, <1>5, <2>2 DEF NextSecond
  <2>4. /\ n \in RTCDateTime
        /\ n.year = d.year /\ n.month = d.month /\ n.day = d.day /\ n.second = second + 1
    BY <2>1, <2>2 DEF RTCDateTime
  <2> HIDE DEF n
  <2>5. n \in Dates
    BY <2>4 DEF Dates
  <2>6. DayOf(n) = day
    BY <1>1, <2>4 DEF DayOf, DayOfYear, LeapOf, YearOf
  <2>7. UnixSecond(n) = day * SECONDS_PER_DAY + (second + 1)
    BY <2>4, <2>5, <2>6, DateIsIn
  <2> QED BY <1>2, <1>3, <2>3, <2>5, <2>7 DEF SECONDS_PER_DAY
<1> QED BY <1>4, <1>5

-----------------------------------------------------------------------------
(* The clock of the node.                                                   *)

\* A date is after the first second of 1970, which stands for "never".
LEMMA DateIsLate ==
  ASSUME NEW d \in Dates
  PROVE  /\ UnixSecond(d) \in Nat /\ UnixSecond(d) # 0
         /\ DaysToYear[1980] * SECONDS_PER_DAY <= UnixSecond(d)
<1>1. PICK day \in Nat, second \in SecondsOfDay :
        /\ InYear(day, YearOf(d)) /\ second = d.second
        /\ UnixSecond(d) = day * SECONDS_PER_DAY + second
  BY DateFields, DateIsIn
<1>2. /\ YearOf(d) \in RTC_OFFSET_YEAR .. LastYear + 1
      /\ 1980 \in RTC_OFFSET_YEAR .. LastYear + 1 /\ 1980 <= YearOf(d)
  BY DateFields, YearDomain, YearEnds
<1>3. PICK first \in Nat : first = DaysToYear[1980] /\ first > 0
  BY YearEnds
<1>4. first <= day
  BY <1>1, <1>2, <1>3, YearsGrow DEF InYear
<1>5. second \in Nat
  BY SecondRange
<1> QED BY <1>1, <1>3, <1>4, <1>5 DEF SECONDS_PER_DAY

\* What a run considers is in the years considered.
LEMMA WindowInYears ==
  ASSUME NEW n \in Window
  PROVE  /\ n \in Nat /\ DaysToYear[1980] * SECONDS_PER_DAY <= n
         /\ n < DaysToYear[LastYear + 1] * SECONDS_PER_DAY
<1>1. PICK d \in Starts : n \in UnixSecond(d) .. UnixSecond(d) + Span
  BY DEF Window
<1>2. /\ d \in Dates /\ Span \in Nat
      /\ UnixSecond(d) + Span < DaysToYear[LastYear + 1] * SECONDS_PER_DAY
  BY ContactAssumption
<1>3. PICK u \in Nat, first \in Nat, end \in Nat :
        /\ u = UnixSecond(d) /\ first = DaysToYear[1980] * SECONDS_PER_DAY
        /\ end = DaysToYear[LastYear + 1] * SECONDS_PER_DAY
        /\ first <= u
  BY <1>2, DateIsLate, YearEnds DEF SECONDS_PER_DAY
<1>4. n \in Nat /\ u <= n /\ n <= u + Span
  BY <1>1, <1>2, <1>3
<1> QED BY <1>2, <1>3, <1>4

\* What a step does to the clock.
LEMMA ClockSecond ==
  ASSUME rtc \in Dates, Second
  PROVE  rtc' \in Dates /\ nowUnixSec' = nowUnixSec + 1
<1>1. UnixSecond(rtc) + 1 < DaysToYear[LastYear + 1] * SECONDS_PER_DAY
  BY WindowInYears DEF Second, nowUnixSec
<1> QED BY <1>1, SecondPasses DEF Second, nowUnixSec

\* A beacon sets a date, and one that is right the date that was.
LEMMA ClockBeacon ==
  ASSUME rtc \in Dates, NEW step \in Steps, TimeBeacon(step)
  PROVE  rtc' \in Dates /\ (step = 0 => rtc' = rtc)
<1>1. rtc' = DateTime(nowUnixSec + step) /\ nowUnixSec + step \in Window
  BY DEF TimeBeacon
<1>2. rtc' \in Dates
  BY <1>1, WindowInYears, SecondComesBack
<1>3. step = 0 => rtc' = rtc
  <2>1. UnixSecond(rtc) \in Nat /\ DateTime(UnixSecond(rtc)) = rtc
    BY DateComesBack
  <2> QED BY <1>1, <2>1 DEF nowUnixSec
<1> QED BY <1>2, <1>3

\* Two dates that are the same are the same second,
LEMMA ClockStands == rtc' = rtc => nowUnixSec' = nowUnixSec
BY DEF nowUnixSec

\* which is never 0, the mark for "never".
LEMMA NowIsLate == rtc \in Dates => nowUnixSec \in Nat /\ nowUnixSec # 0
BY DateIsLate DEF nowUnixSec

-----------------------------------------------------------------------------
(* The invariants.                                                          *)
TypeInv ==
  /\ rtc \in Dates
  /\ lastGwContact \in Nat /\ sampled \in Nat
  /\ pingCountdown \in 0 .. KEEPALIVE_SECS
  /\ pingPending \in BOOLEAN /\ booted \in BOOLEAN /\ stepped \in BOOLEAN
  /\ due \subseteq Threads /\ busy \in 0 .. MaxBusy
  /\ silence \in 0 .. LongSilence /\ calm \in 0 .. Patience + 1

\* A booted node has heard the gateway; no other asks for it.
BootInv ==
  /\ booted => lastGwContact # 0
  /\ ~booted => calm = 0 /\ ~pingPending

\* The clock shows how long the gateway was silent.
SilenceInv ==
  ~stepped /\ lastGwContact # 0 =>
    /\ lastGwContact <= nowUnixSec
    /\ silence = UpTo(nowUnixSec - lastGwContact, LongSilence)

\* What the service thread has read is of this second, or of the one before if
\* it is due again.
SampledInv ==
  ~stepped /\ lastGwContact # 0 /\ sampled # 0 =>
    IF "service" \in due
    THEN silence > 1 => sampled = nowUnixSec - 1
    ELSE silence > 0 => sampled = nowUnixSec

\* The seconds until the service thread asks for a ping, at most ...
UntilAsked ==
  (IF pingCountdown > 1 THEN pingCountdown ELSE 1)
  + (IF sampled = 0 /\ "service" \notin due THEN 1 ELSE 0)
  - (IF sampled # 0 /\ "service" \in due THEN 1 ELSE 0)

\* ... and until RS485Thread has sent it.
UntilDone ==
  IF pingPending
  THEN MaxBusy - busy + IF "rs485" \in due THEN 0 ELSE 1
  ELSE UntilAsked + MaxBusy + 1

\* The next ping is done in time: after the last that was lost, or after contact.
RegainInv ==
  booted =>
    \/ calm + UntilDone <= Patience
    \/ /\ lastGwContact <= nowUnixSec
       /\ nowUnixSec - lastGwContact + UntilDone <= Patience

\* A ping that was asked for before contact was lost is asked for again one period
\* later; any other at the cadence of the retries.
AskInv ==
  ~stepped /\ lastGwContact # 0 =>
    \/ silence + UntilAsked <= GW_TIMEOUT_SECS + KEEPALIVE_SECS
    \/ pingCountdown <= OFFLINE_RETRY_SECS

\* So the next ping is done in the time of a retry, or before the silence is long.
RetryInv ==
  booted /\ ~stepped =>
    \/ calm + UntilDone <= OFFLINE_RETRY_SECS + MaxBusy + 2
    \/ silence + UntilDone < LongSilence

ContactInv ==
  /\ TypeInv /\ BootInv /\ SilenceInv /\ SampledInv /\ RegainInv /\ AskInv /\ RetryInv

\* The constants ...
LEMMA Periods ==
  /\ GW_TIMEOUT_SECS \in Nat /\ KEEPALIVE_SECS \in Nat /\ OFFLINE_RETRY_SECS \in Nat
  /\ MaxBusy \in Nat /\ 1 <= OFFLINE_RETRY_SECS /\ OFFLINE_RETRY_SECS <= KEEPALIVE_SECS
  /\ KEEPALIVE_SECS + MaxBusy + 2 < GW_TIMEOUT_SECS
  /\ Patience = KEEPALIVE_SECS + MaxBusy + 2 /\ LongSilence = GW_TIMEOUT_SECS + Patience
  /\ Patience \in Nat /\ LongSilence \in Nat
BY ContactAssumption DEF Patience, LongSilence

\* ... and what the two waits can be,
LEMMA Waits ==
  ASSUME TypeInv
  PROVE  /\ UntilAsked \in Nat /\ UntilAsked <= KEEPALIVE_SECS + 1
         /\ pingCountdown <= OFFLINE_RETRY_SECS => UntilAsked <= OFFLINE_RETRY_SECS + 1
         /\ UntilDone \in Nat /\ UntilDone <= Patience
<1>1. /\ UntilAsked \in Nat /\ UntilAsked <= KEEPALIVE_SECS + 1
      /\ pingCountdown <= OFFLINE_RETRY_SECS => UntilAsked <= OFFLINE_RETRY_SECS + 1
  BY Periods DEF TypeInv, UntilAsked
<1> QED BY <1>1, Periods DEF TypeInv, UntilDone

\* ... in the next state as well.
LEMMA WaitsNext ==
  ASSUME TypeInv'
  PROVE  /\ UntilAsked' \in Nat /\ UntilAsked' <= KEEPALIVE_SECS + 1
         /\ pingCountdown' <= OFFLINE_RETRY_SECS => UntilAsked' <= OFFLINE_RETRY_SECS + 1
         /\ UntilDone' \in Nat /\ UntilDone' <= Patience
<1>1. PICK count \in 0 .. KEEPALIVE_SECS : pingCountdown' = count
  BY DEF TypeInv
<1>2. PICK late \in 0 .. MaxBusy : busy' = late
  BY DEF TypeInv
<1>3. PICK asked : UntilAsked' = asked
  OBVIOUS
<1>4. /\ asked \in Nat /\ asked <= KEEPALIVE_SECS + 1
      /\ count <= OFFLINE_RETRY_SECS => asked <= OFFLINE_RETRY_SECS + 1
  BY <1>1, <1>3, Periods DEF UntilAsked
<1>5. UntilDone' \in Nat /\ UntilDone' <= Patience
  BY <1>2, <1>3, <1>4, Periods DEF UntilDone
<1> QED BY <1>1, <1>3, <1>4, <1>5

\* A ping that is yet to be asked for is done in the time of a retry, or before the
\* silence is long.
LEMMA AskedInTime ==
  ASSUME TypeInv, AskInv, ~stepped, lastGwContact # 0
  PROVE  \/ UntilAsked + MaxBusy + 1 <= OFFLINE_RETRY_SECS + MaxBusy + 2
         \/ silence + UntilAsked + MaxBusy + 1 < LongSilence
<1>1. silence \in Nat /\ UntilAsked \in Nat
  BY Waits, Periods DEF TypeInv
<1> QED BY <1>1, Waits, Periods DEF AskInv

-----------------------------------------------------------------------------
(* What each step does to them.                                             *)
LEMMA TypeStep == TypeInv /\ [Next]_vars => TypeInv'
<1> SUFFICES ASSUME TypeInv, [Next]_vars PROVE TypeInv'
  OBVIOUS
<1>1. nowUnixSec \in Nat
  BY NowIsLate DEF TypeInv
<1>2. CASE Second
  BY <1>2, ClockSecond, Periods
  DEF Second, TypeInv, Threads, UpTo, serviceVars
<1>3. CASE ServiceSample
  BY <1>1, <1>3 DEF ServiceSample, TypeInv, clockVars
<1>4. CASE ServiceDecide
  <2>1. PICK now : IF Asks(ConnectedAt(now))
                   THEN /\ pingPending' = TRUE
                        /\ pingCountdown' = NextPing(ConnectedAt(now))
                   ELSE /\ pingCountdown' = Counted
                        /\ UNCHANGED pingPending
    BY <1>4 DEF ServiceDecide
  <2>2. pingPending' \in BOOLEAN
    BY <2>1 DEF TypeInv
  <2>3. NextPing(ConnectedAt(now)) \in 0 .. KEEPALIVE_SECS /\ Counted \in 0 .. KEEPALIVE_SECS
    BY Periods DEF TypeInv, NextPing, Counted
  <2>4. pingCountdown' \in 0 .. KEEPALIVE_SECS
    BY <2>1, <2>3
  <2> QED BY <1>4, <2>2, <2>4 DEF ServiceDecide, TypeInv, clockVars
<1>5. ASSUME NEW answered \in BOOLEAN, IdleTick(answered) PROVE TypeInv'
  <2>1. pingPending' \in BOOLEAN /\ stepped' \in BOOLEAN
    BY <1>5 DEF IdleTick, TypeInv
  <2> QED BY <1>1, <1>5, <2>1, Periods DEF IdleTick, Heard, TypeInv, serviceVars
<1>6. CASE Busy
  BY <1>6, Periods DEF Busy, TypeInv, clockVars, serviceVars
<1>7. CASE GatewayMessage
  <2>1. stepped' \in BOOLEAN
    BY <1>7 DEF GatewayMessage
  <2> QED BY <1>1, <1>7, <2>1, Periods DEF GatewayMessage, Heard, TypeInv, serviceVars
<1>8. ASSUME NEW step \in Steps, TimeBeacon(step) PROVE TypeInv'
  BY <1>1, <1>8, ClockBeacon, Periods DEF TimeBeacon, Heard, TypeInv, serviceVars
<1>9. CASE Booted
  BY <1>9 DEF Booted, TypeInv, clockVars, serviceVars
<1>10. CASE UNCHANGED vars
  BY <1>10 DEF TypeInv, vars, clockVars, serviceVars
<1> QED BY <1>2, <1>3, <1>4, <1>5, <1>6, <1>7, <1>8, <1>9, <1>10 DEF Next

\* A second: all waits are one shorter.
LEMMA SecondStep ==
  ASSUME ContactInv, TypeInv', Second
  PROVE  ContactInv'
<1>1. /\ nowUnixSec \in Nat /\ nowUnixSec' = nowUnixSec + 1
      /\ UntilAsked \in Nat /\ UntilDone \in Nat
  BY ClockSecond, NowIsLate, Waits DEF ContactInv, TypeInv
<1>2. UntilAsked' = UntilAsked - 1
  BY Periods DEF ContactInv, TypeInv, Second, Threads, serviceVars, UntilAsked
<1>3. UntilDone' = UntilDone - 1
  BY <1>1, <1>2, Periods DEF ContactInv, TypeInv, Second, Threads, UntilDone
<1>4. /\ silence' <= silence + 1 /\ (silence' = silence + 1 \/ silence' = LongSilence)
      /\ (silence' > 1 => silence > 0)
      /\ calm' <= calm + 1
  BY Periods DEF ContactInv, TypeInv, Second, UpTo
<1>5. BootInv'
  BY DEF ContactInv, BootInv, Second
<1>6. SilenceInv'
  BY <1>1, Periods DEF ContactInv, TypeInv, SilenceInv, Second, UpTo
<1>7. SampledInv'
  BY <1>1, <1>4 DEF ContactInv, TypeInv, SampledInv, Second, serviceVars, Threads
<1>8. RegainInv'
  BY <1>1, <1>3, <1>4, Periods DEF ContactInv, TypeInv, RegainInv, Second
<1>9. AskInv'
  BY <1>1, <1>2, <1>4, Periods DEF ContactInv, TypeInv, AskInv, Second, serviceVars
<1>10. RetryInv'
  BY <1>1, <1>3, <1>4, Periods DEF ContactInv, TypeInv, RetryInv, Second
<1> QED BY <1>5, <1>6, <1>7, <1>8, <1>9, <1>10 DEF ContactInv

\* The service thread reads the clock: it will ask when it would have asked.
LEMMA SampleStep ==
  ASSUME ContactInv, TypeInv', ServiceSample
  PROVE  ContactInv'
<1>1. /\ nowUnixSec \in Nat /\ nowUnixSec # 0 /\ nowUnixSec' = nowUnixSec
      /\ UntilAsked \in Nat /\ UntilDone \in Nat
  BY NowIsLate, ClockStands, Waits DEF ContactInv, TypeInv, ServiceSample, clockVars
<1>2. UntilAsked' = UntilAsked
  BY <1>1, Periods DEF ContactInv, TypeInv, ServiceSample, UntilAsked
<1>3. UntilDone' = UntilDone
  BY <1>2, Periods DEF ContactInv, TypeInv, ServiceSample, UntilDone
<1>4. BootInv' /\ SilenceInv' /\ SampledInv'
  BY <1>1 DEF ContactInv, BootInv, SilenceInv, SampledInv, ServiceSample, clockVars
<1>5. RegainInv' /\ RetryInv'
  BY <1>1, <1>3 DEF ContactInv, RegainInv, RetryInv, ServiceSample, clockVars
<1>6. AskInv'
  BY <1>1, <1>2 DEF ContactInv, AskInv, ServiceSample, clockVars
<1> QED BY <1>4, <1>5, <1>6 DEF ContactInv

\* It asks for a ping, or counts on.
LEMMA DecideStep ==
  ASSUME ContactInv, TypeInv', ServiceDecide
  PROVE  ContactInv'
<1>1. /\ nowUnixSec \in Nat /\ nowUnixSec' = nowUnixSec
      /\ UntilAsked \in Nat /\ UntilDone \in Nat
  BY NowIsLate, ClockStands, Waits DEF ContactInv, TypeInv, ServiceDecide, clockVars
<1>2. PICK now \in {sampled, nowUnixSec} :
        IF Asks(ConnectedAt(now))
        THEN /\ pingPending' = TRUE
             /\ pingCountdown' = NextPing(ConnectedAt(now))
        ELSE /\ pingCountdown' = Counted
             /\ UNCHANGED pingPending
  BY DEF ServiceDecide
<1>3. /\ sampled # 0 /\ sampled' = 0 /\ rtc' = rtc /\ stepped' = stepped
      /\ UNCHANGED <<lastGwContact, booted, due, busy, silence, calm>>
  BY DEF ServiceDecide, clockVars
<1>4. BootInv' /\ SilenceInv' /\ SampledInv'
  BY <1>1, <1>2, <1>3 DEF ContactInv, BootInv, SilenceInv, SampledInv, Asks
<1>5. booted => UntilDone' <= UntilDone
  <2>1. CASE Asks(ConnectedAt(now))
    BY <1>1, <1>2, <1>3, <2>1, Periods DEF ContactInv, TypeInv, UntilDone
  <2>2. CASE ~Asks(ConnectedAt(now)) /\ booted
    <3>1. pingCountdown > 1 /\ pingCountdown' = pingCountdown - 1 /\ pingPending' = pingPending
      BY <1>2, <2>2 DEF ContactInv, TypeInv, Asks, Counted
    <3>2. UntilAsked' = UntilAsked
      BY <1>3, <3>1, Periods DEF ContactInv, TypeInv, UntilAsked
    <3> QED BY <1>1, <1>3, <3>1, <3>2, Periods DEF ContactInv, TypeInv, UntilDone
  <2> QED BY <2>1, <2>2
<1>6. RegainInv' /\ RetryInv'
  <2>1. PICK done \in Nat : UntilDone' = done
    BY WaitsNext
  <2>2. RegainInv'
    BY <1>1, <1>3, <1>5, <2>1, Periods DEF ContactInv, TypeInv, RegainInv
  <2>3. RetryInv'
    BY <1>1, <1>3, <1>5, <2>1, Periods DEF ContactInv, TypeInv, RetryInv
  <2> QED BY <2>2, <2>3
<1>7. AskInv'
  <2>1. CASE Asks(ConnectedAt(now)) /\ ConnectedAt(now)
    <3>1. /\ pingCountdown' = KEEPALIVE_SECS /\ lastGwContact # 0
          /\ now - lastGwContact \in 0 .. GW_TIMEOUT_SECS - 1
      BY <1>2, <2>1 DEF NextPing, ConnectedAt
    <3>2. UntilAsked' = KEEPALIVE_SECS + IF "service" \in due THEN 0 ELSE 1
      BY <1>3, <3>1, Periods, ContactAssumption DEF UntilAsked
    <3>3. ~stepped => silence <= IF "service" \in due THEN GW_TIMEOUT_SECS
                                 ELSE GW_TIMEOUT_SECS - 1
      BY <1>1, <1>3, <3>1, Periods DEF ContactInv, TypeInv, SilenceInv, SampledInv, UpTo
    <3> QED BY <1>3, <3>2, <3>3, Periods DEF ContactInv, TypeInv, AskInv
  <2>2. CASE Asks(ConnectedAt(now)) /\ ~ConnectedAt(now)
    BY <1>2, <2>2, Periods DEF NextPing, AskInv
  <2>3. CASE ~Asks(ConnectedAt(now))
    <3>1. CASE pingCountdown > 1
      <4>1. pingCountdown' = pingCountdown - 1
        BY <1>2, <2>3, <3>1 DEF ContactInv, TypeInv, Counted
      <4>2. UntilAsked' = UntilAsked
        BY <1>3, <3>1, <4>1, Periods DEF ContactInv, TypeInv, UntilAsked
      <4> QED BY <1>3, <4>1, <4>2, Periods DEF ContactInv, TypeInv, AskInv
    <3>2. CASE ~(pingCountdown > 1)
      <4>1. pingCountdown' = 0
        BY <1>2, <2>3, <3>2 DEF ContactInv, TypeInv, Counted
      <4> QED BY <4>1, Periods DEF AskInv
    <3> QED BY <3>1, <3>2
  <2> QED BY <2>1, <2>2, <2>3
<1> QED BY <1>4, <1>6, <1>7 DEF ContactInv

\* After a message of the gateway nothing is late.
LEMMA InContact ==
  ASSUME TypeInv', nowUnixSec' \in Nat, lastGwContact' = nowUnixSec', silence' = 0
  PROVE  SilenceInv' /\ SampledInv' /\ RegainInv' /\ AskInv' /\ RetryInv'
<1>1. PICK now \in Nat : nowUnixSec' = now
  OBVIOUS
<1>2. PICK asked \in Nat : UntilAsked' = asked /\ asked <= KEEPALIVE_SECS + 1
  BY WaitsNext
<1>3. PICK done \in Nat : UntilDone' = done /\ done <= Patience
  BY WaitsNext
<1>4. SilenceInv' /\ SampledInv'
  BY <1>1, Periods DEF SilenceInv, SampledInv, UpTo
<1>5. RegainInv'
  BY <1>1, <1>3 DEF RegainInv
<1>6. AskInv'
  BY <1>2, Periods DEF AskInv
<1>7. RetryInv'
  BY <1>3, Periods DEF RetryInv
<1> QED BY <1>4, <1>5, <1>6, <1>7

\* RS485Thread sends the ping that was asked for, if any: it is answered or lost.
LEMMA IdleStep ==
  ASSUME ContactInv, TypeInv', NEW answered \in BOOLEAN, IdleTick(answered)
  PROVE  ContactInv'
<1>1. /\ nowUnixSec \in Nat /\ nowUnixSec # 0 /\ nowUnixSec' = nowUnixSec
      /\ UntilAsked \in Nat /\ UntilDone \in Nat
  BY NowIsLate, ClockStands, Waits DEF ContactInv, TypeInv, IdleTick
<1>2. /\ UNCHANGED <<rtc, pingCountdown, sampled, booted>>
      /\ due' = due \ {"rs485"} /\ busy' = 0 /\ ~pingPending'
  BY DEF ContactInv, TypeInv, IdleTick, serviceVars
<1>3. UntilAsked' = UntilAsked
  BY <1>2, Periods DEF ContactInv, TypeInv, UntilAsked
<1>4. UntilDone' = UntilAsked + MaxBusy + 1
  BY <1>2, <1>3 DEF UntilDone
<1>5. CASE ~pingPending
  <2>1. UNCHANGED <<lastGwContact, silence, stepped, calm>>
    BY <1>5 DEF IdleTick
  <2>2. UntilDone' = UntilDone
    BY <1>4, <1>5 DEF UntilDone
  <2>3. BootInv' /\ SilenceInv' /\ SampledInv'
    BY <1>1, <1>2, <2>1 DEF ContactInv, BootInv, SilenceInv, SampledInv
  <2>4. RegainInv' /\ RetryInv' /\ AskInv'
    BY <1>1, <1>2, <1>3, <2>1, <2>2 DEF ContactInv, RegainInv, RetryInv, AskInv
  <2> QED BY <2>3, <2>4 DEF ContactInv
<1>6. CASE pingPending /\ answered
  <2>1. /\ lastGwContact' = nowUnixSec /\ silence' = 0 /\ calm' = calm
    BY <1>6 DEF IdleTick, Heard
  <2>2. BootInv'
    BY <1>1, <1>2, <2>1 DEF ContactInv, BootInv
  <2>3. SilenceInv' /\ SampledInv' /\ RegainInv' /\ AskInv' /\ RetryInv'
    BY <1>1, <2>1, InContact
  <2> QED BY <2>2, <2>3 DEF ContactInv
<1>7. CASE pingPending /\ ~answered
  <2>1. calm' = 0 /\ UNCHANGED <<lastGwContact, silence, stepped>>
    BY <1>7 DEF IdleTick
  <2>2. booted /\ lastGwContact # 0
    BY <1>7 DEF ContactInv, BootInv
  <2>3. BootInv' /\ SilenceInv' /\ SampledInv'
    BY <1>1, <1>2, <2>1, <2>2 DEF ContactInv, BootInv, SilenceInv, SampledInv
  <2>4. AskInv'
    BY <1>2, <1>3, <2>1 DEF ContactInv, AskInv
  <2>5. RegainInv'
    BY <2>1, WaitsNext DEF RegainInv
  <2>6. RetryInv'
    BY <1>1, <1>4, <2>1, <2>2, AskedInTime, Periods DEF ContactInv, TypeInv, RetryInv
  <2> QED BY <2>3, <2>4, <2>5, <2>6 DEF ContactInv
<1> QED BY <1>5, <1>6, <1>7

\* RS485Thread has something else to do: it may MaxBusy times.
LEMMA BusyStep ==
  ASSUME ContactInv, TypeInv', Busy
  PROVE  ContactInv'
<1>1. nowUnixSec' = nowUnixSec /\ UntilAsked \in Nat
  BY ClockStands, Waits DEF ContactInv, Busy, clockVars
<1>2. UntilAsked' = UntilAsked
  BY Periods DEF ContactInv, TypeInv, Busy, serviceVars, UntilAsked
<1>3. UntilDone' = UntilDone
  BY <1>1, <1>2, Periods DEF ContactInv, TypeInv, Busy, UntilDone
<1>4. BootInv' /\ SilenceInv' /\ SampledInv'
  BY <1>1 DEF ContactInv, BootInv, SilenceInv, SampledInv, Busy, clockVars, serviceVars
<1>5. RegainInv' /\ RetryInv'
  BY <1>1, <1>3 DEF ContactInv, RegainInv, RetryInv, Busy, clockVars
<1>6. AskInv'
  BY <1>2 DEF ContactInv, AskInv, Busy, clockVars, serviceVars
<1> QED BY <1>4, <1>5, <1>6 DEF ContactInv

\* The gateway was heard.
LEMMA MessageStep ==
  ASSUME ContactInv, TypeInv', GatewayMessage
  PROVE  ContactInv'
<1>1. nowUnixSec \in Nat /\ nowUnixSec # 0 /\ nowUnixSec' = nowUnixSec
  BY NowIsLate, ClockStands DEF ContactInv, TypeInv, GatewayMessage
<1>2. lastGwContact' = nowUnixSec /\ silence' = 0
  BY DEF GatewayMessage, Heard
<1>3. BootInv'
  BY <1>1, <1>2 DEF ContactInv, BootInv, GatewayMessage
<1>4. SilenceInv' /\ SampledInv' /\ RegainInv' /\ AskInv' /\ RetryInv'
  BY <1>1, <1>2, InContact
<1> QED BY <1>3, <1>4 DEF ContactInv

\* A time beacon is such a message, unless it moves the clock.
LEMMA BeaconStep ==
  ASSUME ContactInv, TypeInv', NEW step \in Steps, TimeBeacon(step)
  PROVE  ContactInv'
<1>1. /\ nowUnixSec \in Nat /\ nowUnixSec # 0
      /\ lastGwContact' = nowUnixSec /\ silence' = 0
  BY NowIsLate DEF ContactInv, TypeInv, TimeBeacon, Heard
<1>2. BootInv'
  BY <1>1 DEF ContactInv, TypeInv, BootInv, TimeBeacon
<1>3. CASE step = 0
  <2>1. nowUnixSec' = nowUnixSec
    BY <1>3, ClockBeacon, ClockStands DEF ContactInv, TypeInv
  <2> QED BY <1>1, <1>2, <2>1, InContact DEF ContactInv
<1>4. CASE step # 0
  <2>1. stepped' /\ calm' = 0
    BY <1>4 DEF TimeBeacon
  <2>2. SilenceInv' /\ SampledInv' /\ AskInv' /\ RetryInv'
    BY <2>1 DEF SilenceInv, SampledInv, AskInv, RetryInv
  <2>3. RegainInv'
    BY <2>1, WaitsNext DEF RegainInv
  <2> QED BY <1>2, <2>2, <2>3 DEF ContactInv
<1> QED BY <1>3, <1>4

\* The node is ready: from now on it asks.
LEMMA BootedStep ==
  ASSUME ContactInv, TypeInv', Booted
  PROVE  ContactInv'
<1>1. /\ nowUnixSec' = nowUnixSec /\ UntilAsked \in Nat
      /\ lastGwContact # 0 /\ ~pingPending /\ calm = 0 /\ calm' = 0
  BY ClockStands, Waits DEF ContactInv, BootInv, Booted, clockVars
<1>2. UntilAsked' = UntilAsked /\ UntilDone' = UntilAsked + MaxBusy + 1
  <2>1. UntilAsked' = UntilAsked
    BY DEF Booted, serviceVars, UntilAsked
  <2> QED BY <1>1, <2>1 DEF Booted, UntilDone
<1>3. BootInv' /\ SilenceInv' /\ SampledInv'
  BY <1>1 DEF ContactInv, BootInv, SilenceInv, SampledInv, Booted, clockVars, serviceVars
<1>4. AskInv'
  BY <1>2 DEF ContactInv, AskInv, Booted, clockVars, serviceVars
<1>5. RegainInv'
  BY <1>1, WaitsNext DEF RegainInv
<1>6. RetryInv'
  BY <1>1, <1>2, AskedInTime, Periods DEF ContactInv, TypeInv, RetryInv, Booted, clockVars
<1> QED BY <1>3, <1>4, <1>5, <1>6 DEF ContactInv

\* Nothing happens.
LEMMA StutterStep ==
  ASSUME ContactInv, UNCHANGED vars
  PROVE  ContactInv'
<1>1. nowUnixSec' = nowUnixSec /\ UntilAsked' = UntilAsked
  BY ClockStands DEF vars, clockVars, serviceVars, UntilAsked
<1>2. UntilDone' = UntilDone
  BY <1>1 DEF vars, UntilDone
<1>3. TypeInv'
  BY TypeStep DEF ContactInv
<1>4. BootInv' /\ SilenceInv' /\ SampledInv'
  BY <1>1 DEF ContactInv, BootInv, SilenceInv, SampledInv, vars, clockVars, serviceVars
<1>5. RegainInv' /\ AskInv' /\ RetryInv'
  BY <1>1, <1>2 DEF ContactInv, RegainInv, AskInv, RetryInv, vars, clockVars, serviceVars
<1> QED BY <1>3, <1>4, <1>5 DEF ContactInv

-----------------------------------------------------------------------------
(* The theorems.                                                            *)
LEMMA ContactInit == Init => ContactInv
<1> SUFFICES ASSUME Init PROVE ContactInv
  OBVIOUS
<1>1. TypeInv
  <2>1. rtc \in Dates
    BY ContactAssumption DEF Init
  <2>2. pingPending \in BOOLEAN /\ booted \in BOOLEAN /\ stepped \in BOOLEAN
    BY DEF Init
  <2> QED BY <2>1, <2>2, Periods DEF Init, TypeInv
<1>2. BootInv /\ SilenceInv /\ SampledInv /\ RegainInv /\ AskInv /\ RetryInv
  BY DEF Init, BootInv, SilenceInv, SampledInv, RegainInv, AskInv, RetryInv
<1> QED BY <1>1, <1>2 DEF ContactInv

\* Every step preserves the invariant ...
LEMMA ContactStep == ContactInv /\ [Next]_vars => ContactInv'
<1> SUFFICES ASSUME ContactInv, [Next]_vars PROVE ContactInv'
  OBVIOUS
<1>1. TypeInv'
  BY TypeStep DEF ContactInv
<1>2. CASE Second
  BY <1>1, <1>2, SecondStep
<1>3. CASE ServiceSample
  BY <1>1, <1>3, SampleStep
<1>4. CASE ServiceDecide
  BY <1>1, <1>4, DecideStep
<1>5. ASSUME NEW answered \in BOOLEAN, IdleTick(answered) PROVE ContactInv'
  BY <1>1, <1>5, IdleStep
<1>6. CASE Busy
  BY <1>1, <1>6, BusyStep
<1>7. CASE GatewayMessage
  BY <1>1, <1>7, MessageStep
<1>8. ASSUME NEW step \in Steps, TimeBeacon(step) PROVE ContactInv'
  BY <1>1, <1>8, BeaconStep
<1>9. CASE Booted
  BY <1>1, <1>9, BootedStep
<1>10. CASE UNCHANGED vars
  BY <1>10, StutterStep
<1> QED BY <1>2, <1>3, <1>4, <1>5, <1>6, <1>7, <1>8, <1>9, <1>10 DEF Next

\* ... so that it always holds.
LEMMA Invariance == Spec => []ContactInv
BY ContactInit, ContactStep, PTL DEF Spec

\* The date that the RTC has counted to, across the ends of days, months and
\* years, is the date of the second it stands for (convertUnixSecondToDateTime
\* after convertDateTimeToUnixSecond), for every date from 1980 to LastYear.
THEOREM DatesAlwaysAgree == Spec => []DatesAgree
<1>1. ContactInv => DatesAgree
  BY DateComesBack DEF ContactInv, TypeInv, DatesAgree, nowUnixSec
<1> QED BY <1>1, Invariance, PTL

\* The node takes itself for connected (main.c:454) exactly when the gateway
\* was heard in the last GW_TIMEOUT_SECS, if the clock was not moved since.
THEOREM ConnectedAlwaysIsHeard == Spec => []ConnectedIsHeard
<1>1. ContactInv => ConnectedIsHeard
  BY NowIsLate, Periods
  DEF ContactInv, TypeInv, SilenceInv, ConnectedIsHeard, Connected, ConnectedAt, UpTo
<1> QED BY <1>1, Invariance, PTL

\* Contact that was lost, in whatever way, is regained with the first ping of the
\* service thread that is not: no state of the two threads is one in which it has
\* stopped to ask.
THEOREM AlwaysRegainsContact == Spec => []RegainsContact
<1>1. ContactInv => RegainsContact
  <2> SUFFICES ASSUME ContactInv, calm > Patience PROVE Connected
    BY DEF RegainsContact
  <2>1. nowUnixSec \in Nat /\ UntilDone \in Nat
    BY NowIsLate, Waits DEF ContactInv, TypeInv
  <2>2. booted /\ lastGwContact # 0
    BY Periods DEF ContactInv, BootInv
  <2>3. lastGwContact <= nowUnixSec /\ nowUnixSec - lastGwContact + UntilDone <= Patience
    BY <2>1, <2>2, Periods DEF ContactInv, TypeInv, RegainInv
  <2> QED BY <2>1, <2>2, <2>3, Periods DEF ContactInv, TypeInv, Connected, ConnectedAt
<1> QED BY <1>1, Invariance, PTL

\* ... and while the gateway stays silent it is asked for at the cadence of the
\* retries, OFFLINE_RETRY_SECS.
THEOREM AlwaysRetriesWhileLost == Spec => []RetriesWhileLost
<1>1. ContactInv => RetriesWhileLost
  <2> SUFFICES ASSUME ContactInv, ~stepped, silence = LongSilence
               PROVE  calm <= OFFLINE_RETRY_SECS + MaxBusy + 2
    BY DEF RetriesWhileLost
  <2>1. UntilDone \in Nat /\ calm \in Nat
    BY Waits, Periods DEF ContactInv, TypeInv
  <2>2. CASE ~booted
    BY <2>2, Periods DEF ContactInv, BootInv
  <2>3. CASE booted
    BY <2>1, <2>3, Periods DEF ContactInv, RetryInv
  <2> QED BY <2>2, <2>3
<1> QED BY <1>1, Invariance, PTL
=============================================================================
