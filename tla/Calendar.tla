------------------------------ MODULE Calendar ------------------------------
(***************************************************************************)
(* source/date_time.c: the date the RTC keeps and the seconds since 1970   *)
(* the program counts in.  A date is an RTCDateTime: its year counts from  *)
(* 1980, and of its millisecond of the day only the seconds are kept here. *)
(* Its day of the week is left out: only the header of the display reads   *)
(* it, and the RTC has one of its own (ohs_th_display.h:37-46).            *)
(***************************************************************************)
EXTENDS Naturals, FiniteSets

CONSTANT LastYear     \* the dates considered end with this year

ASSUME YearAssumption == LastYear \in 1980 .. 2037

SECONDS_PER_DAY == 86400
RTC_OFFSET_YEAR == 1970

RTC_LEAP_YEAR(year) == (year % 4 = 0 /\ year % 100 # 0) \/ year % 400 = 0

TM_RTC_Months ==
  [leap \in BOOLEAN |->
     <<31, IF leap THEN 29 ELSE 28, 31, 30, 31, 30, 31, 31, 30, 31, 30, 31>>]

\* Days from 1970 to the first day of a year, by year.
DaysToYear == [year \in RTC_OFFSET_YEAR .. LastYear + 1 |->
                 365 * (year - RTC_OFFSET_YEAR)
                   + Cardinality({y \in RTC_OFFSET_YEAR .. year - 1 : RTC_LEAP_YEAR(y)})]

(* Days from the first day of a year to that of a month, by its table; the *)
(* month after the last is the first of the next year.                     *)
DaysToMonth ==
  [leap \in BOOLEAN |->
     LET days[month \in 1 .. 13] ==
           IF month = 1 THEN 0 ELSE days[month - 1] + TM_RTC_Months[leap][month - 1]
     IN  days]

(* Mutant: February has 28 days in every year. *)
UnixSecondNoLeapDay(date) ==
  LET year == date.year + 1980
  IN (DaysToYear[year] + DaysToMonth[FALSE][date.month] + date.day - 1) * SECONDS_PER_DAY
       + date.second

(* convertRTCDateTimeToUnixSecond.  The product is of 32 bits in the code; *)
(* it is below 2^31 up to the LastYear allowed.                            *)
UnixSecond(date) ==
  LET year == date.year + 1980
  IN (DaysToYear[year] + DaysToMonth[RTC_LEAP_YEAR(year)][date.month] + date.day - 1) * SECONDS_PER_DAY
       + date.second

(* Mutant: a year ends a day late. *)
DateTimeLateYear(unix) ==
  LET day   == unix \div SECONDS_PER_DAY
      year  == RTC_OFFSET_YEAR
                 + Cardinality({y \in RTC_OFFSET_YEAR + 1 .. LastYear : day > DaysToYear[y]})
      rest  == day - DaysToYear[year]
      start == DaysToMonth[RTC_LEAP_YEAR(year)]
      month == 1 + Cardinality({m \in 1 .. 12 : rest >= start[m + 1]})
  IN [year   |-> year - 1980,
      month  |-> month,
      day    |-> rest - start[month] + 1,
      second |-> unix % SECONDS_PER_DAY]

(* convertUnixSecondToRTCDateTime: the years, then the months, that are    *)
(* over are taken off the days.                                            *)
DateTime(unix) ==
  LET day   == unix \div SECONDS_PER_DAY
      year  == RTC_OFFSET_YEAR
                 + Cardinality({y \in RTC_OFFSET_YEAR + 1 .. LastYear : day >= DaysToYear[y]})
      rest  == day - DaysToYear[year]
      start == DaysToMonth[RTC_LEAP_YEAR(year)]
      month == 1 + Cardinality({m \in 1 .. 12 : rest >= start[m + 1]})
  IN [year   |-> year - 1980,
      month  |-> month,
      day    |-> rest - start[month] + 1,
      second |-> unix % SECONDS_PER_DAY]
-----------------------------------------------------------------------------
(***************************************************************************)
(* The RTC (external): the dates there are, and the date a second later, by *)
(* the calendar and not by the two conversions above.                      *)
(***************************************************************************)
RTCYears == 0 .. LastYear - 1980
MonthsOfYear == 1 .. 12
DaysOfMonth == 1 .. 31
SecondsOfDay == 0 .. SECONDS_PER_DAY - 1
RTCDateTime ==
  [year : RTCYears, month : MonthsOfYear, day : DaysOfMonth, second : SecondsOfDay]

Dates ==
  {date \in RTCDateTime :
     date.day <= TM_RTC_Months[RTC_LEAP_YEAR(date.year + 1980)][date.month]}

EndOfMonth(date) ==
  date.day = CASE date.month \in {4, 6, 9, 11} -> 30
               [] date.month = 2 /\ (date.year + 1980) % 4 = 0 -> 29
               [] date.month = 2 /\ (date.year + 1980) % 4 # 0 -> 28
               [] OTHER -> 31

NextDay(date) ==
  [year   |-> IF date.month = 12 /\ date.day = 31 THEN date.year + 1 ELSE date.year,
   month  |-> IF EndOfMonth(date) THEN (date.month % 12) + 1 ELSE date.month,
   day    |-> IF EndOfMonth(date) THEN 1 ELSE date.day + 1,
   second |-> 0]

NextSecond(date) ==
  IF date.second = SECONDS_PER_DAY - 1
  THEN NextDay(date)
  ELSE [date EXCEPT !.second = @ + 1]
=============================================================================
