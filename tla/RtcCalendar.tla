----------------------------- MODULE RtcCalendar -----------------------------
(***************************************************************************)
(* The calendar of the RTC library on boards without an RTC driver: dates  *)
(* to seconds since 1970 and back, and the members that set one field.     *)
(*                                                                         *)
(* A time_t is kept as whole days and seconds of the day, for TLC's        *)
(* integers end in 2038.  The calendar the conversions are compared with   *)
(* is walked day by day from a New Year's Day whose distance from          *)
(* 1970-01-01 follows from the Gregorian rule.                             *)
(***************************************************************************)
EXTENDS Integers

\* The years that the loops of the conversions count from.
CalendarYears == {y \in Nat : y >= 1970}

CONSTANTS
  Walked,  \* the years that are walked
  Clock,   \* times of the day tried on every date: <<hour, minute, second>>
  Tried    \* Tried[f], f a field of a date: what the member that sets it is called with

ASSUME CalendarAssumption ==
  /\ Walked \subseteq CalendarYears
  /\ Clock \subseteq (0 .. 23) \X (0 .. 59) \X (0 .. 59)
  /\ Tried \in [year : SUBSET (1970 .. 2100), month : SUBSET (1 .. 12), day : SUBSET (1 .. 31),
                hour : SUBSET (0 .. 23), minute : SUBSET (0 .. 59), second : SUBSET (0 .. 59)]

VARIABLES
  date,  \* a date: year, month, day
  days   \* days from 1970-01-01 to it

vars == <<date, days>>

-----------------------------------------------------------------------------
(* datetimeToEpoch *)

days_in_month == <<31, 28, 31, 30, 31, 30, 31, 31, 30, 31, 30, 31>>

is_leap(y) == y % 4 = 0 /\ (y % 100 # 0 \/ y % 400 = 0)

DaysInYear(y) == IF is_leap(y) THEN 366 ELSE 365

\* Mutant: the leap day is added after March.
DaysInMonth_LateLeap(y, m) == days_in_month[m] + (IF m = 3 /\ is_leap(y) THEN 1 ELSE 0)

DaysInMonth(y, m) == days_in_month[m] + (IF m = 2 /\ is_leap(y) THEN 1 ELSE 0)

\* The loop over the years, and the loop over the months of year y.
DaysBeforeYear[y \in Nat] ==
  IF y <= 1970 THEN 0 ELSE DaysBeforeYear[y - 1] + DaysInYear(y - 1)

DaysBeforeMonth(y, m) ==
  LET before[i \in 1 .. 12] == IF i = 1 THEN 0 ELSE before[i - 1] + DaysInMonth(y, i - 1)
  IN before[m]

\* Fields in range; a day that the month does not have runs into the next one.
datetimeToEpoch(d) ==
  [days    |-> DaysBeforeYear[d.year] + DaysBeforeMonth(d.year, d.month) + (d.day - 1),
   seconds |-> (d.hour * 60 + d.minute) * 60 + d.second]

-----------------------------------------------------------------------------
(* epochToDatetime *)

\* The loop that takes whole years off n days, on <<year, days left>>.
YearFrom(n) ==
  LET from[p \in Nat \X Nat] ==
        IF p[2] >= DaysInYear(p[1]) THEN from[<<p[1] + 1, p[2] - DaysInYear(p[1])>>] ELSE p
  IN from[<<1970, n>>]

\* Mutant: a month ends one day late.
MonthFrom_PastEnd(y, n) ==
  LET from[p \in (1 .. 13) \X Nat] ==
        IF p[1] <= 12 /\ p[2] > DaysInMonth(y, p[1])
        THEN from[<<p[1] + 1, p[2] - DaysInMonth(y, p[1])>>] ELSE p
  IN from[<<1, n>>]

\* The loop that takes whole months off n days of year y, on <<month, days
\* left>>.  Month 13 is past the end of days_in_month: the loop has gone wrong
\* when it gets there.
MonthFrom(y, n) ==
  LET from[p \in (1 .. 13) \X Nat] ==
        IF p[1] <= 12 /\ p[2] >= DaysInMonth(y, p[1])
        THEN from[<<p[1] + 1, p[2] - DaysInMonth(y, p[1])>>] ELSE p
  IN from[<<1, n>>]

epochToDatetime(t) ==
  LET y == YearFrom(t.days)
      m == MonthFrom(y[1], y[2])
  IN [year   |-> y[1], month |-> m[1], day |-> m[2] + 1,
      hour   |-> t.seconds \div 3600,
      minute |-> (t.seconds % 3600) \div 60,
      second |-> t.seconds % 60]

-----------------------------------------------------------------------------
(* The members that set one field *)

\* setYear, setMonthOfYear, setDayOfMonth, setHour, setMinute, setSecond:
\* getTime, then setTime with one field replaced; the time that is read next.
SetField(now, field, v) ==
  datetimeToEpoch([epochToDatetime(now) EXCEPT ![field] = v])

-----------------------------------------------------------------------------
(* The calendar *)

\* Length of a month by the Gregorian rule.
MonthLength(y, m) ==
  CASE m \in {4, 6, 9, 11} -> 30
    [] m = 2 -> IF (y % 4 = 0 /\ y % 100 # 0) \/ y % 400 = 0 THEN 29 ELSE 28
    [] OTHER -> 31

Exists(d) == d.day <= MonthLength(d.year, d.month)

NextDay ==
  /\ days' = days + 1
  /\ \/ /\ date.day < MonthLength(date.year, date.month)
        /\ date' = [date EXCEPT !.day = @ + 1]
     \/ /\ date.day = MonthLength(date.year, date.month)
        /\ date.month < 12
        /\ date' = [date EXCEPT !.month = @ + 1, !.day = 1]
     \/ /\ date.month = 12 /\ date.day = 31
        /\ date.year + 1 \in Walked
        /\ date' = [year |-> date.year + 1, month |-> 1, day |-> 1]

\* Leap years up to year y.
LeapYears(y) == y \div 4 - y \div 100 + y \div 400

Init ==
  \E y \in Walked :
    /\ date = [year |-> y, month |-> 1, day |-> 1]
    /\ days = 365 * (y - 1970) + LeapYears(y - 1) - LeapYears(1969)

Spec == Init /\ [][NextDay]_vars

-----------------------------------------------------------------------------
(* Properties *)

At(c) == [year |-> date.year, month |-> date.month, day |-> date.day,
          hour |-> c[1], minute |-> c[2], second |-> c[3]]
EpochOf(c) == [days |-> days, seconds |-> (c[1] * 60 + c[2]) * 60 + c[3]]

\* datetimeToEpoch and epochToDatetime agree with the calendar and so are
\* inverse to each other, over the leap years, the year 2000 that is one and
\* the year 2100 that is not.
ConversionsAgree ==
  \A c \in Clock : /\ datetimeToEpoch(At(c)) = EpochOf(c)
                   /\ epochToDatetime(EpochOf(c)) = At(c)

\* A member that sets one field changes that field alone if the date it makes
\* exists.  If it does not, for the month is shorter than the day is late - which
\* takes a new month, a new year in February or a new day, from the 29th on - the
\* time read next is in the month after, on the day by which the date was late.
SetterEffect ==
  \A c \in Clock, field \in DOMAIN Tried : \A v \in Tried[field] :
    LET wanted == [At(c) EXCEPT ![field] = v]
        excess == wanted.day - MonthLength(wanted.year, wanted.month)
        got == epochToDatetime(SetField(EpochOf(c), field, v))
    IN got = IF Exists(wanted) THEN wanted
             ELSE [wanted EXCEPT !.month = wanted.month + 1, !.day = excess]
=============================================================================
