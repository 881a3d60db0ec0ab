-------------------------- MODULE RtcCalendarProofs --------------------------
(***************************************************************************)
(* The conversions of the calendar, proved for every date from 1970 on and *)
(* for every number of days: what each loop computes, that the conversions *)
(* are inverse to each other, and the two invariants of the walk.          *)
(*                                                                         *)
(* The loops are recursive functions.  Each is shown first to satisfy its  *)
(* recursion equation (a function that does exists), and then to have the  *)
(* value that a formula without recursion gives, by an induction that      *)
(* takes the least counterexample.                                         *)
(***************************************************************************)
EXTENDS RtcCalendar, TLAPS, WellFoundedInduction

-----------------------------------------------------------------------------
(* Induction on natural numbers, over sets *)

\* A set of natural numbers that is not empty has a least member.
LEMMA LeastMember ==
  ASSUME NEW T, T \subseteq Nat, T # {}
  PROVE  \E x \in T : \A y \in T : x <= y
<1> DEFINE R == OpToRel(<, Nat)
<1>1. IsWellFoundedOn(R, Nat)
  BY NatLessThanWellFounded
<1>2. \A x, y \in Nat : y < x => <<y, x>> \in R
  BY DEF OpToRel
<1> HIDE DEF R
<1>3. PICK x \in T : \A y \in T : <<y, x>> \notin R
  BY <1>1, WFMin
<1>4. ASSUME NEW y \in T PROVE x <= y
  <2>1. x \in Nat /\ y \in Nat
    OBVIOUS
  <2>2. ~(y < x)
    BY <1>2, <1>3, <2>1
  <2>3. QED
    BY <2>1, <2>2
<1>5. QED
  BY <1>4

\* What holds at lo and passes from each number to the next holds up to hi.
LEMMA Climb ==
  ASSUME NEW lo \in Int, NEW hi \in Int, NEW T, lo \in T,
         \A n \in lo .. hi - 1 : n \in T => n + 1 \in T
  PROVE  lo .. hi \subseteq T
<1> SUFFICES ASSUME NEW b \in lo .. hi, b \notin T PROVE FALSE
  OBVIOUS
<1> DEFINE D == {k \in Nat : k <= hi - lo /\ lo + k \notin T}
<1>1. b - lo \in D
  <2>1. lo + (b - lo) = b /\ b - lo \in Nat /\ b - lo <= hi - lo
    OBVIOUS
  <2>2. QED
    BY <2>1
<1>2. PICK x \in D : \A y \in D : x <= y
  <2> HIDE DEF D
  <2>1. D \subseteq Nat
    BY DEF D
  <2>2. QED
    BY <1>1, <2>1, LeastMember
<1>3. x \in Nat \ {0} /\ lo + x \notin T /\ x <= hi - lo
  <2>1. lo + 0 = lo
    OBVIOUS
  <2>2. QED
    BY <2>1, <1>2
<1>4. x - 1 \notin D
  BY <1>2, <1>3
<1>5. lo + (x - 1) \in T
  BY <1>3, <1>4
<1>6. (lo + (x - 1)) + 1 = lo + x /\ lo + (x - 1) \in lo .. hi - 1
  BY <1>3
<1>7. QED
  BY <1>3, <1>5, <1>6

-----------------------------------------------------------------------------
(* Years *)

\* Days from the first of January of year 0 to that of year y.
YearStart(y) == 365 * y + LeapYears(y - 1)

\* One more year is one more multiple of k exactly when its number is one.
LEMMA NextMultiple ==
  ASSUME NEW y \in Nat
  PROVE  /\ y \div 4 = (y - 1) \div 4 + (IF y % 4 = 0 THEN 1 ELSE 0)
         /\ y \div 100 = (y - 1) \div 100 + (IF y % 100 = 0 THEN 1 ELSE 0)
         /\ y \div 400 = (y - 1) \div 400 + (IF y % 400 = 0 THEN 1 ELSE 0)
         /\ y % 400 = 0 => y % 100 = 0
         /\ y % 100 = 0 => y % 4 = 0
<1>1. y \div 4 = (y - 1) \div 4 + (IF y % 4 = 0 THEN 1 ELSE 0)
  OBVIOUS
<1>2. y \div 100 = (y - 1) \div 100 + (IF y % 100 = 0 THEN 1 ELSE 0)
  OBVIOUS
<1>3. y \div 400 = (y - 1) \div 400 + (IF y % 400 = 0 THEN 1 ELSE 0)
  OBVIOUS
<1>4. y % 400 = 0 => y % 100 = 0
  OBVIOUS
<1>5. y % 100 = 0 => y % 4 = 0
  OBVIOUS
<1>6. QED
  BY <1>1, <1>2, <1>3, <1>4, <1>5

LEMMA YearStartType ==
  ASSUME NEW y \in Nat
  PROVE  YearStart(y) \in Int /\ DaysInYear(y) \in 365 .. 366
BY DEF YearStart, LeapYears, DaysInYear

LEMMA YearStartStep ==
  ASSUME NEW y \in Nat
  PROVE  YearStart(y + 1) = YearStart(y) + DaysInYear(y)
<1>1. (y + 1) - 1 = y
  OBVIOUS
<1>2. y \div 4 \in Int /\ y \div 100 \in Int /\ y \div 400 \in Int
  OBVIOUS
<1>3. (y - 1) \div 4 \in Int /\ (y - 1) \div 100 \in Int /\ (y - 1) \div 400 \in Int
  OBVIOUS
<1>4. LeapYears(y) = LeapYears(y - 1) + (IF is_leap(y) THEN 1 ELSE 0)
  BY <1>2, <1>3, NextMultiple DEF LeapYears, is_leap
<1>5. LeapYears(y) \in Int /\ LeapYears(y - 1) \in Int
  BY <1>2, <1>3 DEF LeapYears
<1>6. QED
  BY <1>1, <1>4, <1>5 DEF YearStart, DaysInYear

\* The recursion equation of the loop over the years in datetimeToEpoch.
DaysBeforeYearEq(f) ==
  f = [y \in Nat |-> IF y <= 1970 THEN 0 ELSE f[y - 1] + DaysInYear(y - 1)]

LEMMA DaysBeforeYearRecursion == DaysBeforeYearEq(DaysBeforeYear)
<1> DEFINE g == [y \in Nat |-> IF y <= 1970 THEN 0 ELSE YearStart(y) - YearStart(1970)]
<1>1. ASSUME NEW y \in Nat, y > 1970
      PROVE  g[y] = g[y - 1] + DaysInYear(y - 1)
  <2>1. y - 1 \in Nat /\ (y - 1) + 1 = y
    BY <1>1
  <2>2. YearStart(y) = YearStart(y - 1) + DaysInYear(y - 1)
    BY <2>1, YearStartStep
  <2>3. YearStart(y) \in Int /\ YearStart(y - 1) \in Int /\ YearStart(1970) \in Int
        /\ DaysInYear(y - 1) \in Int
    BY <2>1, YearStartType
  <2>4. g[y] = YearStart(y) - YearStart(1970)
    BY <1>1
  <2>5. g[y - 1] = YearStart(y - 1) - YearStart(1970)
    <3>1. CASE y - 1 <= 1970
      <4>1. y - 1 = 1970
        BY <1>1, <3>1
      <4>2. QED
        BY <2>1, <2>3, <3>1, <4>1
    <3>2. CASE ~(y - 1 <= 1970)
      BY <2>1, <3>2
    <3>3. QED
      BY <3>1, <3>2
  <2>6. QED
    BY <2>2, <2>3, <2>4, <2>5
<1>2. \A y \in Nat : ~(y <= 1970) => y > 1970
  OBVIOUS
<1>3. \A y \in Nat : g[y] = IF y <= 1970 THEN 0 ELSE g[y - 1] + DaysInYear(y - 1)
  <2> SUFFICES ASSUME NEW y \in Nat
               PROVE  g[y] = IF y <= 1970 THEN 0 ELSE g[y - 1] + DaysInYear(y - 1)
    OBVIOUS
  <2>1. CASE y <= 1970
    BY <2>1
  <2>2. CASE ~(y <= 1970)
    BY <2>2, <1>1, <1>2
  <2>3. QED
    BY <2>1, <2>2
<1>4. g = [y \in Nat |-> g[y]]
  OBVIOUS
<1> HIDE DEF g
<1>5. DaysBeforeYearEq(g)
  <2>1. [y \in Nat |-> g[y]]
          = [y \in Nat |-> IF y <= 1970 THEN 0 ELSE g[y - 1] + DaysInYear(y - 1)]
    BY <1>3
  <2>2. QED
    BY <1>4, <2>1, Zenon DEF DaysBeforeYearEq
<1>6. DaysBeforeYear = CHOOSE f : DaysBeforeYearEq(f)
  BY DEF DaysBeforeYear, DaysBeforeYearEq
<1>7. QED
  BY <1>5, <1>6

\* What the loop adds up: the days between two New Year's Days.
LEMMA DaysBeforeYearSum ==
  ASSUME NEW y \in CalendarYears
  PROVE  DaysBeforeYear[y] = YearStart(y) - YearStart(1970)
<1> DEFINE T == {n \in Nat : DaysBeforeYear[n] = YearStart(n) - YearStart(1970)}
<1>1. \A n \in Nat : DaysBeforeYear[n] = IF n <= 1970 THEN 0
                                         ELSE DaysBeforeYear[n - 1] + DaysInYear(n - 1)
  BY DaysBeforeYearRecursion DEF DaysBeforeYearEq
<1>2. 1970 \in T
  BY <1>1, YearStartType
<1>3. ASSUME NEW n \in 1970 .. y - 1, n \in T PROVE n + 1 \in T
  <2>1. n \in Nat /\ n + 1 \in Nat /\ ~(n + 1 <= 1970) /\ (n + 1) - 1 = n
    BY DEF CalendarYears
  <2>2. DaysBeforeYear[n + 1] = DaysBeforeYear[n] + DaysInYear(n)
    BY <1>1, <2>1
  <2>3. YearStart(n + 1) = YearStart(n) + DaysInYear(n)
    BY <2>1, YearStartStep
  <2>4. YearStart(n) \in Int /\ YearStart(1970) \in Int /\ DaysInYear(n) \in Int
    BY <2>1, YearStartType
  <2>5. DaysBeforeYear[n + 1] = YearStart(n + 1) - YearStart(1970)
    BY <1>3, <2>2, <2>3, <2>4
  <2>6. QED
    BY <2>1, <2>5
<1> HIDE DEF T
<1>4. 1970 \in Int /\ y \in Int /\ y \in 1970 .. y
  BY DEF CalendarYears
<1>5. 1970 .. y \subseteq T
  BY <1>2, <1>3, <1>4, Climb
<1>6. QED
  BY <1>4, <1>5 DEF T

LEMMA YearsGoUp ==
  ASSUME NEW y \in Nat, NEW z \in Nat, y < z
  PROVE  YearStart(y) + DaysInYear(y) <= YearStart(z)
<1> DEFINE T == {n \in Nat : YearStart(y + 1) <= YearStart(n)}
<1>1. y + 1 \in T
  BY YearStartType
<1>2. ASSUME NEW n \in y + 1 .. z - 1, n \in T PROVE n + 1 \in T
  <2>1. n \in Nat /\ n + 1 \in Nat /\ y + 1 \in Nat
    OBVIOUS
  <2>2. YearStart(n + 1) = YearStart(n) + DaysInYear(n)
    BY <2>1, YearStartStep
  <2>3. YearStart(n) \in Int /\ YearStart(y + 1) \in Int /\ DaysInYear(n) \in 365 .. 366
    BY <2>1, YearStartType
  <2>4. YearStart(y + 1) <= YearStart(n + 1)
    BY <1>2, <2>2, <2>3
  <2>5. QED
    BY <2>1, <2>4
<1> HIDE DEF T
<1>3. y + 1 \in Int /\ z \in Int /\ z \in y + 1 .. z
  OBVIOUS
<1>4. z \in T
  BY <1>1, <1>2, <1>3, Climb
<1>5. YearStart(y + 1) = YearStart(y) + DaysInYear(y)
  BY YearStartStep
<1>6. QED
  BY <1>4, <1>5 DEF T

\* A day lies in one year only.
LEMMA OneYear ==
  ASSUME NEW y \in Nat, NEW r \in Nat, r < DaysInYear(y),
         NEW z \in Nat, NEW s \in Nat, s < DaysInYear(z),
         YearStart(y) + r = YearStart(z) + s
  PROVE  y = z /\ r = s
<1>1. /\ YearStart(y) \in Int /\ YearStart(z) \in Int
      /\ DaysInYear(y) \in Int /\ DaysInYear(z) \in Int
  BY YearStartType
<1>2. ~(y < z)
  BY <1>1, YearsGoUp
<1>3. ~(z < y)
  BY <1>1, YearsGoUp
<1>4. y = z
  BY <1>2, <1>3
<1>5. QED
  BY <1>1, <1>4

\* The recursion equation of the loop over the years in epochToDatetime, and
\* the function that YearFrom applies to <<1970, n>>.
YearLoopEq(f) ==
  f = [p \in Nat \X Nat |->
        IF p[2] >= DaysInYear(p[1]) THEN f[<<p[1] + 1, p[2] - DaysInYear(p[1])>>] ELSE p]

YearLoop == CHOOSE f : YearLoopEq(f)

LEMMA YearFromLoop ==
  ASSUME NEW n
  PROVE  YearFrom(n) = YearLoop[<<1970, n>>]
BY DEF YearFrom, YearLoop, YearLoopEq

\* The year and the day of it that n days from year 0 on lead to.
InYear(n) ==
  CHOOSE q \in Nat \X Nat : YearStart(q[1]) + q[2] = n /\ q[2] < DaysInYear(q[1])

LEMMA InYearValue ==
  ASSUME NEW y \in Nat, NEW r \in Nat, r < DaysInYear(y)
  PROVE  InYear(YearStart(y) + r) = <<y, r>>
<1> DEFINE n == YearStart(y) + r
           P(q) == YearStart(q[1]) + q[2] = n /\ q[2] < DaysInYear(q[1])
<1>1. <<y, r>> \in Nat \X Nat /\ P(<<y, r>>)
  OBVIOUS
<1>2. ASSUME NEW q \in Nat \X Nat, P(q) PROVE q = <<y, r>>
  <2>1. q[1] \in Nat /\ q[2] \in Nat /\ q = <<q[1], q[2]>>
    OBVIOUS
  <2>2. q[1] = y /\ q[2] = r
    BY <1>2, <2>1, OneYear
  <2>3. QED
    BY <2>1, <2>2
<1> HIDE DEF P
<1>3. InYear(n) = CHOOSE q \in Nat \X Nat : P(q)
  BY DEF InYear, P
<1>4. QED
  BY <1>1, <1>2, <1>3

LEMMA YearLoopRecursion == YearLoopEq(YearLoop)
<1> DEFINE g == [p \in Nat \X Nat |-> InYear(YearStart(p[1]) + p[2])]
           next(p) == <<p[1] + 1, p[2] - DaysInYear(p[1])>>
<1>1. ASSUME NEW p \in Nat \X Nat
      PROVE  InYear(YearStart(p[1]) + p[2])
               = IF p[2] >= DaysInYear(p[1]) THEN g[next(p)] ELSE p
  <2>1. /\ p[1] \in Nat /\ p[2] \in Nat /\ p = <<p[1], p[2]>>
        /\ DaysInYear(p[1]) \in Int /\ YearStart(p[1]) \in Int
    BY YearStartType
  <2>2. CASE p[2] >= DaysInYear(p[1])
    <3>1. next(p) \in Nat \X Nat
      BY <2>1, <2>2
    <3>2. YearStart(p[1] + 1) + (p[2] - DaysInYear(p[1])) = YearStart(p[1]) + p[2]
      BY <2>1, YearStartStep
    <3>3. g[next(p)] = InYear(YearStart(p[1] + 1) + (p[2] - DaysInYear(p[1])))
      BY <3>1
    <3>4. QED
      BY <2>2, <3>2, <3>3
  <2>3. CASE ~(p[2] >= DaysInYear(p[1]))
    <3>1. p[2] < DaysInYear(p[1])
      BY <2>1, <2>3
    <3>2. QED
      BY <2>1, <2>3, <3>1, InYearValue
  <2>4. QED
    BY <2>2, <2>3
<1>2. YearLoopEq(g)
  BY <1>1 DEF YearLoopEq
<1>3. QED
  BY <1>2 DEF YearLoop

\* The loop over the years ends in the year that the days lie in.
LEMMA YearLoopFinds ==
  ASSUME NEW p \in Nat \X Nat
  PROVE  LET q == YearLoop[p]
         IN /\ q \in Nat \X Nat
            /\ q[1] >= p[1]
            /\ YearStart(q[1]) + q[2] = YearStart(p[1]) + p[2]
            /\ q[2] < DaysInYear(q[1])
<1> DEFINE Finds(x) == LET q == YearLoop[x]
                       IN /\ q \in Nat \X Nat
                          /\ q[1] >= x[1]
                          /\ YearStart(q[1]) + q[2] = YearStart(x[1]) + x[2]
                          /\ q[2] < DaysInYear(q[1])
           Bad == {r \in Nat : \E y \in Nat : ~Finds(<<y, r>>)}
<1>1. SUFFICES Bad = {}
  <2>1. p[1] \in Nat /\ p[2] \in Nat /\ p = <<p[1], p[2]>>
    OBVIOUS
  <2> HIDE DEF Finds
  <2>2. Finds(<<p[1], p[2]>>)
    BY <1>1, <2>1
  <2>3. QED
    BY <2>1, <2>2, Zenon DEF Finds
<1>2. SUFFICES ASSUME Bad # {} PROVE FALSE
  OBVIOUS
<1>3. PICK r \in Bad : \A s \in Bad : r <= s
  <2> HIDE DEF Finds
  <2>1. Bad \subseteq Nat
    OBVIOUS
  <2> HIDE DEF Bad
  <2>2. QED
    BY <1>2, <2>1, LeastMember
<1>4. r \in Nat
  OBVIOUS
<1>5. PICK y \in Nat : ~Finds(<<y, r>>)
  OBVIOUS
<1>6. /\ DaysInYear(y) \in 365 .. 366 /\ YearStart(y) \in Int
      /\ YearStart(y + 1) = YearStart(y) + DaysInYear(y)
  BY YearStartType, YearStartStep
<1>7. YearLoop[<<y, r>>] = IF r >= DaysInYear(y) THEN YearLoop[<<y + 1, r - DaysInYear(y)>>]
                           ELSE <<y, r>>
  BY <1>4, YearLoopRecursion DEF YearLoopEq
<1>8. CASE ~(r >= DaysInYear(y))
  <2>1. YearLoop[<<y, r>>] = <<y, r>>
    BY <1>7, <1>8
  <2>2. r < DaysInYear(y)
    BY <1>4, <1>6, <1>8
  <2>3. Finds(<<y, r>>)
    BY <1>4, <2>1, <2>2
  <2>4. QED
    BY <1>5, <2>3
<1>9. CASE r >= DaysInYear(y)
  <2> DEFINE s == r - DaysInYear(y)
  <2>1. y + 1 \in Nat /\ s \in Nat /\ ~(r <= s)
    BY <1>4, <1>6, <1>9
  <2>2. Finds(<<y + 1, s>>)
    <3> HIDE DEF Finds
    <3>1. s \notin Bad
      BY <1>3, <2>1
    <3>2. QED
      BY <2>1, <3>1
  <2> DEFINE q == YearLoop[<<y, r>>]
  <2>3. q = YearLoop[<<y + 1, s>>]
    BY <1>7, <1>9
  <2> HIDE DEF q, s
  <2>4. q \in Nat \X Nat /\ q[1] >= y + 1 /\ q[2] < DaysInYear(q[1])
        /\ YearStart(q[1]) + q[2] = YearStart(y + 1) + s
    BY <2>2, <2>3
  <2>5. q[1] >= y
    BY <2>4
  <2>6. YearStart(q[1]) + q[2] = YearStart(y) + r
    BY <1>4, <1>6, <2>4 DEF s
  <2>7. Finds(<<y, r>>)
    BY <2>4, <2>5, <2>6 DEF q
  <2>8. QED
    BY <1>5, <2>7
<1>10. QED
  BY <1>8, <1>9

\* What the loop over the years in epochToDatetime gives for any number of days.
LEMMA YearFromFinds ==
  ASSUME NEW n \in Nat
  PROVE  LET q == YearFrom(n)
         IN /\ q \in CalendarYears \X Nat
            /\ q[2] < DaysInYear(q[1])
            /\ DaysBeforeYear[q[1]] + q[2] = n
<1> DEFINE q == YearFrom(n)
<1>1. q = YearLoop[<<1970, n>>]
  BY YearFromLoop
<1> HIDE DEF q
<1>2. /\ q \in Nat \X Nat /\ q[1] >= 1970 /\ q[2] < DaysInYear(q[1])
      /\ YearStart(q[1]) + q[2] = YearStart(1970) + n
  BY <1>1, YearLoopFinds
<1>3. q[1] \in CalendarYears
  BY <1>2 DEF CalendarYears
<1>4. DaysBeforeYear[q[1]] = YearStart(q[1]) - YearStart(1970)
  BY <1>3, DaysBeforeYearSum
<1>5. YearStart(q[1]) \in Int /\ YearStart(1970) \in Int /\ q[1] \in Nat /\ q[2] \in Nat
  BY <1>2, YearStartType
<1>6. DaysBeforeYear[q[1]] + q[2] = n
  BY <1>2, <1>4, <1>5
<1>7. q \in CalendarYears \X Nat
  BY <1>2, <1>3
<1>8. QED
  BY <1>2, <1>6, <1>7 DEF q

LEMMA YearFromValue ==
  ASSUME NEW y \in CalendarYears, NEW r \in Nat, r < DaysInYear(y)
  PROVE  /\ DaysBeforeYear[y] \in Nat
         /\ YearFrom(DaysBeforeYear[y] + r) = <<y, r>>
<1>1. y \in Nat /\ y >= 1970
  BY DEF CalendarYears
<1>2. DaysBeforeYear[y] = YearStart(y) - YearStart(1970)
  BY DaysBeforeYearSum
<1>3. YearStart(y) \in Int /\ YearStart(1970) \in Int /\ DaysInYear(1970) \in 365 .. 366
  BY <1>1, YearStartType
<1>4. DaysBeforeYear[y] \in Nat
  <2>1. CASE y = 1970
    BY <1>2, <1>3, <2>1
  <2>2. CASE y # 1970
    <3>1. YearStart(1970) + DaysInYear(1970) <= YearStart(y)
      BY <1>1, <2>2, YearsGoUp
    <3>2. QED
      BY <1>2, <1>3, <3>1
  <2>3. QED
    BY <2>1, <2>2
<1> DEFINE n == DaysBeforeYear[y] + r
<1>5. n \in Nat /\ YearStart(1970) + n = YearStart(y) + r
  BY <1>2, <1>3, <1>4
<1> DEFINE q == YearFrom(n)
<1>6. q = YearLoop[<<1970, n>>]
  BY YearFromLoop
<1> HIDE DEF n, q
<1>7. /\ q \in Nat \X Nat /\ q[2] < DaysInYear(q[1])
      /\ YearStart(q[1]) + q[2] = YearStart(1970) + n
  BY <1>5, <1>6, YearLoopFinds
<1>8. q[1] \in Nat /\ q[2] \in Nat /\ q = <<q[1], q[2]>>
  BY <1>7
<1>9. q[1] = y /\ q[2] = r
  BY <1>1, <1>5, <1>7, <1>8, OneYear
<1>10. QED
  BY <1>4, <1>8, <1>9 DEF n, q

-----------------------------------------------------------------------------
(* Months *)

\* Days of year y before the first of month m; month 13 is the end of the year.
MonthStart(y, m) ==
  <<0, 31, 59, 90, 120, 151, 181, 212, 243, 273, 304, 334, 365>>[m]
    + (IF m > 2 /\ is_leap(y) THEN 1 ELSE 0)

LEMMA MonthType ==
  ASSUME NEW y \in Nat, NEW m \in 1 .. 12
  PROVE  DaysInMonth(y, m) \in 28 .. 31
BY DEF DaysInMonth, days_in_month

LEMMA MonthStartType ==
  ASSUME NEW y \in Nat, NEW m \in 1 .. 13
  PROVE  MonthStart(y, m) \in Nat
BY DEF MonthStart

LEMMA MonthStartStep ==
  ASSUME NEW y \in Nat, NEW m \in 1 .. 12
  PROVE  MonthStart(y, m + 1) = MonthStart(y, m) + DaysInMonth(y, m)
<1>1. \/ m = 1 \/ m = 2 \/ m = 3 \/ m = 4 \/ m = 5 \/ m = 6
      \/ m = 7 \/ m = 8 \/ m = 9 \/ m = 10 \/ m = 11 \/ m = 12
  OBVIOUS
<1>2. QED
  BY <1>1 DEF MonthStart, DaysInMonth, days_in_month

LEMMA YearOfMonths ==
  ASSUME NEW y \in Nat
  PROVE  MonthStart(y, 1) = 0 /\ MonthStart(y, 13) = DaysInYear(y)
BY DEF MonthStart, DaysInYear

LEMMA MonthsGoUp ==
  ASSUME NEW y \in Nat, NEW l \in 1 .. 13, NEW m \in 1 .. 13, l < m
  PROVE  MonthStart(y, l) + DaysInMonth(y, l) <= MonthStart(y, m)
<1> DEFINE T == {n \in 1 .. 13 : MonthStart(y, l + 1) <= MonthStart(y, n)}
<1>1. l + 1 \in 1 .. 13 /\ l \in 1 .. 12
  OBVIOUS
<1>2. l + 1 \in T
  <2>1. MonthStart(y, l + 1) \in Nat
    BY <1>1, MonthStartType
  <2>2. QED
    BY <1>1, <2>1
<1>3. ASSUME NEW n \in l + 1 .. m - 1, n \in T PROVE n + 1 \in T
  <2>1. n \in 1 .. 12 /\ n + 1 \in 1 .. 13
    OBVIOUS
  <2>2. MonthStart(y, n + 1) = MonthStart(y, n) + DaysInMonth(y, n)
    BY <2>1, MonthStartStep
  <2>3. MonthStart(y, n) \in Nat
    <3> HIDE DEF T
    <3>1. n \in 1 .. 13
      BY <2>1
    <3>2. QED
      BY <3>1, MonthStartType
  <2>4. MonthStart(y, l + 1) \in Nat
    BY <1>1, MonthStartType
  <2>5. DaysInMonth(y, n) \in 28 .. 31
    BY <2>1, MonthType
  <2>6. MonthStart(y, l + 1) <= MonthStart(y, n + 1)
    BY <1>3, <2>2, <2>3, <2>4, <2>5
  <2>7. QED
    BY <2>1, <2>6
<1> HIDE DEF T
<1>4. l + 1 \in Int /\ m \in Int /\ m \in l + 1 .. m
  OBVIOUS
<1>5. m \in T
  BY <1>2, <1>3, <1>4, Climb
<1>6. MonthStart(y, l + 1) = MonthStart(y, l) + DaysInMonth(y, l)
  BY <1>1, MonthStartStep
<1>7. QED
  BY <1>5, <1>6 DEF T

\* The recursion equation of the loop over the months in datetimeToEpoch.
DaysBeforeMonthEq(y, f) ==
  f = [i \in 1 .. 12 |-> IF i = 1 THEN 0 ELSE f[i - 1] + DaysInMonth(y, i - 1)]

\* What that loop adds up.
LEMMA DaysBeforeMonthSum ==
  ASSUME NEW y \in Nat, NEW m \in 1 .. 12
  PROVE  DaysBeforeMonth(y, m) = MonthStart(y, m)
<1> DEFINE g == [i \in 1 .. 12 |-> MonthStart(y, i)]
           f == CHOOSE h : DaysBeforeMonthEq(y, h)
<1>1. ASSUME NEW i \in 1 .. 12
      PROVE  MonthStart(y, i) = IF i = 1 THEN 0 ELSE g[i - 1] + DaysInMonth(y, i - 1)
  <2>1. CASE i = 1
    BY <2>1, YearOfMonths
  <2>2. CASE i # 1
    <3>1. i - 1 \in 1 .. 12 /\ (i - 1) + 1 = i
      BY <2>2
    <3>2. QED
      BY <2>2, <3>1, MonthStartStep
  <2>3. QED
    BY <2>1, <2>2
<1>2. DaysBeforeMonthEq(y, g)
  BY <1>1 DEF DaysBeforeMonthEq
<1> HIDE DEF g
<1>3. DaysBeforeMonthEq(y, f)
  BY <1>2
<1>4. DaysBeforeMonth(y, m) = f[m]
  BY DEF DaysBeforeMonth, DaysBeforeMonthEq
<1> HIDE DEF f
<1>5. \A i \in 1 .. 12 : f[i] = IF i = 1 THEN 0 ELSE f[i - 1] + DaysInMonth(y, i - 1)
  BY <1>3 DEF DaysBeforeMonthEq
<1> DEFINE T == {i \in 1 .. 12 : f[i] = MonthStart(y, i)}
<1>6. 1 \in T
  BY <1>5, YearOfMonths
<1>7. ASSUME NEW i \in 1 .. m - 1, i \in T PROVE i + 1 \in T
  <2>1. i \in 1 .. 12 /\ i + 1 \in 1 .. 12 /\ i + 1 # 1 /\ (i + 1) - 1 = i
    OBVIOUS
  <2>2. f[i + 1] = f[i] + DaysInMonth(y, i)
    BY <1>5, <2>1
  <2>3. f[i + 1] = MonthStart(y, i + 1)
    BY <1>7, <2>1, <2>2, MonthStartStep
  <2>4. QED
    BY <2>1, <2>3
<1> HIDE DEF T
<1>8. 1 \in Int /\ m \in Int /\ m \in 1 .. m
  OBVIOUS
<1>9. m \in T
  BY <1>6, <1>7, <1>8, Climb
<1>10. QED
  BY <1>4, <1>9 DEF T

LEMMA DaysBeforeMonthType ==
  ASSUME NEW y \in Nat, NEW m \in 1 .. 12
  PROVE  DaysBeforeMonth(y, m) \in Nat
<1>1. m \in 1 .. 13
  OBVIOUS
<1>2. MonthStart(y, m) \in Nat
  BY <1>1, MonthStartType
<1>3. QED
  BY <1>2, DaysBeforeMonthSum

\* The loop over the months leaves r days in month m; past the last month
\* there is nothing more to take off.
LeavesIn(y, m, r) == m <= 12 => r < DaysInMonth(y, m)

\* A day of a year lies in one month only.
LEMMA OneMonth ==
  ASSUME NEW y \in Nat,
         NEW l \in 1 .. 13, NEW r \in Nat, LeavesIn(y, l, r),
         NEW m \in 1 .. 13, NEW s \in Nat, LeavesIn(y, m, s),
         MonthStart(y, l) + r = MonthStart(y, m) + s
  PROVE  l = m /\ r = s
<1>1. MonthStart(y, l) \in Nat /\ MonthStart(y, m) \in Nat
  BY MonthStartType
<1>2. ~(l < m)
  <2> SUFFICES ASSUME l < m PROVE FALSE
    OBVIOUS
  <2>1. l \in 1 .. 12
    OBVIOUS
  <2>2. DaysInMonth(y, l) \in 28 .. 31
    BY <2>1, MonthType
  <2>3. QED
    BY <1>1, <2>1, <2>2, MonthsGoUp DEF LeavesIn
<1>3. ~(m < l)
  <2> SUFFICES ASSUME m < l PROVE FALSE
    OBVIOUS
  <2>1. m \in 1 .. 12
    OBVIOUS
  <2>2. DaysInMonth(y, m) \in 28 .. 31
    BY <2>1, MonthType
  <2>3. QED
    BY <1>1, <2>1, <2>2, MonthsGoUp DEF LeavesIn
<1>4. l = m
  BY <1>2, <1>3
<1>5. QED
  BY <1>1, <1>4

\* The recursion equation of the loop over the months in epochToDatetime, and
\* the function that MonthFrom applies to <<1, n>>.
MonthLoopEq(y, f) ==
  f = [p \in (1 .. 13) \X Nat |->
        IF p[1] <= 12 /\ p[2] >= DaysInMonth(y, p[1])
        THEN f[<<p[1] + 1, p[2] - DaysInMonth(y, p[1])>>] ELSE p]

MonthLoop(y) == CHOOSE f : MonthLoopEq(y, f)

LEMMA MonthFromLoop ==
  ASSUME NEW y, NEW n
  PROVE  MonthFrom(y, n) = MonthLoop(y)[<<1, n>>]
BY DEF MonthFrom, MonthLoop, MonthLoopEq

\* The month and the day of it that n days of year y lead to; after the last
\* month whatever is left.
InMonth(y, n) ==
  CHOOSE q \in (1 .. 13) \X Nat : /\ MonthStart(y, q[1]) + q[2] = n
                                  /\ LeavesIn(y, q[1], q[2])

LEMMA InMonthValue ==
  ASSUME NEW y \in Nat, NEW m \in 1 .. 13, NEW r \in Nat, LeavesIn(y, m, r)
  PROVE  InMonth(y, MonthStart(y, m) + r) = <<m, r>>
<1> DEFINE n == MonthStart(y, m) + r
           P(q) == MonthStart(y, q[1]) + q[2] = n /\ LeavesIn(y, q[1], q[2])
<1>1. <<m, r>> \in (1 .. 13) \X Nat /\ P(<<m, r>>)
  OBVIOUS
<1>2. ASSUME NEW q \in (1 .. 13) \X Nat, P(q) PROVE q = <<m, r>>
  <2>1. PICK l \in 1 .. 13, s \in Nat : q = <<l, s>>
    OBVIOUS
  <2>2. MonthStart(y, l) + s = MonthStart(y, m) + r /\ LeavesIn(y, l, s)
    BY <1>2, <2>1
  <2> HIDE DEF P, n
  <2>3. l = m /\ s = r
    BY <2>2, OneMonth, ZenonT(60)
  <2>4. QED
    BY <2>1, <2>3
<1> HIDE DEF P
<1>3. InMonth(y, n) = CHOOSE q \in (1 .. 13) \X Nat : P(q)
  BY DEF InMonth, P
<1>4. QED
  BY <1>1, <1>2, <1>3

LEMMA MonthLoopRecursion ==
  ASSUME NEW y \in Nat
  PROVE  MonthLoopEq(y, MonthLoop(y))
<1> DEFINE g == [p \in (1 .. 13) \X Nat |-> InMonth(y, MonthStart(y, p[1]) + p[2])]
           next(p) == <<p[1] + 1, p[2] - DaysInMonth(y, p[1])>>
<1>1. ASSUME NEW p \in (1 .. 13) \X Nat
      PROVE  InMonth(y, MonthStart(y, p[1]) + p[2])
               = IF p[1] <= 12 /\ p[2] >= DaysInMonth(y, p[1]) THEN g[next(p)] ELSE p
  <2>1. /\ p[1] \in 1 .. 13 /\ p[2] \in Nat /\ p = <<p[1], p[2]>>
        /\ MonthStart(y, p[1]) \in Nat
    <3>1. p[1] \in 1 .. 13 /\ p[2] \in Nat /\ p = <<p[1], p[2]>>
      OBVIOUS
    <3>2. QED
      BY <3>1, MonthStartType
  <2>2. CASE p[1] <= 12 /\ p[2] >= DaysInMonth(y, p[1])
    <3>1. p[1] \in 1 .. 12 /\ DaysInMonth(y, p[1]) \in 28 .. 31
      BY <2>1, <2>2, MonthType
    <3>2. p[1] + 1 \in 1 .. 13 /\ p[2] - DaysInMonth(y, p[1]) \in Nat
      BY <2>2, <3>1, <2>1
    <3>3. MonthStart(y, p[1] + 1) + (p[2] - DaysInMonth(y, p[1])) = MonthStart(y, p[1]) + p[2]
      BY <2>1, <3>1, MonthStartStep
    <3>4. g[next(p)] = InMonth(y, MonthStart(y, p[1] + 1) + (p[2] - DaysInMonth(y, p[1])))
      BY <3>2
    <3>5. QED
      BY <2>2, <3>3, <3>4
  <2>3. CASE ~(p[1] <= 12 /\ p[2] >= DaysInMonth(y, p[1]))
    <3>1. LeavesIn(y, p[1], p[2])
      BY <2>1, <2>3, MonthType DEF LeavesIn
    <3>2. QED
      BY <2>1, <2>3, <3>1, InMonthValue
  <2>4. QED
    BY <2>2, <2>3
<1>2. MonthLoopEq(y, g)
  BY <1>1 DEF MonthLoopEq
<1> HIDE DEF g
<1>3. QED
  BY <1>2 DEF MonthLoop

\* The loop over the months keeps the day of the year that it started with.
LEMMA MonthLoopFinds ==
  ASSUME NEW y \in Nat, NEW m \in 1 .. 13, NEW r \in Nat
  PROVE  \E l \in 1 .. 13, s \in Nat :
           /\ MonthLoop(y)[<<m, r>>] = <<l, s>>
           /\ MonthStart(y, l) + s = MonthStart(y, m) + r
           /\ LeavesIn(y, l, s)
<1> DEFINE Finds(i, a) == \E l \in 1 .. 13, s \in Nat :
                            /\ MonthLoop(y)[<<i, a>>] = <<l, s>>
                            /\ MonthStart(y, l) + s = MonthStart(y, i) + a
                            /\ LeavesIn(y, l, s)
           T == {k \in 0 .. 12 : \A a \in Nat : Finds(13 - k, a)}
<1>1. ASSUME NEW i \in 1 .. 13, NEW a \in Nat
      PROVE  MonthLoop(y)[<<i, a>>]
               = IF i <= 12 /\ a >= DaysInMonth(y, i)
                 THEN MonthLoop(y)[<<i + 1, a - DaysInMonth(y, i)>>] ELSE <<i, a>>
  BY MonthLoopRecursion DEF MonthLoopEq
<1>2. ASSUME NEW i \in 1 .. 13, NEW a \in Nat, LeavesIn(y, i, a) PROVE Finds(i, a)
  <2>1. ~(i <= 12 /\ a >= DaysInMonth(y, i))
    BY <1>2, MonthType DEF LeavesIn
  <2>2. MonthLoop(y)[<<i, a>>] = <<i, a>>
    BY <1>1, <2>1
  <2>3. QED
    BY <1>2, <2>2
<1>3. ASSUME NEW i \in 1 .. 12, NEW a \in Nat, a >= DaysInMonth(y, i),
             \A b \in Nat : Finds(i + 1, b)
      PROVE  Finds(i, a)
  <2> DEFINE b == a - DaysInMonth(y, i)
  <2>1. b \in Nat /\ i \in 1 .. 13 /\ i <= 12
    BY <1>3, MonthType
  <2>2. MonthLoop(y)[<<i, a>>] = MonthLoop(y)[<<i + 1, b>>]
    BY <1>1, <1>3, <2>1
  <2>3. MonthStart(y, i + 1) + b = MonthStart(y, i) + a
    <3>1. MonthStart(y, i) \in Nat
      BY <2>1, MonthStartType
    <3>2. DaysInMonth(y, i) \in 28 .. 31
      BY MonthType
    <3>3. QED
      BY <3>1, <3>2, MonthStartStep
  <2>4. Finds(i + 1, b)
    BY <1>3, <2>1
  <2> HIDE DEF b
  <2>5. QED
    BY <2>2, <2>3, <2>4
<1> HIDE DEF Finds
<1>4. 0 \in T
  <2> SUFFICES ASSUME NEW a \in Nat PROVE Finds(13, a)
    OBVIOUS
  <2>1. LeavesIn(y, 13, a)
    BY DEF LeavesIn
  <2>2. QED
    BY <1>2, <2>1
<1>5. ASSUME NEW k \in 0 .. 13 - m - 1, k \in T PROVE k + 1 \in T
  <2> DEFINE i == 13 - (k + 1)
  <2>1. i \in 1 .. 12 /\ i \in 1 .. 13 /\ i + 1 = 13 - k /\ k + 1 \in 0 .. 12
    OBVIOUS
  <2>2. \A b \in Nat : Finds(i + 1, b)
    BY <1>5, <2>1
  <2> HIDE DEF i
  <2>3. ASSUME NEW a \in Nat PROVE Finds(i, a)
    <3>1. CASE a >= DaysInMonth(y, i)
      BY <1>3, <2>1, <2>2, <3>1
    <3>2. CASE ~(a >= DaysInMonth(y, i))
      <4>1. LeavesIn(y, i, a)
        BY <2>1, <3>2, MonthType DEF LeavesIn
      <4>2. QED
        BY <1>2, <2>1, <4>1
    <3>3. QED
      BY <3>1, <3>2
  <2>4. QED
    BY <2>1, <2>3 DEF i
<1> HIDE DEF T
<1>6. 0 \in Int /\ 13 - m \in Int /\ 13 - m \in 0 .. 13 - m
  OBVIOUS
<1>7. 13 - m \in T
  BY <1>4, <1>5, <1>6, Climb
<1>8. 13 - (13 - m) = m
  OBVIOUS
<1>9. Finds(m, r)
  BY <1>7, <1>8 DEF T
<1>10. QED
  BY <1>9 DEF Finds

\* What the loop over the months in epochToDatetime gives for any day of a year:
\* a month that there is, never the place past the end of days_in_month.
LEMMA MonthFromFinds ==
  ASSUME NEW y \in Nat, NEW n \in Nat, n < DaysInYear(y)
  PROVE  \E m \in 1 .. 12, r \in Nat :
           /\ MonthFrom(y, n) = <<m, r>>
           /\ r < DaysInMonth(y, m)
           /\ DaysBeforeMonth(y, m) + r = n
<1>1. MonthStart(y, 1) = 0 /\ MonthStart(y, 13) = DaysInYear(y)
  BY YearOfMonths
<1>2. PICK m \in 1 .. 13, r \in Nat :
             /\ MonthLoop(y)[<<1, n>>] = <<m, r>>
             /\ MonthStart(y, m) + r = MonthStart(y, 1) + n
             /\ LeavesIn(y, m, r)
  <2>1. 1 \in 1 .. 13
    OBVIOUS
  <2>2. QED
    BY <2>1, MonthLoopFinds
<1>3. MonthStart(y, m) + r = n
  BY <1>1, <1>2
<1>4. m # 13
  BY <1>1, <1>3, YearStartType
<1>5. m \in 1 .. 12 /\ r < DaysInMonth(y, m)
  BY <1>2, <1>4 DEF LeavesIn
<1>6. DaysBeforeMonth(y, m) = MonthStart(y, m)
  BY <1>5, DaysBeforeMonthSum
<1>7. MonthFrom(y, n) = <<m, r>>
  BY <1>2, MonthFromLoop
<1>8. QED
  BY <1>3, <1>5, <1>6, <1>7

LEMMA MonthFromValue ==
  ASSUME NEW y \in Nat, NEW m \in 1 .. 12, NEW r \in Nat, r < DaysInMonth(y, m)
  PROVE  /\ DaysBeforeMonth(y, m) \in Nat
         /\ DaysBeforeMonth(y, m) + r < DaysInYear(y)
         /\ MonthFrom(y, DaysBeforeMonth(y, m) + r) = <<m, r>>
<1> DEFINE n == DaysBeforeMonth(y, m) + r
<1>1. DaysBeforeMonth(y, m) = MonthStart(y, m)
  BY DaysBeforeMonthSum
<1>2. DaysBeforeMonth(y, m) \in Nat
  <2>1. m \in 1 .. 13
    OBVIOUS
  <2>2. QED
    BY <1>1, <2>1, MonthStartType
<1>3. n < DaysInYear(y)
  <2>1. MonthStart(y, m) + DaysInMonth(y, m) <= MonthStart(y, 13)
    BY MonthsGoUp
  <2>2. MonthStart(y, 13) = DaysInYear(y)
    BY YearOfMonths
  <2>3. DaysInMonth(y, m) \in 28 .. 31 /\ DaysInYear(y) \in 365 .. 366
    BY MonthType, YearStartType
  <2>4. QED
    BY <1>1, <1>2, <2>1, <2>2, <2>3
<1>4. n \in Nat /\ MonthStart(y, m) + r = n
  BY <1>1, <1>2
<1> HIDE DEF n
<1>5. PICK l \in 1 .. 12, s \in Nat :
             /\ MonthFrom(y, n) = <<l, s>>
             /\ s < DaysInMonth(y, l)
             /\ DaysBeforeMonth(y, l) + s = n
  BY <1>3, <1>4, MonthFromFinds
<1>6. MonthStart(y, l) + s = MonthStart(y, m) + r
  BY <1>4, <1>5, DaysBeforeMonthSum
<1>7. LeavesIn(y, l, s) /\ LeavesIn(y, m, r) /\ l \in 1 .. 13 /\ m \in 1 .. 13
  BY <1>5 DEF LeavesIn
<1>8. l = m /\ s = r
  BY <1>6, <1>7, OneMonth
<1>9. QED
  BY <1>2, <1>3, <1>5, <1>8 DEF n

-----------------------------------------------------------------------------
(* The conversions *)

\* Dates with a time of the day, fields in range, and times in seconds.
DateTimes == [year : CalendarYears, month : 1 .. 12, day : 1 .. 31,
              hour : 0 .. 23, minute : 0 .. 59, second : 0 .. 59]
DateTime(y, m, d, h, n, s) ==
  [year |-> y, month |-> m, day |-> d, hour |-> h, minute |-> n, second |-> s]
SecondsOfDay == {n \in Nat : n < 86400}
Epochs == [days : Nat, seconds : SecondsOfDay]

LEMMA GregorianMonths ==
  ASSUME NEW y \in Nat, NEW m \in 1 .. 12
  PROVE  DaysInMonth(y, m) = MonthLength(y, m)
<1>1. \/ m = 1 \/ m = 2 \/ m = 3 \/ m = 4 \/ m = 5 \/ m = 6
      \/ m = 7 \/ m = 8 \/ m = 9 \/ m = 10 \/ m = 11 \/ m = 12
  OBVIOUS
<1>2. y % 4 \in Int /\ y % 100 \in Int /\ y % 400 \in Int
      /\ (y % 400 = 0 => y % 4 = 0)
  BY NextMultiple
<1>3. QED
  BY <1>1, <1>2 DEF DaysInMonth, days_in_month, MonthLength, is_leap

Seconds(h, m, s) == (h * 60 + m) * 60 + s
HourOf(t) == t \div 3600
MinuteOf(t) == (t % 3600) \div 60
SecondOf(t) == t % 60

LEMMA TimeToSeconds ==
  ASSUME NEW h \in 0 .. 23, NEW m \in 0 .. 59, NEW s \in 0 .. 59
  PROVE  /\ Seconds(h, m, s) \in SecondsOfDay
         /\ HourOf(Seconds(h, m, s)) = h
         /\ MinuteOf(Seconds(h, m, s)) = m
         /\ SecondOf(Seconds(h, m, s)) = s
<1> DEFINE t == (h * 60 + m) * 60 + s
<1>1. /\ h \in Int /\ m \in Int /\ s \in Int
      /\ 0 <= h /\ h <= 23 /\ 0 <= m /\ m <= 59 /\ 0 <= s /\ s <= 59
  OBVIOUS
<1>2. t \in Nat /\ t < 86400
  BY <1>1
<1>3. t = 3600 * h + (60 * m + s)
  BY <1>1
<1>4. 60 * m + s \in Int /\ 0 <= 60 * m + s /\ 60 * m + s < 3600
  BY <1>1
<1>5. t = 60 * (60 * h + m) + s
  BY <1>1
<1>6. \A q \in Int : 0 <= q /\ q < 3600 => (3600 * h + q) \div 3600 = h
                                         /\ (3600 * h + q) % 3600 = q
  BY <1>1
<1>7. \A i, q \in Int : 0 <= i /\ 0 <= q /\ q < 60 => (60 * i + q) \div 60 = i
                                                     /\ (60 * i + q) % 60 = q
  OBVIOUS
<1> HIDE DEF t
<1>8. t \div 3600 = h /\ t % 3600 = 60 * m + s
  BY <1>3, <1>4, <1>6
<1>9. (60 * m + s) \div 60 = m
  BY <1>1, <1>7
<1>10. t % 60 = s
  <2>1. 60 * h + m \in Int /\ 0 <= 60 * h + m /\ s < 60
    BY <1>1
  <2>2. QED
    BY <1>1, <1>5, <1>7, <2>1
<1>11. t \in SecondsOfDay
  BY <1>2 DEF SecondsOfDay
<1>12. QED
  BY <1>8, <1>9, <1>10, <1>11 DEF t, Seconds, HourOf, MinuteOf, SecondOf

LEMMA SecondsToTime ==
  ASSUME NEW t \in SecondsOfDay
  PROVE  /\ HourOf(t) \in 0 .. 23
         /\ MinuteOf(t) \in 0 .. 59
         /\ SecondOf(t) \in 0 .. 59
         /\ Seconds(HourOf(t), MinuteOf(t), SecondOf(t)) = t
<1>1. t \in Int /\ 0 <= t /\ t < 86400
  BY DEF SecondsOfDay
<1>2. t \div 3600 \in Int /\ 0 <= t \div 3600 /\ t \div 3600 <= 23
  BY <1>1
<1>3. t % 3600 \in Int /\ 0 <= t % 3600 /\ t % 3600 < 3600
  BY <1>1
<1>4. t = 3600 * (t \div 3600) + (t % 3600)
  BY <1>1
<1>5. t % 60 = (t % 3600) % 60 /\ t % 60 \in Int /\ 0 <= t % 60 /\ t % 60 <= 59
  BY <1>1
<1>6. \A q \in Int : 0 <= q /\ q < 3600 =>
        /\ q \div 60 \in Int /\ 0 <= q \div 60 /\ q \div 60 <= 59
        /\ q = 60 * (q \div 60) + (q % 60)
  OBVIOUS
<1> DEFINE h == t \div 3600
           q == t % 3600
           m == q \div 60
           s == t % 60
<1>7. m \in Int /\ 0 <= m /\ m <= 59 /\ q = 60 * m + s
  BY <1>3, <1>5, <1>6
<1>8. (h * 60 + m) * 60 + s = t
  <2>1. h \in Int /\ m \in Int /\ s \in Int /\ t = 3600 * h + q
    BY <1>2, <1>4, <1>5, <1>7
  <2> HIDE DEF h, q, m, s
  <2>2. QED
    BY <1>7, <2>1
<1>9. h \in 0 .. 23 /\ m \in 0 .. 59 /\ s \in 0 .. 59
  <2> HIDE DEF m, q
  <2>1. QED
    BY <1>2, <1>5, <1>7
<1>10. QED
  BY <1>8, <1>9 DEF Seconds, HourOf, MinuteOf, SecondOf

\* epochToDatetime undoes datetimeToEpoch, whatever date there is from 1970 on
\* and whatever time of the day: setTime, then getTime at once, gives it back.
THEOREM DateRoundTrip ==
  ASSUME NEW d \in DateTimes, Exists(d)
  PROVE  /\ datetimeToEpoch(d) \in Epochs
         /\ epochToDatetime(datetimeToEpoch(d)) = d
<1> DEFINE y == d.year
           r == d.day - 1
           n == DaysBeforeMonth(y, d.month) + r
           s == Seconds(d.hour, d.minute, d.second)
           t == datetimeToEpoch(d)
<1>1. /\ y \in CalendarYears /\ y \in Nat /\ d.month \in 1 .. 12 /\ d.day \in 1 .. 31
      /\ d.hour \in 0 .. 23 /\ d.minute \in 0 .. 59 /\ d.second \in 0 .. 59
      /\ d = [year |-> d.year, month |-> d.month, day |-> d.day,
              hour |-> d.hour, minute |-> d.minute, second |-> d.second]
  BY DEF DateTimes, CalendarYears
<1>2. r \in Nat /\ r < DaysInMonth(y, d.month) /\ r + 1 = d.day
  <2>1. d.day <= DaysInMonth(y, d.month)
    BY <1>1, GregorianMonths DEF Exists
  <2>2. DaysInMonth(y, d.month) \in 28 .. 31
    BY <1>1, MonthType
  <2>3. QED
    BY <1>1, <2>1, <2>2
<1>3. /\ DaysBeforeMonth(y, d.month) \in Nat
      /\ n < DaysInYear(y)
      /\ MonthFrom(y, n) = <<d.month, r>>
  BY <1>1, <1>2, MonthFromValue
<1>4. n \in Nat
  BY <1>2, <1>3
<1>5. DaysBeforeYear[y] \in Nat /\ YearFrom(DaysBeforeYear[y] + n) = <<y, n>>
  BY <1>1, <1>3, <1>4, YearFromValue
<1>6. /\ s \in SecondsOfDay
      /\ HourOf(s) = d.hour /\ MinuteOf(s) = d.minute /\ SecondOf(s) = d.second
  BY <1>1, TimeToSeconds, Zenon
<1>7. t.days = DaysBeforeYear[y] + n /\ t.seconds = s
  <2>1. t.days = DaysBeforeYear[y] + DaysBeforeMonth(y, d.month) + (d.day - 1)
    BY DEF datetimeToEpoch
  <2>2. t.seconds = s
    BY DEF datetimeToEpoch, Seconds
  <2> HIDE DEF t, s
  <2>3. QED
    BY <1>2, <1>3, <1>5, <2>1, <2>2
<1>8. t \in Epochs
  <2>1. t = [days |-> t.days, seconds |-> t.seconds]
    BY DEF datetimeToEpoch
  <2> HIDE DEF t, s, n
  <2>2. QED
    BY <1>4, <1>5, <1>6, <1>7, <2>1 DEF Epochs
<1> HIDE DEF t, s, n, r
<1>9. epochToDatetime(t) = d
  <2>1. YearFrom(t.days)[1] = y /\ YearFrom(t.days)[2] = n
    BY <1>5, <1>7
  <2>2. MonthFrom(y, n)[1] = d.month /\ MonthFrom(y, n)[2] + 1 = d.day
    BY <1>2, <1>3
  <2>3. epochToDatetime(t) = [year |-> d.year, month |-> d.month, day |-> d.day,
                              hour |-> d.hour, minute |-> d.minute, second |-> d.second]
    BY <1>6, <1>7, <2>1, <2>2 DEF epochToDatetime, HourOf, MinuteOf, SecondOf
  <2>4. QED
    BY <1>1, <2>3
<1>10. QED
  BY <1>8, <1>9 DEF t

\* datetimeToEpoch undoes epochToDatetime, whatever the time: getTime answers
\* with a date that exists, and setTime with that answer changes nothing.
THEOREM EpochRoundTrip ==
  ASSUME NEW t \in Epochs
  PROVE  /\ epochToDatetime(t) \in DateTimes
         /\ Exists(epochToDatetime(t))
         /\ datetimeToEpoch(epochToDatetime(t)) = t
<1> DEFINE q == YearFrom(t.days)
           d == epochToDatetime(t)
<1>1. t.days \in Nat /\ t.seconds \in SecondsOfDay
      /\ t = [days |-> t.days, seconds |-> t.seconds]
  BY DEF Epochs
<1>2. /\ q \in CalendarYears \X Nat /\ q[2] < DaysInYear(q[1])
      /\ DaysBeforeYear[q[1]] + q[2] = t.days
  BY <1>1, YearFromFinds
<1> HIDE DEF q
<1>3. q[1] \in CalendarYears /\ q[1] \in Nat /\ q[2] \in Nat
  BY <1>2 DEF CalendarYears
<1>4. PICK m \in 1 .. 12, r \in Nat :
             /\ MonthFrom(q[1], q[2]) = <<m, r>>
             /\ r < DaysInMonth(q[1], m)
             /\ DaysBeforeMonth(q[1], m) + r = q[2]
  BY <1>2, <1>3, MonthFromFinds
<1>5. /\ d.year = q[1] /\ d.month = m /\ d.day = r + 1
      /\ d.hour = HourOf(t.seconds) /\ d.minute = MinuteOf(t.seconds)
      /\ d.second = SecondOf(t.seconds)
      /\ d = [year |-> d.year, month |-> d.month, day |-> d.day,
              hour |-> d.hour, minute |-> d.minute, second |-> d.second]
  BY <1>4 DEF epochToDatetime, q, HourOf, MinuteOf, SecondOf
<1> HIDE DEF d
<1>6. DaysInMonth(q[1], m) \in 28 .. 31 /\ DaysInMonth(q[1], m) = MonthLength(q[1], m)
  BY <1>3, MonthType, GregorianMonths
<1>7. r + 1 \in 1 .. 31 /\ r + 1 <= MonthLength(q[1], m)
  BY <1>4, <1>6
<1>8. /\ d.hour \in 0 .. 23 /\ d.minute \in 0 .. 59 /\ d.second \in 0 .. 59
      /\ Seconds(d.hour, d.minute, d.second) = t.seconds
  BY <1>1, <1>5, SecondsToTime
<1>9. d \in DateTimes /\ Exists(d)
  <2>1. d \in DateTimes
    BY <1>3, <1>5, <1>7, <1>8 DEF DateTimes
  <2>2. Exists(d)
    BY <1>5, <1>7 DEF Exists
  <2>3. QED
    BY <2>1, <2>2
<1>10. DaysBeforeYear[d.year] + DaysBeforeMonth(d.year, d.month) + (d.day - 1) = t.days
  <2>1. DaysBeforeYear[q[1]] \in Int
    <3>1. /\ DaysBeforeYear[q[1]] = YearStart(q[1]) - YearStart(1970)
          /\ YearStart(q[1]) \in Int /\ YearStart(1970) \in Int
      BY <1>3, DaysBeforeYearSum, YearStartType
    <3>2. QED
      BY <3>1
  <2>2. DaysBeforeMonth(q[1], m) \in Nat
    BY <1>3, <1>4, MonthFromValue
  <2>3. DaysBeforeYear[q[1]] + DaysBeforeMonth(q[1], m) + ((r + 1) - 1) = t.days
    BY <1>2, <1>4, <2>1, <2>2
  <2>4. QED
    BY <1>5, <2>3
<1>11. datetimeToEpoch(d) = t
  BY <1>1, <1>8, <1>10 DEF datetimeToEpoch, Seconds
<1>12. QED
  BY <1>9, <1>11 DEF d

\* A day's number counted by the loops of datetimeToEpoch.
DayNumber(d) == DaysBeforeYear[d.year] + DaysBeforeMonth(d.year, d.month) + (d.day - 1)

EarlierDay(d, e) ==
  \/ d.year < e.year
  \/ d.year = e.year /\ d.month < e.month
  \/ d.year = e.year /\ d.month = e.month /\ d.day < e.day

\* The parts of a day's number, as formulas without recursion.
LEMMA DayNumberParts ==
  ASSUME NEW d \in DateTimes
  PROVE  /\ d.year \in Nat /\ d.month \in 1 .. 12 /\ d.day \in 1 .. 31
         /\ YearStart(d.year) \in Int /\ YearStart(1970) \in Int
         /\ MonthStart(d.year, d.month) \in Nat
         /\ DayNumber(d) = (YearStart(d.year) - YearStart(1970))
                             + MonthStart(d.year, d.month) + (d.day - 1)
<1>1. d.year \in CalendarYears /\ d.month \in 1 .. 12 /\ d.day \in 1 .. 31
  BY DEF DateTimes
<1>2. d.year \in Nat
  BY <1>1 DEF CalendarYears
<1>3. YearStart(d.year) \in Int /\ YearStart(1970) \in Int
  BY <1>2, YearStartType
<1>4. DaysBeforeYear[d.year] = YearStart(d.year) - YearStart(1970)
  BY <1>1, DaysBeforeYearSum
<1>5. DaysBeforeMonth(d.year, d.month) = MonthStart(d.year, d.month)
  BY <1>1, <1>2, DaysBeforeMonthSum
<1>6. MonthStart(d.year, d.month) \in Nat
  <2>1. d.month \in 1 .. 13
    BY <1>1
  <2>2. QED
    BY <1>2, <2>1, MonthStartType
<1>7. QED
  BY <1>1, <1>2, <1>3, <1>4, <1>5, <1>6 DEF DayNumber

LEMMA EarlierIsLess ==
  ASSUME NEW d \in DateTimes, Exists(d), NEW e \in DateTimes, Exists(e), EarlierDay(d, e)
  PROVE  DayNumber(d) < DayNumber(e)
<1> DEFINE y == d.year
           z == e.year
<1>1. /\ y \in Nat /\ d.month \in 1 .. 12 /\ d.day \in 1 .. 31
      /\ YearStart(y) \in Int /\ YearStart(1970) \in Int /\ MonthStart(y, d.month) \in Nat
      /\ DayNumber(d) = (YearStart(y) - YearStart(1970)) + MonthStart(y, d.month) + (d.day - 1)
  BY DayNumberParts
<1>2. /\ z \in Nat /\ e.month \in 1 .. 12 /\ e.day \in 1 .. 31
      /\ YearStart(z) \in Int /\ MonthStart(z, e.month) \in Nat
      /\ DayNumber(e) = (YearStart(z) - YearStart(1970)) + MonthStart(z, e.month) + (e.day - 1)
  BY DayNumberParts
<1>3. d.day <= DaysInMonth(y, d.month) /\ DaysInMonth(y, d.month) \in 28 .. 31
  BY <1>1, GregorianMonths, MonthType DEF Exists
<1> HIDE DEF y, z
<1>4. CASE d.year < e.year
  <2>1. y < z
    BY <1>4 DEF y, z
  <2>2. YearStart(y) + DaysInYear(y) <= YearStart(z)
    BY <1>1, <1>2, <2>1, YearsGoUp
  <2>3. MonthStart(y, d.month) + DaysInMonth(y, d.month) <= DaysInYear(y)
    <3>1. 13 \in 1 .. 13 /\ d.month \in 1 .. 13 /\ d.month < 13
      BY <1>1
    <3>2. MonthStart(y, d.month) + DaysInMonth(y, d.month) <= MonthStart(y, 13)
      BY <1>1, <3>1, MonthsGoUp
    <3>3. QED
      BY <1>1, <3>2, YearOfMonths
  <2>4. DaysInYear(y) \in Int
    BY <1>1, YearStartType
  <2>5. QED
    BY <1>1, <1>2, <1>3, <2>2, <2>3, <2>4
<1>5. CASE d.year = e.year /\ d.month < e.month
  <2>1. y = z /\ d.month \in 1 .. 13 /\ e.month \in 1 .. 13 /\ d.month < e.month
    BY <1>1, <1>2, <1>5 DEF y, z
  <2>2. MonthStart(y, d.month) + DaysInMonth(y, d.month) <= MonthStart(y, e.month)
    BY <1>1, <2>1, MonthsGoUp
  <2>3. MonthStart(z, e.month) = MonthStart(y, e.month) /\ YearStart(z) = YearStart(y)
    BY <2>1
  <2>4. QED
    BY <1>1, <1>2, <1>3, <2>2, <2>3
<1>6. CASE d.year = e.year /\ d.month = e.month /\ d.day < e.day
  <2>1. MonthStart(z, e.month) = MonthStart(y, d.month) /\ YearStart(z) = YearStart(y)
    BY <1>6 DEF y, z
  <2>2. QED
    BY <1>1, <1>2, <1>6, <2>1
<1>7. QED
  BY <1>4, <1>5, <1>6 DEF EarlierDay

\* The conversion keeps the order of days: that setAlarm compares seconds since
\* 1970 is as good as comparing dates.
THEOREM DayOrder ==
  ASSUME NEW d \in DateTimes, Exists(d), NEW e \in DateTimes, Exists(e)
  PROVE  datetimeToEpoch(d).days < datetimeToEpoch(e).days <=> EarlierDay(d, e)
<1>1. datetimeToEpoch(d).days = DayNumber(d) /\ datetimeToEpoch(e).days = DayNumber(e)
  BY DEF datetimeToEpoch, DayNumber
<1>2. DayNumber(d) \in Int /\ DayNumber(e) \in Int
  <2>1. DayNumber(d) \in Int
    BY DayNumberParts
  <2>2. DayNumber(e) \in Int
    BY DayNumberParts
  <2>3. QED
    BY <2>1, <2>2
<1>3. EarlierDay(d, e) => DayNumber(d) < DayNumber(e)
  BY EarlierIsLess
<1>4. EarlierDay(e, d) => DayNumber(e) < DayNumber(d)
  BY EarlierIsLess
<1>5. ~EarlierDay(d, e) /\ ~EarlierDay(e, d) => DayNumber(d) = DayNumber(e)
  <2>1. /\ d.year \in Int /\ d.month \in Int /\ d.day \in Int
        /\ e.year \in Int /\ e.month \in Int /\ e.day \in Int
    BY DEF DateTimes, CalendarYears
  <2>2. ~EarlierDay(d, e) /\ ~EarlierDay(e, d)
          => d.year = e.year /\ d.month = e.month /\ d.day = e.day
    BY <2>1 DEF EarlierDay
  <2>3. QED
    BY <2>2 DEF DayNumber
<1>6. QED
  BY <1>1, <1>2, <1>3, <1>4, <1>5

\* A day that its month does not have runs into the next month, and in December
\* every day exists: what setDayOfMonth makes of the 31st in a shorter month.
THEOREM DayRunsOver ==
  ASSUME NEW d \in DateTimes, ~Exists(d)
  PROVE  LET over == d.day - MonthLength(d.year, d.month)
         IN /\ d.month < 12
            /\ over \in 1 .. 3
            /\ datetimeToEpoch(d)
                 = datetimeToEpoch(DateTime(d.year, d.month + 1, over,
                                            d.hour, d.minute, d.second))
<1> DEFINE y == d.year
           m == d.month
           over == d.day - MonthLength(y, m)
           e == DateTime(y, m + 1, over, d.hour, d.minute, d.second)
<1>1. /\ y \in CalendarYears /\ y \in Nat /\ m \in 1 .. 12 /\ d.day \in 1 .. 31
  BY DEF DateTimes, CalendarYears
<1>2. MonthLength(y, m) \in 28 .. 31 /\ ~(d.day <= MonthLength(y, m))
  BY <1>1 DEF MonthLength, Exists
<1>3. m # 12
  BY <1>1, <1>2 DEF MonthLength
<1>4. over \in 1 .. 3
  BY <1>1, <1>2
<1>5. DaysBeforeMonth(y, m + 1) = DaysBeforeMonth(y, m) + MonthLength(y, m)
  <2>1. m + 1 \in 1 .. 12
    BY <1>1, <1>3
  <2>2. DaysBeforeMonth(y, m + 1) = MonthStart(y, m + 1)
    BY <1>1, <2>1, DaysBeforeMonthSum
  <2>3. DaysBeforeMonth(y, m) = MonthStart(y, m)
    BY <1>1, DaysBeforeMonthSum
  <2>4. MonthStart(y, m + 1) = MonthStart(y, m) + DaysInMonth(y, m)
    BY <1>1, MonthStartStep
  <2>5. DaysInMonth(y, m) = MonthLength(y, m)
    BY <1>1, GregorianMonths
  <2>6. QED
    BY <2>2, <2>3, <2>4, <2>5
<1>6. DaysBeforeYear[y] \in Int /\ DaysBeforeMonth(y, m) \in Int
  <2>1. /\ DaysBeforeYear[y] = YearStart(y) - YearStart(1970)
        /\ YearStart(y) \in Int /\ YearStart(1970) \in Int
    BY <1>1, DaysBeforeYearSum, YearStartType
  <2>2. DaysBeforeMonth(y, m) \in Nat
    BY <1>1, DaysBeforeMonthType
  <2>3. QED
    BY <2>1, <2>2
<1>7. /\ e.year = y /\ e.month = m + 1 /\ e.day = over
      /\ e.hour = d.hour /\ e.minute = d.minute /\ e.second = d.second
  BY DEF DateTime
<1>8. DaysBeforeYear[e.year] + DaysBeforeMonth(e.year, e.month) + (e.day - 1)
        = DaysBeforeYear[d.year] + DaysBeforeMonth(d.year, d.month) + (d.day - 1)
  <2>1. MonthLength(y, m) \in Int /\ d.day \in Int
    BY <1>1, <1>2
  <2>2. DaysBeforeYear[y] + DaysBeforeMonth(y, m + 1) + (over - 1)
          = DaysBeforeYear[y] + DaysBeforeMonth(y, m) + (d.day - 1)
    <3>1. over = d.day - MonthLength(y, m)
      OBVIOUS
    <3> HIDE DEF y, m, over, e
    <3>2. QED
      BY <1>5, <1>6, <2>1, <3>1
  <2>3. QED
    BY <1>7, <2>2
<1>9. datetimeToEpoch(e) = datetimeToEpoch(d)
  <2> HIDE DEF y, m, over, e
  <2>1. QED
    BY <1>7, <1>8 DEF datetimeToEpoch
<1>10. m < 12
  BY <1>1, <1>3
<1>11. QED
  BY <1>4, <1>9, <1>10

-----------------------------------------------------------------------------
(* The walk through the calendar *)

WalkTypeOK == date \in [year : CalendarYears, month : 1 .. 12, day : 1 .. 31]

\* The date of the walk exists and the days walked are its number.
WalkInv ==
  /\ WalkTypeOK
  /\ Exists(date)
  /\ days = DayNumber(date)

LEMMA WalkInit == Init => WalkInv
<1> SUFFICES ASSUME NEW y \in Walked,
                    date = [year |-> y, month |-> 1, day |-> 1],
                    days = 365 * (y - 1970) + LeapYears(y - 1) - LeapYears(1969)
             PROVE  WalkInv
  BY DEF Init
<1>1. y \in CalendarYears /\ y \in Nat
  BY CalendarAssumption DEF CalendarYears
<1>2. date.year = y /\ date.month = 1 /\ date.day = 1
  OBVIOUS
<1>3. WalkTypeOK
  BY <1>1 DEF WalkTypeOK
<1>4. Exists(date)
  BY <1>2 DEF Exists, MonthLength
<1>5. days = DayNumber(date)
  <2>1. DaysBeforeMonth(y, 1) = 0
    BY <1>1, DaysBeforeMonthSum, YearOfMonths
  <2>2. DaysBeforeYear[y] = YearStart(y) - YearStart(1970)
    BY <1>1, DaysBeforeYearSum
  <2>3. LeapYears(y - 1) \in Int /\ LeapYears(1969) \in Int
    BY <1>1 DEF LeapYears
  <2>4. YearStart(1970) = 365 * 1970 + LeapYears(1969)
    BY DEF YearStart
  <2>5. days = DaysBeforeYear[y]
    BY <1>1, <2>2, <2>3, <2>4 DEF YearStart
  <2>6. days \in Int
    BY <1>1, <2>3
  <2>7. QED
    BY <1>2, <2>1, <2>5, <2>6 DEF DayNumber
<1>6. QED
  BY <1>3, <1>4, <1>5 DEF WalkInv

LEMMA WalkStep == WalkInv /\ [NextDay]_vars => WalkInv'
<1> SUFFICES ASSUME WalkInv, [NextDay]_vars PROVE WalkInv'
  OBVIOUS
<1> DEFINE y == date.year
           m == date.month
<1>1. /\ y \in CalendarYears /\ y \in Nat /\ m \in 1 .. 12 /\ date.day \in 1 .. 31
      /\ date = [year |-> y, month |-> m, day |-> date.day]
  BY DEF WalkInv, WalkTypeOK, CalendarYears
<1>2. DaysBeforeYear[y] \in Int
  <2>1. /\ DaysBeforeYear[y] = YearStart(y) - YearStart(1970)
        /\ YearStart(y) \in Int /\ YearStart(1970) \in Int
    BY <1>1, DaysBeforeYearSum, YearStartType
  <2>2. QED
    BY <2>1
<1>3. DaysBeforeMonth(y, m) = MonthStart(y, m) /\ MonthStart(y, m) \in Nat
  <2>1. y \in Nat /\ m \in 1 .. 12
    BY <1>1
  <2> HIDE DEF y, m
  <2>2. DaysBeforeMonth(y, m) = MonthStart(y, m)
    BY <2>1, DaysBeforeMonthSum
  <2>3. DaysBeforeMonth(y, m) \in Nat
    BY <2>1, DaysBeforeMonthType
  <2>4. QED
    BY <2>2, <2>3
<1>4. MonthLength(y, m) = DaysInMonth(y, m) /\ DaysInMonth(y, m) \in 28 .. 31
  BY <1>1, GregorianMonths, MonthType
<1>5. days = DaysBeforeYear[y] + MonthStart(y, m) + (date.day - 1)
  BY <1>3 DEF WalkInv, DayNumber
<1> HIDE DEF y, m
<1>6. CASE /\ days' = days + 1
           /\ date.day < MonthLength(date.year, date.month)
           /\ date' = [date EXCEPT !.day = @ + 1]
  <2>1. date.day + 1 \in 1 .. 31 /\ date.day + 1 <= MonthLength(y, m)
    BY <1>1, <1>4, <1>6 DEF y, m
  <2>2. date' = [year |-> y, month |-> m, day |-> date.day + 1]
    BY <1>1, <1>6
  <2>3. date'.year = y /\ date'.month = m /\ date'.day = date.day + 1
    BY <2>2
  <2>4. WalkTypeOK'
    BY <1>1, <2>1, <2>2 DEF WalkTypeOK
  <2>5. Exists(date)'
    BY <2>1, <2>3 DEF Exists
  <2>6. days' = DaysBeforeYear[y] + DaysBeforeMonth(y, m) + ((date.day + 1) - 1)
    BY <1>1, <1>2, <1>3, <1>5, <1>6
  <2>7. (days = DayNumber(date))'
    BY <2>3, <2>6 DEF DayNumber
  <2>8. QED
    BY <2>4, <2>5, <2>7 DEF WalkInv
<1>7. CASE /\ days' = days + 1
           /\ date.day = MonthLength(date.year, date.month)
           /\ date.month < 12
           /\ date' = [date EXCEPT !.month = @ + 1, !.day = 1]
  <2>1. m + 1 \in 1 .. 12 /\ date.day = DaysInMonth(y, m)
    BY <1>1, <1>4, <1>7 DEF y, m
  <2>2. date' = [year |-> y, month |-> m + 1, day |-> 1]
    <3> DEFINE e == [date EXCEPT !.month = date.month + 1]
    <3>1. e = [year |-> date.year, month |-> date.month + 1, day |-> date.day]
      BY <1>1
    <3>2. date' = [e EXCEPT !.day = 1]
      BY <1>1, <1>7
    <3>3. date.month + 1 \in 1 .. 12 /\ date.year \in CalendarYears /\ date.day \in 1 .. 31
      BY <1>1, <2>1 DEF y, m
    <3> HIDE DEF e
    <3>4. e \in [year : CalendarYears, month : 1 .. 12, day : 1 .. 31]
      BY <3>1, <3>3
    <3>5. date' = [year |-> e.year, month |-> e.month, day |-> 1]
      BY <3>2, <3>4
    <3>6. e.year = y /\ e.month = m + 1
      BY <3>1 DEF y, m
    <3>7. QED
      BY <3>5, <3>6
  <2>3. date'.year = y /\ date'.month = m + 1 /\ date'.day = 1
    BY <2>2
  <2>4. WalkTypeOK'
    BY <1>1, <2>1, <2>2 DEF WalkTypeOK
  <2>5. Exists(date)'
    <3>1. MonthLength(y, m + 1) \in 28 .. 31
      BY <1>1, <2>1, GregorianMonths, MonthType
    <3>2. QED
      BY <2>3, <3>1 DEF Exists
  <2>6. DaysBeforeMonth(y, m + 1) = MonthStart(y, m) + DaysInMonth(y, m)
    BY <1>1, <2>1, DaysBeforeMonthSum, MonthStartStep
  <2>7. days' = DaysBeforeYear[y] + DaysBeforeMonth(y, m + 1) + (1 - 1)
    BY <1>2, <1>3, <1>4, <1>5, <1>7, <2>1, <2>6
  <2>8. (days = DayNumber(date))'
    BY <2>3, <2>7 DEF DayNumber
  <2>9. QED
    BY <2>4, <2>5, <2>8 DEF WalkInv
<1>8. CASE /\ days' = days + 1
           /\ date.month = 12 /\ date.day = 31
           /\ date.year + 1 \in Walked
           /\ date' = [year |-> date.year + 1, month |-> 1, day |-> 1]
  <2>1. m = 12 /\ date.day = 31 /\ y + 1 \in CalendarYears /\ y + 1 \in Nat
    BY <1>1, <1>8 DEF y, m, CalendarYears
  <2>2. date' = [year |-> y + 1, month |-> 1, day |-> 1]
    BY <1>8 DEF y
  <2>3. date'.year = y + 1 /\ date'.month = 1 /\ date'.day = 1
    BY <2>2
  <2>4. WalkTypeOK'
    BY <2>1, <2>2 DEF WalkTypeOK
  <2>5. Exists(date)'
    BY <2>3 DEF Exists, MonthLength
  <2>6. DaysBeforeMonth(y + 1, 1) = 0
    BY <2>1, DaysBeforeMonthSum, YearOfMonths
  <2>7. DaysBeforeYear[y + 1] = DaysBeforeYear[y] + DaysInYear(y)
    <3>1. DaysBeforeYear[y + 1] = YearStart(y + 1) - YearStart(1970)
      BY <2>1, DaysBeforeYearSum
    <3>2. DaysBeforeYear[y] = YearStart(y) - YearStart(1970)
      BY <1>1, DaysBeforeYearSum
    <3>3. YearStart(y + 1) = YearStart(y) + DaysInYear(y)
      BY <1>1, YearStartStep
    <3>4. YearStart(y) \in Int /\ YearStart(1970) \in Int /\ DaysInYear(y) \in Int
      BY <1>1, YearStartType
    <3>5. QED
      BY <3>1, <3>2, <3>3, <3>4
  <2>8. MonthStart(y, 12) + 31 = DaysInYear(y)
    BY <1>1 DEF MonthStart, DaysInYear
  <2>9. days' = DaysBeforeYear[y + 1] + DaysBeforeMonth(y + 1, 1) + (1 - 1)
    BY <1>2, <1>3, <1>5, <1>8, <2>1, <2>6, <2>7, <2>8
  <2>10. (days = DayNumber(date))'
    BY <2>3, <2>9 DEF DayNumber
  <2>11. QED
    BY <2>4, <2>5, <2>10 DEF WalkInv
<1>9. CASE UNCHANGED vars
  BY <1>9 DEF vars, WalkInv, WalkTypeOK, Exists, DayNumber
<1>10. QED
  BY <1>6, <1>7, <1>8, <1>9 DEF NextDay

LEMMA WalkInvariant == Spec => []WalkInv
BY WalkInit, WalkStep, PTL DEF Spec

-----------------------------------------------------------------------------
(* Theorems *)

LEMMA AtDate ==
  ASSUME WalkInv, NEW c \in Clock
  PROVE  /\ At(c) \in DateTimes
         /\ Exists(At(c))
         /\ datetimeToEpoch(At(c)) = EpochOf(c)
<1>1. c[1] \in 0 .. 23 /\ c[2] \in 0 .. 59 /\ c[3] \in 0 .. 59
  BY CalendarAssumption
<1>2. /\ date.year \in CalendarYears /\ date.month \in 1 .. 12 /\ date.day \in 1 .. 31
      /\ date.day <= MonthLength(date.year, date.month)
      /\ days = DayNumber(date)
  BY DEF WalkInv, WalkTypeOK, Exists
<1>3. At(c) \in DateTimes
  BY <1>1, <1>2 DEF At, DateTimes
<1>4. /\ At(c).year = date.year /\ At(c).month = date.month /\ At(c).day = date.day
      /\ At(c).hour = c[1] /\ At(c).minute = c[2] /\ At(c).second = c[3]
  BY DEF At
<1>5. Exists(At(c))
  BY <1>2, <1>4 DEF Exists
<1>6. datetimeToEpoch(At(c)) = EpochOf(c)
  BY <1>2, <1>4 DEF datetimeToEpoch, EpochOf, DayNumber
<1>7. QED
  BY <1>3, <1>5, <1>6

\* The conversions agree with the calendar on every date that the walk comes to,
\* whichever years are walked.
THEOREM ConversionsCorrect == Spec => []ConversionsAgree
<1>1. WalkInv => ConversionsAgree
  <2> SUFFICES ASSUME WalkInv, NEW c \in Clock
               PROVE  /\ datetimeToEpoch(At(c)) = EpochOf(c)
                      /\ epochToDatetime(EpochOf(c)) = At(c)
    BY DEF ConversionsAgree
  <2>1. At(c) \in DateTimes /\ Exists(At(c)) /\ datetimeToEpoch(At(c)) = EpochOf(c)
    BY AtDate
  <2>2. epochToDatetime(datetimeToEpoch(At(c))) = At(c)
    BY <2>1, DateRoundTrip
  <2>3. QED
    BY <2>1, <2>2
<1>2. QED
  BY <1>1, WalkInvariant, PTL

\* Setting one field of a date that exists moves the time to the date with that
\* field replaced, whether that date exists or not.
LEMMA SetFieldOf ==
  ASSUME NEW d \in DateTimes, Exists(d), NEW field, NEW v
  PROVE  SetField(datetimeToEpoch(d), field, v) = datetimeToEpoch([d EXCEPT ![field] = v])
<1>1. epochToDatetime(datetimeToEpoch(d)) = d
  BY DateRoundTrip
<1>2. QED
  BY <1>1, Zenon DEF SetField

\* A day up to the 28th is there in every month.
LEMMA EveryMonth ==
  ASSUME NEW y \in CalendarYears, NEW m \in 1 .. 12, NEW d \in 1 .. 31, d <= 28
  PROVE  d <= MonthLength(y, m)
<1>1. MonthLength(y, m) \in 28 .. 31
  BY DEF MonthLength
<1>2. QED
  BY <1>1

\* Six fields set one after the other, the largest first, from any date up to
\* the 28th to any date that exists.
LEMMA FieldByField ==
  ASSUME NEW a \in DateTimes, Exists(a), a.day <= 28,
         NEW b \in DateTimes, Exists(b)
  PROVE  LET dateSet == SetField(SetField(SetField(datetimeToEpoch(a), "year", b.year),
                                          "month", b.month), "day", b.day)
         IN SetField(SetField(SetField(dateSet, "hour", b.hour), "minute", b.minute),
                     "second", b.second)
              = datetimeToEpoch(b)
<1> DEFINE
     D0 == DateTime(a.year, a.month, a.day, a.hour, a.minute, a.second)
     D1 == DateTime(b.year, a.month, a.day, a.hour, a.minute, a.second)
     D2 == DateTime(b.year, b.month, a.day, a.hour, a.minute, a.second)
     D3 == DateTime(b.year, b.month, b.day, a.hour, a.minute, a.second)
     D4 == DateTime(b.year, b.month, b.day, b.hour, a.minute, a.second)
     D5 == DateTime(b.year, b.month, b.day, b.hour, b.minute, a.second)
     D6 == DateTime(b.year, b.month, b.day, b.hour, b.minute, b.second)
<1>1. D0 = a /\ D6 = b
  BY DEF DateTime, DateTimes
<1>2. /\ D0 \in DateTimes /\ Exists(D0) /\ D1 \in DateTimes /\ Exists(D1)
      /\ D2 \in DateTimes /\ Exists(D2) /\ D3 \in DateTimes /\ Exists(D3)
      /\ D4 \in DateTimes /\ Exists(D4) /\ D5 \in DateTimes /\ Exists(D5)
  <2>1. D0 \in DateTimes /\ Exists(D0)
    BY <1>1
  <2>2. /\ a.year \in CalendarYears /\ a.month \in 1 .. 12 /\ a.day \in 1 .. 31
        /\ a.hour \in 0 .. 23 /\ a.minute \in 0 .. 59 /\ a.second \in 0 .. 59
        /\ b.year \in CalendarYears /\ b.month \in 1 .. 12 /\ b.day \in 1 .. 31
        /\ b.hour \in 0 .. 23 /\ b.minute \in 0 .. 59 /\ b.second \in 0 .. 59
    BY DEF DateTimes
  <2>3. a.day <= MonthLength(b.year, a.month) /\ a.day <= MonthLength(b.year, b.month)
    BY <2>2, EveryMonth
  <2>4. b.day <= MonthLength(b.year, b.month)
    BY DEF Exists
  <2>5. D1 \in DateTimes /\ Exists(D1)
    BY <2>2, <2>3 DEF DateTime, DateTimes, Exists
  <2>6. D2 \in DateTimes /\ Exists(D2)
    BY <2>2, <2>3 DEF DateTime, DateTimes, Exists
  <2>7. D3 \in DateTimes /\ Exists(D3)
    BY <2>2, <2>4 DEF DateTime, DateTimes, Exists
  <2>8. D4 \in DateTimes /\ Exists(D4)
    BY <2>2, <2>4 DEF DateTime, DateTimes, Exists
  <2>9. D5 \in DateTimes /\ Exists(D5)
    BY <2>2, <2>4 DEF DateTime, DateTimes, Exists
  <2>10. QED
    BY <2>1, <2>5, <2>6, <2>7, <2>8, <2>9
<1>3. SetField(datetimeToEpoch(D0), "year", b.year) = datetimeToEpoch(D1)
  <2>1. D0 \in DateTimes /\ Exists(D0)
    BY <1>2
  <2>2. [D0 EXCEPT !["year"] = b.year] = D1
    BY DEF DateTime
  <2> HIDE DEF D0, D1
  <2>3. QED
    BY <2>1, <2>2, SetFieldOf, Zenon
<1>4. SetField(datetimeToEpoch(D1), "month", b.month) = datetimeToEpoch(D2)
  <2>1. D1 \in DateTimes /\ Exists(D1)
    BY <1>2
  <2>2. [D1 EXCEPT !["month"] = b.month] = D2
    BY DEF DateTime
  <2> HIDE DEF D1, D2
  <2>3. QED
    BY <2>1, <2>2, SetFieldOf, Zenon
<1>5. SetField(datetimeToEpoch(D2), "day", b.day) = datetimeToEpoch(D3)
  <2>1. D2 \in DateTimes /\ Exists(D2)
    BY <1>2
  <2>2. [D2 EXCEPT !["day"] = b.day] = D3
    BY DEF DateTime
  <2> HIDE DEF D2, D3
  <2>3. QED
    BY <2>1, <2>2, SetFieldOf, Zenon
<1>6. SetField(datetimeToEpoch(D3), "hour", b.hour) = datetimeToEpoch(D4)
  <2>1. D3 \in DateTimes /\ Exists(D3)
    BY <1>2
  <2>2. [D3 EXCEPT !["hour"] = b.hour] = D4
    BY DEF DateTime
  <2> HIDE DEF D3, D4
  <2>3. QED
    BY <2>1, <2>2, SetFieldOf, Zenon
<1>7. SetField(datetimeToEpoch(D4), "minute", b.minute) = datetimeToEpoch(D5)
  <2>1. D4 \in DateTimes /\ Exists(D4)
    BY <1>2
  <2>2. [D4 EXCEPT !["minute"] = b.minute] = D5
    BY DEF DateTime
  <2> HIDE DEF D4, D5
  <2>3. QED
    BY <2>1, <2>2, SetFieldOf, Zenon
<1>8. SetField(datetimeToEpoch(D5), "second", b.second) = datetimeToEpoch(D6)
  <2>1. D5 \in DateTimes /\ Exists(D5)
    BY <1>2
  <2>2. [D5 EXCEPT !["second"] = b.second] = D6
    BY DEF DateTime
  <2> HIDE DEF D5, D6
  <2>3. QED
    BY <2>1, <2>2, SetFieldOf, Zenon
<1> HIDE DEF D0, D1, D2, D3, D4, D5, D6
<1>9. QED
  BY <1>1, <1>3, <1>4, <1>5, <1>6, <1>7, <1>8, Zenon

\* Where a date that was set ends up.
Settled(w) ==
  LET excess == w.day - MonthLength(w.year, w.month)
  IN IF Exists(w) THEN w ELSE [w EXCEPT !.month = w.month + 1, !.day = excess]

LEMMA MonthAndDay ==
  ASSUME NEW w \in DateTimes, NEW m, NEW x
  PROVE  [w EXCEPT !.month = m, !.day = x]
           = DateTime(w.year, m, x, w.hour, w.minute, w.second)
<1> DEFINE D == DateTime(w.year, w.month, w.day, w.hour, w.minute, w.second)
           E == DateTime(w.year, m, w.day, w.hour, w.minute, w.second)
<1>1. D = w
  BY DEF DateTime, DateTimes
<1>2. [D EXCEPT !.month = m] = E
  BY DEF DateTime
<1>3. [E EXCEPT !.day = x] = DateTime(w.year, m, x, w.hour, w.minute, w.second)
  BY DEF DateTime
<1> HIDE DEF D, E
<1>4. [w EXCEPT !.month = m, !.day = x] = [[w EXCEPT !.month = m] EXCEPT !.day = x]
  OBVIOUS
<1>5. QED
  BY <1>1, <1>2, <1>3, <1>4, Zenon

\* What the member that sets a field makes of a date.
LEMMA SetterOf ==
  ASSUME NEW d \in DateTimes, Exists(d), NEW field, NEW v, [d EXCEPT ![field] = v] \in DateTimes
  PROVE  epochToDatetime(SetField(datetimeToEpoch(d), field, v)) = Settled([d EXCEPT ![field] = v])
<1> DEFINE w == [d EXCEPT ![field] = v]
           excess == w.day - MonthLength(w.year, w.month)
           e == DateTime(w.year, w.month + 1, excess, w.hour, w.minute, w.second)
<1>1. SetField(datetimeToEpoch(d), field, v) = datetimeToEpoch(w)
  BY SetFieldOf, Zenon
<1>2. w \in DateTimes
  OBVIOUS
<1> HIDE DEF w
<1>3. CASE Exists(w)
  <2>1. epochToDatetime(datetimeToEpoch(w)) = w
    BY <1>2, <1>3, DateRoundTrip
  <2>2. QED
    BY <1>1, <1>3, <2>1, Zenon DEF w, Settled
<1>4. CASE ~Exists(w)
  <2>1. /\ w.month < 12 /\ excess \in 1 .. 3
        /\ datetimeToEpoch(w) = datetimeToEpoch(e)
    BY <1>2, <1>4, DayRunsOver, Zenon
  <2>2. /\ w.year \in CalendarYears /\ w.month \in 1 .. 12
        /\ w.hour \in 0 .. 23 /\ w.minute \in 0 .. 59 /\ w.second \in 0 .. 59
    BY <1>2 DEF DateTimes
  <2>3. e = [w EXCEPT !.month = w.month + 1, !.day = excess]
    BY <1>2, MonthAndDay, Zenon
  <2> HIDE DEF excess
  <2>4. e \in DateTimes
    BY <2>1, <2>2 DEF DateTime, DateTimes
  <2>5. Exists(e)
    <3>1. w.month + 1 \in 1 .. 12
      BY <2>1, <2>2
    <3>2. excess <= MonthLength(w.year, w.month + 1)
      BY <2>1, <2>2, <3>1, EveryMonth
    <3>3. QED
      BY <3>2 DEF Exists, DateTime
  <2>6. epochToDatetime(datetimeToEpoch(e)) = e
    BY <2>4, <2>5, DateRoundTrip
  <2>7. QED
    BY <1>1, <1>4, <2>1, <2>3, <2>6, Zenon DEF w, excess, Settled
<1>5. QED
  BY <1>3, <1>4

\* A date with one field replaced by a value that the member that sets it takes.
LEMMA WantedType ==
  ASSUME NEW d \in DateTimes, NEW field \in DOMAIN Tried, NEW v \in Tried[field]
  PROVE  [d EXCEPT ![field] = v] \in DateTimes
<1>1. field \in {"year", "month", "day", "hour", "minute", "second"}
  BY CalendarAssumption
<1>2. /\ field = "year" => v \in CalendarYears
      /\ field = "month" => v \in 1 .. 12
      /\ field = "day" => v \in 1 .. 31
      /\ field = "hour" => v \in 0 .. 23
      /\ field = "minute" => v \in 0 .. 59
      /\ field = "second" => v \in 0 .. 59
  BY CalendarAssumption DEF CalendarYears
<1>3. QED
  BY <1>1, <1>2 DEF DateTimes

\* From every date of the walk, for every field: the setter keeps the others
\* where the date it makes exists, and where it does not, moves on to the month
\* after by the days that are too many: RTC.cpp 18-107.
THEOREM SettersMove == Spec => []SetterEffect
<1>1. WalkInv => SetterEffect
  <2> SUFFICES ASSUME WalkInv, NEW c \in Clock, NEW field \in DOMAIN Tried, NEW v \in Tried[field]
               PROVE  epochToDatetime(SetField(EpochOf(c), field, v))
                        = Settled([At(c) EXCEPT ![field] = v])
    BY ZenonT(60) DEF SetterEffect, Settled
  <2>1. At(c) \in DateTimes /\ Exists(At(c)) /\ datetimeToEpoch(At(c)) = EpochOf(c)
    BY AtDate
  <2>2. [At(c) EXCEPT ![field] = v] \in DateTimes
    BY <2>1, WantedType, Zenon
  <2>3. QED
    BY <2>1, <2>2, SetterOf, Zenon
<1>2. QED
  BY <1>1, WalkInvariant, PTL

\* From any date that exists to any other: with setDayOfMonth(1) before them, the
\* six setters, the largest field first, reach it.  Without it, SettersMove says
\* where they go astray.
THEOREM FieldsSetOneByOne ==
  ASSUME NEW a \in DateTimes, Exists(a), NEW b \in DateTimes, Exists(b)
  PROVE  LET first == SetField(datetimeToEpoch(a), "day", 1)
             dateSet == SetField(SetField(SetField(first, "year", b.year),
                                          "month", b.month), "day", b.day)
             timeSet == SetField(SetField(SetField(dateSet, "hour", b.hour),
                                          "minute", b.minute), "second", b.second)
         IN epochToDatetime(timeSet) = b
<1> DEFINE f == [a EXCEPT !["day"] = 1]
           dateSet == SetField(SetField(SetField(datetimeToEpoch(f), "year", b.year),
                                        "month", b.month), "day", b.day)
           timeSet == SetField(SetField(SetField(dateSet, "hour", b.hour),
                                        "minute", b.minute), "second", b.second)
<1>1. f \in DateTimes /\ f.day = 1 /\ f.year = a.year /\ f.month = a.month
  BY DEF DateTimes
<1>2. SetField(datetimeToEpoch(a), "day", 1) = datetimeToEpoch(f)
  BY SetFieldOf, Zenon
<1>3. Exists(f)
  <2>1. a.year \in CalendarYears /\ a.month \in 1 .. 12
    BY DEF DateTimes
  <2>2. 1 <= MonthLength(a.year, a.month)
    BY <2>1, EveryMonth
  <2>3. QED
    BY <1>1, <2>2 DEF Exists
<1> HIDE DEF f
<1>4. timeSet = datetimeToEpoch(b)
  <2>1. f.day <= 28
    BY <1>1
  <2>2. QED
    BY <1>1, <1>3, <2>1, FieldByField, Zenon
<1>5. epochToDatetime(timeSet) = b
  BY <1>4, DateRoundTrip, Zenon
<1>6. QED
  BY <1>2, <1>5, Zenon
=============================================================================
