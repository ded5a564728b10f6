-------------------------- MODULE LocalTimeProofs --------------------------
(***************************************************************************)
(* Local time for every hour the clock can show and for any times at which *)
(* rules are evaluated: the week counting of eu_dst() is the European      *)
(* summer, the cached day is the one of the latest evaluation, also if the *)
(* clock is set back, and the orders of a day are executed at their local  *)
(* time.                                                                   *)
(***************************************************************************)
EXTENDS LocalTime, TLAPS

-----------------------------------------------------------------------------
(* The calendar.                                                           *)

LastOfMarch(y) == FirstDay(y) + (IF Leap(y) THEN 90 ELSE 89)

\* The year y is the year b after the leap year 4 * a.
Quarter(y, a, b) == 0 <= b /\ b <= 3 /\ y = 4 * a + b

\* Four years have 1461 days, and 2100 has one less.
LEMMA MarchFacts ==
  ASSUME NEW a \in Int, NEW b \in Int, NEW y \in Int, Quarter(y, a, b)
  PROVE  LastOfMarch(y) = 1461 * a + 365 * b + (IF y < 100 THEN 90 ELSE 89)
  <1>1. y % 4 = b /\ (y + 3) \div 4 = a + (IF b = 0 THEN 0 ELSE 1)
    BY SMT DEF Quarter
  <1>2. LastOfMarch(y) = 365 * y + (a + (IF b = 0 THEN 0 ELSE 1)) - (IF y > 100 THEN 1 ELSE 0)
                           + (IF b = 0 /\ y # 100 THEN 90 ELSE 89)
    BY SMT, <1>1 DEF LastOfMarch, FirstDay, Leap, Quarter
  <1> QED
    BY SMT, <1>2 DEF Quarter

LEMMA QuarterFacts ==
  ASSUME NEW y \in Int
  PROVE  \E a \in Int, b \in Int : Quarter(y, a, b)
  <1>1. y \div 4 \in Int /\ 4 * (y \div 4) <= y /\ y <= 4 * (y \div 4) + 3
    BY SMT
  <1>2. PICK a \in Int : 4 * a <= y /\ y <= 4 * a + 3
    BY <1>1
  <1>3. y - 4 * a \in Int /\ Quarter(y, a, y - 4 * a)
    BY SMT, <1>2 DEF Quarter
  <1> QED
    BY <1>3

\* The Sunday on or before a day.
LEMMA SundayFacts ==
  ASSUME NEW d \in Int
  PROVE  \E q \in Int : Sunday(d) = 7 * q - 6 /\ 7 * q <= d + 6 /\ d < 7 * q + 1
  <1>1. /\ (d + 6) \div 7 \in Int /\ Sunday(d) = 7 * ((d + 6) \div 7) - 6
        /\ 7 * ((d + 6) \div 7) <= d + 6 /\ d < 7 * ((d + 6) \div 7) + 1
    BY SMT DEF Sunday
  <1> QED
    BY <1>1

\* The clocks change at the first hour of a week, counted as eu_dst() does.
Changes(y, d, ws, wa) ==
  /\ Spring(y) = 168 * ws - 182087 /\ 7 * ws <= d + 7587 /\ d + 7580 < 7 * ws
  /\ Autumn(y) = 168 * wa - 182087 /\ 7 * wa <= d + 7801 /\ d + 7794 < 7 * wa

LEMMA ChangeFacts ==
  ASSUME NEW y \in Int, LastOfMarch(y) \in Int
  PROVE  \E ws \in Int, wa \in Int : Changes(y, LastOfMarch(y), ws, wa)
  <1>0. PICK d \in Int : d = LastOfMarch(y)
    OBVIOUS
  <1>1. Spring(y) = 24 * Sunday(d) + 1 /\ Autumn(y) = 24 * Sunday(d + 214) + 1
    <2>1. FirstDay(y) + (IF Leap(y) THEN 304 ELSE 303) = d + 214
      BY SMT, <1>0 DEF LastOfMarch, FirstDay
    <2> QED
      BY <2>1, <1>0 DEF Spring, Autumn, LastOfMarch
  <1>2. PICK q \in Int : Sunday(d) = 7 * q - 6 /\ 7 * q <= d + 6 /\ d < 7 * q + 1
    BY SundayFacts
  <1>3. PICK p \in Int : Sunday(d + 214) = 7 * p - 6 /\ 7 * p <= d + 220 /\ d + 214 < 7 * p + 1
    <2>1. d + 214 \in Int
      OBVIOUS
    <2>2. \E p \in Int : Sunday(d + 214) = 7 * p - 6 /\ 7 * p <= d + 214 + 6 /\ d + 214 < 7 * p + 1
      BY <2>1, SundayFacts
    <2> QED
      BY SMT, <2>2
  <1>4. /\ Spring(y) = 168 * (q + 1083) - 182087 /\ 7 * (q + 1083) <= d + 7587
        /\ d + 7580 < 7 * (q + 1083)
    BY SMT, <1>1, <1>2
  <1>5. /\ Autumn(y) = 168 * (p + 1083) - 182087 /\ 7 * (p + 1083) <= d + 7801
        /\ d + 7794 < 7 * (p + 1083)
    BY SMT, <1>1, <1>3
  <1>6. q + 1083 \in Int /\ p + 1083 \in Int
    OBVIOUS
  <1> QED
    BY <1>0, <1>4, <1>5, <1>6 DEF Changes

-----------------------------------------------------------------------------
(* The weeks of eu_dst().                                                  *)

Week(t) == (t + 182087) \div 168

WeekIsSummer(w) == (w * 28) % 1461 < 856

LEMMA WeekFacts ==
  ASSUME NEW t \in Int
  PROVE  /\ Week(t) \in Int /\ 168 * Week(t) <= t + 182087 /\ t + 182087 < 168 * Week(t) + 168
         /\ \A w \in Int : 168 * w - 182087 <= t <=> w <= Week(t)
  <1>1. Week(t) \in Int /\ 168 * Week(t) <= t + 182087 /\ t + 182087 < 168 * Week(t) + 168
    BY SMT DEF Week
  <1> QED
    BY SMT, <1>1

\* The year k, counted from 1979, has its summer between the weeks ws and wa.
InYear(k, ws, wa) ==
  /\ 1461 * k <= 28 * ws /\ 28 * ws < 1461 * k + 28
  /\ 1461 * k + 856 <= 28 * wa /\ 28 * wa < 1461 * k + 884

LEMMA RemainderFacts ==
  ASSUME NEW x \in Int, NEW k \in Int, 1461 * k <= x, x < 1461 * k + 1461
  PROVE  x % 1461 = x - 1461 * k
  BY SMT

LEMMA PhaseFacts ==
  ASSUME NEW k \in Int, NEW ws \in Int, NEW wa \in Int, InYear(k, ws, wa),
         NEW w \in Int, 1461 * (k - 1) + 856 <= 28 * w, 28 * w < 1461 * (k + 1)
  PROVE  WeekIsSummer(w) <=> ws <= w /\ w < wa
  <1>1. CASE 28 * w < 1461 * k
    <2>1. (28 * w) % 1461 = 28 * w - 1461 * (k - 1)
      BY SMT, <1>1, RemainderFacts
    <2>2. ~ (ws <= w)
      BY SMT, <1>1 DEF InYear
    <2>3. w * 28 = 28 * w
      BY SMT
    <2> QED
      BY SMT, <2>1, <2>2, <2>3, <1>1 DEF WeekIsSummer
  <1>2. CASE 28 * w >= 1461 * k
    <2>1. (28 * w) % 1461 = 28 * w - 1461 * k
      BY SMT, <1>2, RemainderFacts
    <2>2. ws <= w
      BY SMT, <1>2 DEF InYear
    <2>3. w < wa <=> 28 * w < 1461 * k + 856
      BY SMT DEF InYear
    <2>4. w * 28 = 28 * w
      BY SMT
    <2> QED
      BY SMT, <2>1, <2>2, <2>3, <2>4, <1>2 DEF WeekIsSummer
  <1> QED
    BY SMT, <1>1, <1>2

\* The first hours of the next year belong to no summer, either.
LEMMA HoursOfYear ==
  ASSUME NEW y \in Int, NEW t \in Int, 8766 * y <= t, t < 8766 * y + 8790,
         NEW ws \in Int, NEW wa \in Int, InYear(y + 21, ws, wa),
         Spring(y) = 168 * ws - 182087, Autumn(y) = 168 * wa - 182087
  PROVE  WeekIsSummer(Week(t)) <=> Spring(y) <= t /\ t < Autumn(y)
  <1>1. PICK w \in Int : w = Week(t)
    BY WeekFacts
  <1>2. 168 * w <= t + 182087 /\ t + 182087 < 168 * w + 168
    BY <1>1, WeekFacts
  <1>3. 1461 * ((y + 21) - 1) + 856 <= 28 * w /\ 28 * w < 1461 * ((y + 21) + 1)
    BY SMT, <1>2
  <1>4. y + 21 \in Int
    OBVIOUS
  <1>5. WeekIsSummer(w) <=> ws <= w /\ w < wa
    BY <1>3, <1>4, PhaseFacts
  <1>6. (Spring(y) <= t <=> ws <= w) /\ (t < Autumn(y) <=> w < wa)
    BY SMT, <1>2
  <1> QED
    BY <1>1, <1>5, <1>6

-----------------------------------------------------------------------------
(* The summer of eu_dst() is the one of the calendar.                      *)

\* As long as every fourth year is a leap year, weeks tell the season.
LEMMA RegularYear ==
  ASSUME NEW y \in Int, y < 100, NEW t \in Int, 8766 * y <= t, t < 8766 * y + 8790
  PROVE  WeekIsSummer(Week(t)) <=> Spring(y) <= t /\ t < Autumn(y)
  <1>1. PICK a \in Int, b \in Int : Quarter(y, a, b)
    BY SMT, QuarterFacts
  <1>2. PICK d \in Int : d = LastOfMarch(y) /\ d = 1461 * a + 365 * b + 90
    <2>1. LastOfMarch(y) = 1461 * a + 365 * b + 90
      BY SMT, <1>1, MarchFacts
    <2>2. 1461 * a + 365 * b + 90 \in Int
      BY SMT
    <2> QED
      BY <2>1, <2>2
  <1>3. PICK ws \in Int, wa \in Int : Changes(y, d, ws, wa)
    <2>1. LastOfMarch(y) = d
      BY <1>2
    <2>2. LastOfMarch(y) \in Int
      BY <2>1
    <2>3. \E ws \in Int, wa \in Int : Changes(y, LastOfMarch(y), ws, wa)
      BY <2>2, ChangeFacts
    <2> QED
      BY <2>1, <2>3
  <1>4. InYear(y + 21, ws, wa)
    BY SMT, <1>1, <1>2, <1>3 DEF InYear, Changes, Quarter
  <1> QED
    BY SMT, <1>3, <1>4, HoursOfYear DEF Changes

\* Without the leap day of 2100 they do for three years more.
LEMMA CenturyYears ==
  ASSUME NEW y \in Int, 100 <= y, y <= 102, NEW t \in Int, 8766 * y <= t, t < 8766 * y + 8790
  PROVE  WeekIsSummer(Week(t)) <=> Spring(y) <= t /\ t < Autumn(y)
  <1>1. Quarter(y, 25, y - 100) /\ 25 \in Int /\ y - 100 \in Int
    BY SMT DEF Quarter
  <1>2. PICK d \in Int : d = LastOfMarch(y) /\ d = 365 * y + 114
    <2>1. LastOfMarch(y) = 1461 * 25 + 365 * (y - 100) + (IF y < 100 THEN 90 ELSE 89)
      BY SMT, <1>1, MarchFacts
    <2>2. LastOfMarch(y) = 365 * y + 114 /\ 365 * y + 114 \in Int
      BY SMT, <2>1
    <2> QED
      BY <2>2
  <1>3. PICK ws \in Int, wa \in Int : Changes(y, d, ws, wa)
    <2>1. LastOfMarch(y) = d
      BY <1>2
    <2>2. LastOfMarch(y) \in Int
      BY <2>1
    <2>3. \E ws \in Int, wa \in Int : Changes(y, LastOfMarch(y), ws, wa)
      BY <2>2, ChangeFacts
    <2> QED
      BY <2>1, <2>3
  <1>4. InYear(y + 21, ws, wa)
    <2>1. CASE y = 100
      BY SMT, <2>1, <1>2, <1>3 DEF InYear, Changes
    <2>2. CASE y = 101
      BY SMT, <2>2, <1>2, <1>3 DEF InYear, Changes
    <2>3. CASE y = 102
      BY SMT, <2>3, <1>2, <1>3 DEF InYear, Changes
    <2> QED
      BY SMT, <2>1, <2>2, <2>3
  <1> QED
    BY SMT, <1>3, <1>4, HoursOfYear DEF Changes

\* The first weeks of 2103, before the code leaves a leap day out.
LEMMA WinterOfCentury ==
  ASSUME NEW t \in Int, 8766 * 103 <= t, t < 904106
  PROVE  ~ WeekIsSummer(Week(t)) /\ t < Spring(103)
  <1>1. PICK w \in Int : w = Week(t)
    BY SMT, WeekFacts
  <1>2. 168 * w <= t + 182087 /\ t + 182087 < 168 * w + 168
    BY SMT, <1>1, WeekFacts
  <1>3. 1461 * 123 + 856 <= 28 * w /\ 28 * w < 1461 * 123 + 1461
    BY SMT, <1>2
  <1>4. (28 * w) % 1461 = 28 * w - 1461 * 123
    BY SMT, <1>3, RemainderFacts
  <1>5. ~ WeekIsSummer(w)
    <2>1. w * 28 = 28 * w
      BY SMT
    <2> QED
      BY SMT, <2>1, <1>3, <1>4 DEF WeekIsSummer
  <1>6. PICK d \in Int : d = LastOfMarch(103) /\ d = 37709
    <2>1. LastOfMarch(103) = 1461 * 25 + 365 * 3 + (IF 103 < 100 THEN 90 ELSE 89)
      <3>1. Quarter(103, 25, 3)
        BY SMT DEF Quarter
      <3> QED
        BY SMT, <3>1, MarchFacts
    <2>2. LastOfMarch(103) = 37709
      BY SMT, <2>1
    <2> QED
      BY SMT, <2>2
  <1>7. Spring(103) > 904106
    <2>1. PICK ws \in Int, wa \in Int : Changes(103, d, ws, wa)
      BY SMT, <1>6, ChangeFacts
    <2> QED
      BY SMT, <2>1, <1>6 DEF Changes
  <1>8. Spring(103) \in Int
    BY SMT DEF Spring, Sunday, FirstDay
  <1> QED
    BY SMT, <1>1, <1>5, <1>7, <1>8

\* 96 years have 35063 days, whole weeks, if one leap day is left out.
LEMMA ShiftFacts ==
  ASSUME NEW y \in Int, 103 <= y, y < 196
  PROVE  Spring(y) = Spring(y - 96) + 841512 /\ Autumn(y) = Autumn(y - 96) + 841512
  <1>1. PICK a \in Int, b \in Int : Quarter(y, a, b)
    BY QuarterFacts
  <1>2. Quarter(y - 96, a - 24, b) /\ a - 24 \in Int /\ y - 96 \in Int
    BY SMT, <1>1 DEF Quarter
  <1>3. LastOfMarch(y) = 1461 * a + 365 * b + (IF y < 100 THEN 90 ELSE 89)
    BY SMT, <1>1, MarchFacts
  <1>4. LastOfMarch(y - 96) = 1461 * (a - 24) + 365 * b + (IF y - 96 < 100 THEN 90 ELSE 89)
    BY SMT, <1>1, <1>2, MarchFacts
  <1>5. PICK d \in Int : d = LastOfMarch(y - 96) /\ LastOfMarch(y) = d + 35063
    <2>1. /\ 1461 * (a - 24) + 365 * b + 90 \in Int
          /\ LastOfMarch(y - 96) = 1461 * (a - 24) + 365 * b + 90
          /\ LastOfMarch(y) = 1461 * (a - 24) + 365 * b + 90 + 35063
      BY SMT, <1>3, <1>4
    <2> QED
      BY <2>1
  <1>6. PICK ws \in Int, wa \in Int : Changes(y - 96, d, ws, wa)
    BY SMT, <1>2, <1>5, ChangeFacts
  <1>7. PICK e \in Int : e = d + 35063 /\ e = LastOfMarch(y)
    BY SMT, <1>5
  <1>8. PICK vs \in Int, va \in Int : Changes(y, e, vs, va)
    BY <1>7, ChangeFacts
  <1>9. vs = ws + 5009 /\ va = wa + 5009
    BY SMT, <1>6, <1>7, <1>8 DEF Changes
  <1> QED
    BY SMT, <1>6, <1>8, <1>9 DEF Changes

LEMMA YearFacts ==
  ASSUME NEW t \in Int
  PROVE  Year(t) \in Int /\ 8766 * Year(t) <= t /\ t < 8766 * Year(t) + 8766
  BY SMT DEF Year

\* Hours the clock of the program can show, and some more at both ends.
Shown == {t \in Int : -8766 <= t /\ t < 8766 * 138}

LEMMA SummerFacts ==
  ASSUME NEW t \in Shown
  PROVE  eu_dst(t) <=> Summer(t)
  <1>1. t \in Int /\ -8766 <= t /\ t < 8766 * 138
    BY SMT DEF Shown
  <1>2. PICK y \in Int : y = Year(t) /\ 8766 * y <= t /\ t < 8766 * y + 8766
    BY SMT, <1>1, YearFacts
  <1>3. Summer(t) <=> Spring(y) <= t /\ t < Autumn(y)
    BY SMT, <1>2 DEF Summer
  <1>4. CASE t < 904106
    <2>1. eu_dst(t) <=> WeekIsSummer(Week(t))
      BY SMT, <1>1, <1>4 DEF eu_dst, WeekIsSummer, Week
    <2>2. CASE y < 100
      BY SMT, <2>1, <2>2, <1>1, <1>2, <1>3, RegularYear
    <2>3. CASE 100 <= y /\ y <= 102
      BY SMT, <2>1, <2>3, <1>1, <1>2, <1>3, CenturyYears
    <2>4. CASE y > 102
      <3>1. y = 103
        BY SMT, <2>4, <1>1, <1>2, <1>4
      <3>2. ~ WeekIsSummer(Week(t)) /\ t < Spring(103)
        BY SMT, <3>1, <1>1, <1>2, <1>4, WinterOfCentury
      <3>3. Spring(103) \in Int
        BY SMT DEF Spring, Sunday, FirstDay
      <3> QED
        BY SMT, <3>1, <3>2, <3>3, <2>1, <1>1, <1>3
    <2> QED
      BY SMT, <2>2, <2>3, <2>4
  <1>5. CASE t >= 904106
    <2>1. PICK u \in Int : u = t - 841512
      BY SMT, <1>1
    <2>2. eu_dst(t) <=> WeekIsSummer(Week(u))
      BY SMT, <2>1, <1>1, <1>5 DEF eu_dst, WeekIsSummer, Week
    <2>3. y >= 103 /\ y <= 137
      BY SMT, <1>1, <1>2, <1>5
    <2>4. PICK v \in Int : v = y - 96 /\ v < 100 /\ 8766 * v <= u /\ u < 8766 * v + 8790
      BY SMT, <2>1, <2>3, <1>1, <1>2
    <2>5. WeekIsSummer(Week(u)) <=> Spring(v) <= u /\ u < Autumn(v)
      BY SMT, <2>4, RegularYear
    <2>6. Spring(y) = Spring(v) + 841512 /\ Autumn(y) = Autumn(v) + 841512
      BY SMT, <2>3, <2>4, ShiftFacts
    <2>7. Spring(v) \in Int /\ Autumn(v) \in Int
      BY SMT DEF Spring, Autumn, Sunday, FirstDay
    <2> QED
      BY SMT, <2>1, <2>2, <2>5, <2>6, <2>7, <1>1, <1>3
  <1> QED
    BY SMT, <1>1, <1>4, <1>5

-----------------------------------------------------------------------------
(* The clocks change in the first hour of a day counted from one o'clock.  *)

Months(y, k, l) ==
  /\ Spring(y) = 24 * k + 1 /\ 8766 * y + 1900 <= Spring(y)
  /\ Autumn(y) = 24 * l + 1 /\ Autumn(y) <= 8766 * y + 7400
  /\ Spring(y) < Autumn(y)

LEMMA MonthFacts ==
  ASSUME NEW y \in Int
  PROVE  \E k \in Int, l \in Int : Months(y, k, l)
  <1>1. PICK c \in Int : c = (y + 3) \div 4 /\ 4 * c <= y + 3 /\ y <= 4 * c
    BY SMT
  <1>2. PICK f \in Int : f = FirstDay(y) /\ 365 * y + c - 1 <= f /\ f <= 365 * y + c
    <2>1. 365 * y + c - (IF y > 100 THEN 1 ELSE 0) \in Int
      BY SMT
    <2>2. FirstDay(y) = 365 * y + c - (IF y > 100 THEN 1 ELSE 0)
      BY <1>1 DEF FirstDay
    <2> QED
      BY SMT, <2>1, <2>2
  <1>3. PICK l \in {0, 1} : l = IF Leap(y) THEN 1 ELSE 0
    BY SMT
  <1>4. Spring(y) = 24 * Sunday(f + 89 + l) + 1 /\ Autumn(y) = 24 * Sunday(f + 303 + l) + 1
    <2>1. f + (IF Leap(y) THEN 90 ELSE 89) = f + 89 + l /\ f + (IF Leap(y) THEN 304 ELSE 303) = f + 303 + l
      BY SMT, <1>3
    <2> QED
      BY <1>2, <2>1 DEF Spring, Autumn
  <1>5. f + 89 + l \in Int /\ f + 303 + l \in Int
    BY SMT, <1>3
  <1>6. PICK p \in Int : Sunday(f + 89 + l) = 7 * p - 6 /\ 7 * p <= f + 89 + l + 6 /\ f + 89 + l < 7 * p + 1
    BY <1>5, SundayFacts
  <1>7. PICK q \in Int : Sunday(f + 303 + l) = 7 * q - 6 /\ 7 * q <= f + 303 + l + 6 /\ f + 303 + l < 7 * q + 1
    BY <1>5, SundayFacts
  <1>8. 7 * p - 6 \in Int /\ 7 * q - 6 \in Int
    BY SMT
  <1>9. Months(y, 7 * p - 6, 7 * q - 6)
    BY SMT, <1>1, <1>2, <1>3, <1>4, <1>6, <1>7 DEF Months
  <1> QED
    BY <1>8, <1>9

\* It is winter for more than 1000 hours before and after the end of a year.
LEMMA NearFacts ==
  ASSUME NEW y \in Int, NEW t \in Int, 8766 * y - 1000 <= t, t < 8766 * y + 9766
  PROVE  Summer(t) <=> Spring(y) <= t /\ t < Autumn(y)
  <1>1. PICK z \in Int : z = Year(t) /\ 8766 * z <= t /\ t < 8766 * z + 8766
    BY YearFacts
  <1>2. Summer(t) <=> Spring(z) <= t /\ t < Autumn(z)
    BY <1>1 DEF Summer
  <1>3. /\ Spring(y) \in Int /\ 8766 * y + 1900 <= Spring(y)
        /\ Autumn(y) \in Int /\ Autumn(y) <= 8766 * y + 7400
    BY SMT, MonthFacts DEF Months
  <1>4. /\ Spring(z) \in Int /\ 8766 * z + 1900 <= Spring(z)
        /\ Autumn(z) \in Int /\ Autumn(z) <= 8766 * z + 7400
    BY SMT, MonthFacts DEF Months
  <1>5. z = y \/ z = y - 1 \/ z = y + 1
    <2>1. z < y + 2
      BY SMT, <1>1
    <2>2. z > y - 2
      BY SMT, <1>1
    <2> QED
      BY SMT, <2>1, <2>2
  <1>6. CASE z = y
    BY <1>2, <1>6
  <1>7. CASE z = y - 1
    BY SMT, <1>1, <1>2, <1>3, <1>4, <1>7
  <1>8. CASE z = y + 1
    BY SMT, <1>1, <1>2, <1>3, <1>4, <1>8
  <1> QED
    BY <1>5, <1>6, <1>7, <1>8

\* No change falls between two hours of such a day.
LEMMA DayFacts ==
  ASSUME NEW n \in Int, NEW t \in Int, NEW u \in Int,
         24 * n + 1 <= t, t <= 24 * n + 24, 24 * n + 1 <= u, u <= 24 * n + 24
  PROVE  Summer(t) <=> Summer(u)
  <1>1. PICK y \in Int : y = Year(t) /\ 8766 * y <= t /\ t < 8766 * y + 8766
    <2>1. Year(t) \in Int /\ 8766 * Year(t) <= t /\ t < 8766 * Year(t) + 8766
      BY YearFacts
    <2> QED
      BY <2>1
  <1>2. Summer(t) <=> Spring(y) <= t /\ t < Autumn(y)
    BY <1>1 DEF Summer
  <1>3. Summer(u) <=> Spring(y) <= u /\ u < Autumn(y)
    <2>1. 8766 * y - 1000 <= u /\ u < 8766 * y + 9766
      BY SMT, <1>1
    <2> QED
      BY <2>1, NearFacts
  <1>4. PICK k \in Int, l \in Int : Months(y, k, l)
    BY SMT, MonthFacts
  <1> QED
    BY SMT, <1>2, <1>3, <1>4 DEF Months

-----------------------------------------------------------------------------
(* Local time.                                                             *)

Saved(t) == IF Summer(t) THEN 1 ELSE 0

LEMMA SavedFacts ==
  ASSUME NEW t \in Int
  PROVE  /\ Saved(t) \in {0, 1} /\ (Summer(t) <=> Saved(t) = 1)
         /\ LocalHour(t) = t + 1 + Saved(t)
         /\ t \in Shown => Dst(t) = Saved(t)
  <1>1. Saved(t) \in {0, 1} /\ (Summer(t) <=> Saved(t) = 1)
    BY SMT DEF Saved
  <1>2. LocalHour(t) = t + 1 + Saved(t)
    BY SMT, LocalTimeAssumption DEF LocalHour, Saved
  <1>3. ASSUME t \in Shown PROVE Dst(t) = Saved(t)
    BY <1>3, SummerFacts DEF Dst, Saved
  <1> QED
    BY <1>1, <1>2, <1>3

\* Local time never goes back by more than the hour it repeats.
LEMMA LocalHourGrows ==
  ASSUME NEW t \in Int, NEW u \in Int, t <= u
  PROVE  LocalHour(t) \in Int /\ LocalHour(u) \in Int /\ LocalHour(t) <= LocalHour(u)
  <1>1. Saved(t) \in {0, 1} /\ LocalHour(t) = t + 1 + Saved(t)
    BY SavedFacts
  <1>2. Saved(u) \in {0, 1} /\ LocalHour(u) = u + 1 + Saved(u)
    BY SavedFacts
  <1>3. CASE t = u
    BY SMT, <1>1, <1>2, <1>3
  <1>4. CASE t < u
    BY SMT, <1>1, <1>2, <1>4
  <1> QED
    BY SMT, <1>3, <1>4

\* Days the cache can hold.
Days == {n \in Int : 0 <= n /\ 24 * n <= 8766 * 137 + 1}

\* calculateTimestamp() subtracts the hour of summer by the winter time.
LEMMA TimestampFacts ==
  ASSUME NEW n \in Days, NEW hour \in 0 .. 24
  PROVE  \A r \in Int : r = 24 * n + hour - 1 => calculateTimestamp(n, hour) = r - Saved(r)
  <1>1. n \in Int /\ 0 <= n /\ 24 * n <= 8766 * 137 + 1
    BY DEF Days
  <1> SUFFICES ASSUME NEW r \in Int, r = 24 * n + hour - 1
               PROVE  calculateTimestamp(n, hour) = r - Saved(r)
    OBVIOUS
  <1>2. r = n * 24 + hour - UTC_OFFSET
    BY SMT, <1>1, LocalTimeAssumption
  <1>3. r \in Shown
    BY SMT, <1>1, <1>2 DEF Shown
  <1>4. Dst(r) = Saved(r) /\ Saved(r) \in {0, 1}
    BY <1>3, SavedFacts
  <1>5. calculateTimestamp(n, hour) = r - Dst(r)
    BY <1>2 DEF calculateTimestamp
  <1> QED
    BY <1>4, <1>5

\* The end of a day is its last hour's, and no hour of the next.
LEMMA MidnightFacts ==
  ASSUME NEW n \in Days, NEW midnight, midnight = calculateTimestamp(n, 24)
  PROVE  /\ midnight \in Int /\ LocalHour(midnight) = 24 * n + 24
         /\ LocalHour(midnight - 1) = 24 * n + 23
         /\ \A t \in Int : t < midnight <=> LocalHour(t) < 24 * n + 24
  <1>1. n \in Int
    BY DEF Days
  <1>2. PICK s \in {0, 1} : s = Saved(24 * n + 23)
    <2>1. 24 * n + 23 \in Int
      BY SMT, <1>1
    <2> QED
      BY <2>1, SavedFacts
  <1>3. midnight = 24 * n + 23 - s
    <2>1. PICK r \in Int : r = 24 * n + 23 /\ r = 24 * n + 24 - 1
      BY SMT, <1>1
    <2>2. 24 \in 0 .. 24
      BY SMT
    <2>3. midnight = r - Saved(r)
      BY <2>1, <2>2, TimestampFacts
    <2>4. Saved(r) = s
      BY <2>1, <1>2
    <2> QED
      BY SMT, <2>1, <2>3, <2>4, <1>1, <1>2
  <1>4. ASSUME NEW t \in {24 * n + 21, 24 * n + 22, 24 * n + 23}
        PROVE  t \in Int /\ LocalHour(t) = t + 1 + s
    <2>1. t \in Int /\ 24 * n + 23 \in Int
      BY SMT, <1>1
    <2>2. 24 * n + 1 <= t /\ t <= 24 * n + 24 /\ 24 * n + 1 <= 24 * n + 23 /\ 24 * n + 23 <= 24 * n + 24
      BY SMT, <1>1
    <2>3. Summer(t) <=> Summer(24 * n + 23)
      BY <2>1, <2>2, <1>1, DayFacts
    <2>4. LocalHour(t) = t + 1 + Saved(t) /\ Saved(t) = s
      BY <2>1, <2>3, <1>2, SavedFacts DEF Saved
    <2> QED
      BY <2>1, <2>4
  <1>5. /\ midnight \in Int /\ midnight \in {24 * n + 21, 24 * n + 22, 24 * n + 23}
        /\ midnight - 1 \in Int /\ midnight - 1 \in {24 * n + 21, 24 * n + 22, 24 * n + 23}
    BY SMT, <1>1, <1>2, <1>3
  <1>6. LocalHour(midnight) = midnight + 1 + s /\ LocalHour(midnight - 1) = midnight - 1 + 1 + s
    BY <1>4, <1>5
  <1>7. LocalHour(midnight) = 24 * n + 24 /\ LocalHour(midnight - 1) = 24 * n + 23
    BY SMT, <1>1, <1>2, <1>3, <1>6
  <1>8. ASSUME NEW t \in Int PROVE t < midnight <=> LocalHour(t) < 24 * n + 24
    <2>1. CASE t < midnight
      <3>1. t <= midnight - 1
        BY SMT, <2>1, <1>5
      <3>2. LocalHour(t) \in Int /\ LocalHour(t) <= LocalHour(midnight - 1)
        BY <3>1, <1>5, LocalHourGrows
      <3> QED
        BY SMT, <3>2, <2>1, <1>1, <1>7
    <2>2. CASE midnight <= t
      <3>1. LocalHour(t) \in Int /\ LocalHour(midnight) <= LocalHour(t)
        BY <2>2, <1>5, LocalHourGrows
      <3> QED
        BY SMT, <3>1, <2>2, <1>1, <1>5, <1>7
    <2> QED
      BY SMT, <2>1, <2>2, <1>5
  <1> QED
    BY <1>5, <1>7, <1>8

-----------------------------------------------------------------------------
(* The clock.                                                              *)

LEMMA MaxFacts ==
  ASSUME NEW S \in SUBSET Int, NEW m \in S, \A t \in S : t <= m
  PROVE  Max(S) = m
  <1>1. m \in S /\ \A t \in S : m >= t
    BY SMT
  <1>2. \A n \in S : (\A t \in S : n >= t) => n = m
    BY SMT
  <1> QED
    BY <1>1, <1>2 DEF Max

\* Out of at most three times one is the first.
LEMMA MinFacts ==
  ASSUME NEW a \in Int, NEW b \in Int, NEW c \in Int, NEW A \in SUBSET {b, c}
  PROVE  Min({a} \cup A) \in {a} \cup A
  <1> DEFINE S == {a} \cup A
  <1>1. \E m \in S : \A x \in S : m <= x
    <2>1. \A x \in S : x = a \/ x = b \/ x = c
      OBVIOUS
    <2>2. CASE b \in A /\ c \in A
      <3>1. a \in S /\ b \in S /\ c \in S
        BY <2>2
      <3>2. CASE a <= b /\ a <= c
        BY <2>1, <3>1, <3>2
      <3>3. CASE b <= a /\ b <= c
        BY <2>1, <3>1, <3>3
      <3>4. CASE c <= a /\ c <= b
        BY <2>1, <3>1, <3>4
      <3> HIDE DEF S
      <3> QED
        BY SMT, <3>2, <3>3, <3>4
    <2>3. CASE b \in A /\ c \notin A
      <3>1. a \in S /\ b \in S /\ \A x \in S : x = a \/ x = b
        BY <2>1, <2>3
      <3> HIDE DEF S
      <3> QED
        BY SMT, <3>1
    <2>4. CASE b \notin A /\ c \in A
      <3>1. a \in S /\ c \in S /\ \A x \in S : x = a \/ x = c
        BY <2>1, <2>4
      <3> HIDE DEF S
      <3> QED
        BY SMT, <3>1
    <2>5. CASE b \notin A /\ c \notin A
      <3>1. a \in S /\ \A x \in S : x = a
        BY <2>1, <2>5
      <3> HIDE DEF S
      <3> QED
        BY SMT, <3>1
    <2> QED
      BY <2>2, <2>3, <2>4, <2>5
  <1> QED
    BY <1>1 DEF Min

\* Rules are next evaluated at a later time, at the end of next year at last.
LEMMA LaterFacts ==
  ASSUME NEW t \in Int, NEW u \in Later(t)
  PROVE  u \in Int /\ t < u /\ u < 8766 * Year(t) + 2 * 8766
  <1> DEFINE y == Year(t)
             windows == {c - Window : c \in {Spring(y), Autumn(y)}}
             ahead == {w \in windows : t < w}
  <1>1. y \in Int /\ 8766 * y <= t /\ t < 8766 * y + 8766
    BY YearFacts
  <1>2. /\ Spring(y) \in Int /\ Autumn(y) \in Int
        /\ Spring(y) < Autumn(y) /\ Autumn(y) <= 8766 * y + 7400
    <2>1. \E k \in Int, l \in Int : Months(y, k, l)
      BY <1>1, MonthFacts
    <2> HIDE DEF y
    <2> QED
      BY SMT, <2>1, <1>1 DEF Months
  <1>3. Window \in Nat /\ Stride \in Int /\ 1 <= Stride /\ Stride <= 168
    BY SMT, LocalTimeAssumption
  <1>4. ahead \in SUBSET {Spring(y) - Window, Autumn(y) - Window}
    OBVIOUS
  <1>5. ASSUME NEW w \in ahead PROVE w \in Int /\ t < w /\ w < 8766 * y + 2 * 8766
    <2>1. (w = Spring(y) - Window \/ w = Autumn(y) - Window) /\ t < w
      OBVIOUS
    <2> HIDE DEF ahead, y
    <2> QED
      BY SMT, <2>1, <1>1, <1>2, <1>3
  <1>6. PICK a \in Int : a = t + Stride - (t % Stride) /\ t < a /\ a < 8766 * y + 2 * 8766
    <2>1. t % Stride \in Int /\ 0 <= t % Stride /\ t % Stride < Stride
      BY SMT, <1>3
    <2>2. PICK r \in Int : r = t % Stride /\ 0 <= r /\ r < Stride
      BY <2>1
    <2>3. t + Stride - r \in Int /\ t < t + Stride - r /\ t + Stride - r < 8766 * y + 2 * 8766
      <3> HIDE DEF y
      <3> QED
        BY SMT, <2>2, <1>1, <1>3
    <2>4. PICK a \in Int : a = t + Stride - r /\ t < a /\ a < 8766 * y + 2 * 8766
      BY <2>3
    <2>5. a = t + Stride - (t % Stride)
      BY <2>2, <2>4
    <2> QED
      BY <2>4, <2>5
  <1>7. Min({a} \cup ahead) \in {a} \cup ahead
    <2>1. Spring(y) - Window \in Int /\ Autumn(y) - Window \in Int
      BY SMT, <1>2, <1>3
    <2>2. PICK b \in Int, c \in Int : b = Spring(y) - Window /\ c = Autumn(y) - Window
      BY <2>1
    <2>3. ahead \in SUBSET {b, c}
      BY <2>2, <1>4
    <2> HIDE DEF ahead, y
    <2> QED
      BY <2>3, MinFacts
  <1>8. u = t + 1 \/ u \in {a} \cup ahead
    <2>1. u \in {IF \E w \in windows : w <= t /\ t < w + 2 * Window
                 THEN t + 1 ELSE Min({a} \cup ahead)} \cup ahead
      BY <1>6 DEF Later
    <2> HIDE DEF ahead, windows, y
    <2> QED
      BY <2>1, <1>7
  <1> HIDE DEF ahead, y
  <1>9. CASE u = t + 1
    BY SMT, <1>1, <1>9 DEF y
  <1>10. CASE u = a
    BY <1>6, <1>10 DEF y
  <1>11. CASE u \in ahead
    BY <1>5, <1>11 DEF y
  <1> QED
    BY <1>8, <1>9, <1>10, <1>11

Clock ==
  /\ now \in Nat /\ latest \in Nat
  /\ First <= now /\ now <= latest /\ latest < 8766 * 137

\* The time of an evaluation is the latest one, or before it.
Evaluates ==
  /\ getStructTM(now')
  /\ \/ latest' = now' /\ latest <= now'
     \/ latest' = latest /\ now' <= latest

LEMMA ClockKeeps ==
  ASSUME Clock, Next
  PROVE  Clock' /\ Evaluates
  <1>1. CASE Evaluate
    <2>1. Year(now) \in Int /\ Year(now) <= 135
      <3>1. Year(now) \in Int
        BY YearFacts DEF Clock
      <3> QED
        BY SMT, <3>1, <1>1, LocalTimeAssumption DEF Evaluate
    <2>2. now' \in Int /\ now < now' /\ now' < 8766 * Year(now) + 2 * 8766
      <3>1. now \in Int /\ now' \in Later(now)
        BY <1>1 DEF Clock, Evaluate
      <3> QED
        BY <3>1, LaterFacts
    <2>3. latest' = Max({latest, now'}) /\ latest \in Int
      BY <1>1 DEF Evaluate, Clock
    <2>4. \/ latest' = now' /\ latest <= now'
          \/ latest' = latest /\ now' <= latest
      <3>1. {latest, now'} \in SUBSET Int
        BY <2>2, <2>3
      <3>2. CASE latest <= now'
        <4>1. now' \in {latest, now'} /\ \A t \in {latest, now'} : t <= now'
          BY SMT, <2>2, <2>3, <3>2
        <4> QED
          BY <4>1, <3>1, <2>3, <3>2, MaxFacts
      <3>3. CASE now' <= latest
        <4>1. latest \in {latest, now'} /\ \A t \in {latest, now'} : t <= latest
          BY SMT, <2>2, <2>3, <3>3
        <4> QED
          BY <4>1, <3>1, <2>3, <3>3, MaxFacts
      <3> QED
        BY SMT, <2>2, <2>3, <3>2, <3>3
    <2>5. Clock'
      BY SMT, <2>1, <2>2, <2>4 DEF Clock, First
    <2> QED
      BY <2>4, <2>5, <1>1 DEF Evaluate, Evaluates
  <1>2. CASE EvaluateSetBack
    <2>1. PICK back \in Nat : now' = latest - back
      BY <1>2, LocalTimeAssumption DEF EvaluateSetBack
    <2>2. latest' = latest /\ First <= now' /\ getStructTM(now')
      BY <1>2 DEF EvaluateSetBack
    <2>3. now' \in Nat /\ now' <= latest
      BY SMT, <2>1, <2>2 DEF Clock, First
    <2> QED
      BY <2>2, <2>3 DEF Clock, Evaluates
  <1> QED
    BY <1>1, <1>2 DEF Next

LEMMA ClockInvariance == Spec => []Clock
  <1>1. Init => Clock
    BY SMT DEF Init, Clock, First
  <1>2. Clock /\ [Next]_vars => Clock'
    <2> SUFFICES ASSUME Clock, [Next]_vars PROVE Clock'
      OBVIOUS
    <2>1. CASE Next
      BY <2>1, ClockKeeps
    <2>2. CASE UNCHANGED vars
      BY <2>2 DEF vars, Clock
    <2> QED
      BY <2>1, <2>2
  <1> QED
    BY <1>1, <1>2, PTL DEF Spec

\* Daylight saving time is from the last Sunday of March to the last Sunday of
\* October whenever rules are evaluated: the weeks that eu_dst() counts are those
\* of the calendar in every hour the clock can show, also after the year 2100.
THEOREM SummerFollowsTheCalendar == Spec => []SummerIsSummer
  <1>1. Clock => SummerIsSummer
    <2> SUFFICES ASSUME Clock PROVE SummerIsSummer
      OBVIOUS
    <2>1. now \in Shown
      BY SMT DEF Clock, Shown
    <2> QED
      BY <2>1, SummerFacts DEF SummerIsSummer
  <1> QED
    BY <1>1, ClockInvariance, PTL

-----------------------------------------------------------------------------
(* The cached day.                                                         *)

DayTyped == tm \in Nat /\ (nextMidnight = 0 \/ nextMidnight - 24 * tm \in {22, 23})

LEMMA LocaltimeFacts ==
  ASSUME NEW t \in Nat
  PROVE  localtime(t) \div 24 \in Nat
  <1>1. Dst(t) \in {0, 1} /\ UTC_OFFSET = 1
    BY LocalTimeAssumption DEF Dst
  <1>2. localtime(t) \in Nat
    BY SMT, <1>1 DEF localtime
  <1>3. PICK n \in Nat : n = localtime(t)
    BY <1>2
  <1>4. n \div 24 \in Nat
    BY SMT
  <1> QED
    BY <1>3, <1>4

\* The types hold whether the C library knows the time zone or not.
THEOREM TypeCorrect == Spec => []TypeOK
  <1>1. Init => DayTyped
    BY SMT DEF Init, DayTyped
  <1>2. Clock /\ DayTyped /\ [Next]_vars => DayTyped'
    <2> SUFFICES ASSUME Clock, DayTyped, [Next]_vars PROVE DayTyped'
      OBVIOUS
    <2>1. CASE Next
      <3>1. now' \in Nat
        BY <2>1, ClockKeeps DEF Clock
      <3>0. getStructTM(now')
        BY <2>1, ClockKeeps DEF Evaluates
      <3>2. CASE DayIsOver(now')
        <4>1. tm' \in Nat
          <5>1. tm' = localtime(now') \div 24
            BY <3>0, <3>2 DEF getStructTM
          <5> QED
            BY <5>1, <3>1, LocaltimeFacts
        <4>2. PICK r : r = tm' * 24 + 24 - UTC_OFFSET
          OBVIOUS
        <4>3. Dst(r) \in {0, 1}
          BY DEF Dst
        <4>4. nextMidnight' = r - Dst(r)
          BY <3>0, <3>2, <4>2 DEF getStructTM, calculateTimestamp
        <4>5. nextMidnight' - 24 * tm' \in {22, 23}
          BY SMT, <4>1, <4>2, <4>3, <4>4, LocalTimeAssumption
        <4> QED
          BY <4>1, <4>5 DEF DayTyped
      <3>3. CASE ~ DayIsOver(now')
        BY <3>0, <3>3 DEF getStructTM, DayTyped
      <3> QED
        BY <3>2, <3>3
    <2>2. CASE UNCHANGED vars
      BY <2>2 DEF vars, DayTyped
    <2> QED
      BY <2>1, <2>2
  <1>3. Clock /\ DayTyped => TypeOK
    BY DEF Clock, DayTyped, TypeOK
  <1> QED
    BY <1>1, <1>2, <1>3, ClockInvariance, PTL DEF Spec

\* The cache holds a day that the clock can show, and when that day ends.
Cached == Evaluated => tm \in Days /\ nextMidnight = calculateTimestamp(tm, 24)

LEMMA ShownDayFacts ==
  ASSUME NEW t \in Nat, t < 8766 * 137, NEW n, n = localtime(t) \div 24
  PROVE  /\ n \in Days
         /\ 24 * n <= localtime(t) /\ localtime(t) < 24 * n + 24
         /\ localtime(t) \in Int /\ localtime(t) = IF ZoneSet THEN LocalHour(t) ELSE t
  <1>1. t \in Int /\ t \in Shown
    BY SMT DEF Shown
  <1>2. Saved(t) \in {0, 1} /\ LocalHour(t) = t + 1 + Saved(t) /\ Dst(t) = Saved(t)
    BY <1>1, SavedFacts
  <1>3. localtime(t) = IF ZoneSet THEN t + 1 + Saved(t) ELSE t
    BY <1>2, LocalTimeAssumption DEF localtime
  <1>4. PICK h \in Nat : h = localtime(t) /\ h <= 8766 * 137 + 1
    BY SMT, <1>2, <1>3
  <1>5. h \div 24 \in Int /\ 0 <= h \div 24 /\ 24 * (h \div 24) <= h /\ h < 24 * (h \div 24) + 24
    BY SMT
  <1>6. PICK d \in Int : d = n /\ 0 <= d /\ 24 * d <= h /\ h < 24 * d + 24
    BY <1>4, <1>5
  <1>7. n \in Days
    BY SMT, <1>4, <1>6 DEF Days
  <1>8. localtime(t) = IF ZoneSet THEN LocalHour(t) ELSE t
    BY <1>2, <1>3
  <1> QED
    BY <1>4, <1>6, <1>7, <1>8

LEMMA CachedKeeps ==
  ASSUME Clock, Cached, Next
  PROVE  Cached'
  <1>1. now' \in Nat /\ now' < 8766 * 137
    BY SMT, ClockKeeps DEF Clock
  <1>2. getStructTM(now')
    BY ClockKeeps DEF Evaluates
  <1>3. CASE DayIsOver(now')
    <2>1. tm' = localtime(now') \div 24 /\ nextMidnight' = calculateTimestamp(tm', 24)
      BY <1>2, <1>3 DEF getStructTM
    <2>2. tm' \in Days
      BY <1>1, <2>1, ShownDayFacts
    <2> QED
      BY <2>1, <2>2 DEF Cached
  <1>4. CASE ~ DayIsOver(now')
    BY <1>2, <1>4 DEF getStructTM, Cached, Evaluated
  <1> QED
    BY <1>3, <1>4

LEMMA CachedInvariance == Spec => []Cached
  <1>1. Init => Cached
    BY DEF Init, Cached, Evaluated
  <1>2. Clock /\ Cached /\ [Next]_vars => Cached'
    <2> SUFFICES ASSUME Clock, Cached, [Next]_vars PROVE Cached'
      OBVIOUS
    <2>1. CASE Next
      BY <2>1, CachedKeeps
    <2>2. CASE UNCHANGED vars
      BY <2>2 DEF vars, Cached, Evaluated
    <2> QED
      BY <2>1, <2>2
  <1> QED
    BY <1>1, <1>2, ClockInvariance, PTL DEF Spec

\* That day is the one of the latest evaluation, as the C library shows it.  Until
\* there has been one, the clock cannot have been set back.
ShownIn(t, n) == 24 * n <= localtime(t) /\ localtime(t) < 24 * n + 24

Today ==
  /\ Evaluated => ShownIn(latest, tm)
  /\ ~ Evaluated => latest = First

LEMMA LocaltimeGrows ==
  ASSUME NEW t \in Nat, NEW u \in Nat, t <= u, u < 8766 * 137
  PROVE  localtime(t) \in Int /\ localtime(u) \in Int /\ localtime(t) <= localtime(u)
  <1>1. t < 8766 * 137 /\ t \in Int /\ u \in Int
    BY SMT
  <1>2. localtime(t) \in Int /\ localtime(t) = IF ZoneSet THEN LocalHour(t) ELSE t
    BY <1>1, ShownDayFacts
  <1>3. localtime(u) \in Int /\ localtime(u) = IF ZoneSet THEN LocalHour(u) ELSE u
    BY ShownDayFacts
  <1>4. LocalHour(t) <= LocalHour(u)
    BY <1>1, LocalHourGrows
  <1> QED
    BY <1>2, <1>3, <1>4

\* A day that is not over has not been left, with or without a zone.
LEMMA NotOverFacts ==
  ASSUME NEW n \in Days, NEW t \in Nat, t < 8766 * 137, t < calculateTimestamp(n, 24)
  PROVE  localtime(t) < 24 * n + 24
  <1>1. t \in Int /\ n \in Int
    BY DEF Days
  <1>2. localtime(t) \in Int /\ localtime(t) = IF ZoneSet THEN LocalHour(t) ELSE t
    BY ShownDayFacts
  <1>3. LocalHour(t) < 24 * n + 24
    BY <1>1, MidnightFacts
  <1>4. LocalHour(t) = t + 1 + Saved(t) /\ Saved(t) \in {0, 1}
    BY <1>1, SavedFacts
  <1> QED
    BY SMT, <1>1, <1>2, <1>3, <1>4

\* A day that is over has begun.
LEMMA OverFacts ==
  ASSUME NEW n \in Days, NEW t \in Nat, t < 8766 * 137, calculateTimestamp(n, 24) <= t
  PROVE  24 * n <= localtime(t)
  <1>1. t \in Int /\ n \in Int /\ 0 <= n
    BY DEF Days
  <1>2. localtime(t) \in Int /\ localtime(t) = IF ZoneSet THEN LocalHour(t) ELSE t
    BY ShownDayFacts
  <1>3. PICK m \in Int : m = calculateTimestamp(n, 24) /\ LocalHour(m) = 24 * n + 24
    BY MidnightFacts
  <1>4. LocalHour(m) = m + 1 + Saved(m) /\ Saved(m) \in {0, 1}
    BY <1>3, SavedFacts
  <1>5. LocalHour(t) = t + 1 + Saved(t) /\ Saved(t) \in {0, 1}
    BY <1>1, SavedFacts
  <1> QED
    BY SMT, <1>1, <1>2, <1>3, <1>4, <1>5

\* Either a new day is looked up or the cached one is kept; a clock that has been
\* set back looks up no other day than the cached one.
LEMMA TodayKeeps ==
  ASSUME Clock, Cached, Today, Next
  PROVE  Today'
  <1>1. /\ now' \in Nat /\ latest' \in Nat /\ latest \in Nat
        /\ now' <= latest' /\ latest' < 8766 * 137 /\ now' < 8766 * 137 /\ First <= now'
    BY SMT, ClockKeeps DEF Clock, First
  <1>2. getStructTM(now')
    BY ClockKeeps DEF Evaluates
  <1>3. \/ latest' = now' /\ latest <= now'
        \/ latest' = latest /\ now' <= latest
    BY ClockKeeps DEF Evaluates
  <1>4. CASE DayIsOver(now')
    <2>1. tm' = localtime(now') \div 24 /\ nextMidnight' = calculateTimestamp(tm', 24)
      BY <1>2, <1>4 DEF getStructTM
    <2>2. tm' \in Days /\ ShownIn(now', tm')
      BY <1>1, <2>1, ShownDayFacts DEF ShownIn
    <2>3. Evaluated'
      <3>1. nextMidnight' \in Int /\ LocalHour(nextMidnight') = 24 * tm' + 24
        BY <2>1, <2>2, MidnightFacts
      <3>2. LocalHour(nextMidnight') = nextMidnight' + 1 + Saved(nextMidnight')
            /\ Saved(nextMidnight') \in {0, 1}
        BY <3>1, SavedFacts
      <3>3. nextMidnight' # 0
        BY SMT, <3>1, <3>2, <2>2 DEF Days
      <3> QED
        BY <3>3 DEF Evaluated
    <2>4. ShownIn(latest', tm')
      <3>1. CASE latest' = now'
        BY <3>1, <2>2
      <3>2. CASE latest' = latest /\ now' <= latest /\ ~ Evaluated
        <4>1. latest' = now'
          BY SMT, <3>2, <1>1 DEF Today, First
        <4> QED
          BY <4>1, <2>2
      <3>3. CASE latest' = latest /\ now' <= latest /\ Evaluated
        <4>1. tm \in Days /\ calculateTimestamp(tm, 24) <= now' /\ ShownIn(latest, tm)
          BY <3>3, <1>4 DEF Cached, Today, DayIsOver
        <4>2. 24 * tm <= localtime(now')
          BY <4>1, <1>1, OverFacts
        <4>3. /\ localtime(now') \in Int /\ localtime(latest) \in Int
              /\ localtime(now') <= localtime(latest)
          BY <3>3, <1>1, LocaltimeGrows
        <4>4. tm' = tm
          <5>1. PICK h \in Int : h = localtime(now') /\ h <= localtime(latest)
            BY <4>3
          <5>2. PICK m \in Int, n \in Int : m = tm /\ n = tm'
            BY <4>1, <2>2 DEF Days
          <5>3. 24 * m <= h /\ h < 24 * m + 24
            BY SMT, <5>1, <5>2, <4>1, <4>2, <4>3 DEF ShownIn
          <5>4. 24 * n <= h /\ h < 24 * n + 24
            BY <5>1, <5>2, <2>2 DEF ShownIn
          <5>5. m = n
            BY SMT, <5>3, <5>4
          <5> QED
            BY <5>2, <5>5
        <4> QED
          BY <4>1, <4>4, <3>3
      <3> QED
        BY <1>3, <3>1, <3>2, <3>3
    <2> QED
      BY <2>3, <2>4 DEF Today
  <1>5. CASE ~ DayIsOver(now')
    <2>1. tm' = tm /\ nextMidnight' = nextMidnight
      BY <1>2, <1>5 DEF getStructTM
    <2>2. Evaluated
      <3>1. nextMidnight # 0
        BY SMT, <1>1, <1>5 DEF DayIsOver
      <3> QED
        BY <3>1 DEF Evaluated
    <2>3. /\ tm \in Days /\ nextMidnight = calculateTimestamp(tm, 24)
          /\ ShownIn(latest, tm) /\ Evaluated'
      BY <2>1, <2>2 DEF Cached, Today, Evaluated
    <2>4. CASE latest' = latest
      BY <2>1, <2>3, <2>4 DEF Today
    <2>5. CASE latest' = now' /\ latest <= now'
      <3>1. now' < calculateTimestamp(tm, 24)
        <4>1. nextMidnight \in Int
          BY <2>3, MidnightFacts
        <4> QED
          BY SMT, <4>1, <1>1, <1>5, <2>3 DEF DayIsOver
      <3>2. localtime(now') < 24 * tm + 24
        BY <3>1, <2>3, <1>1, NotOverFacts
      <3>3. /\ localtime(latest) \in Int /\ localtime(now') \in Int
            /\ localtime(latest) <= localtime(now')
        BY <2>5, <1>1, LocaltimeGrows
      <3>4. ShownIn(now', tm)
        BY SMT, <3>2, <3>3, <2>3 DEF ShownIn, Days
      <3> QED
        BY <2>1, <2>3, <2>5, <3>4 DEF Today
    <2> QED
      BY <1>3, <2>4, <2>5
  <1> QED
    BY <1>4, <1>5

LEMMA TodayInvariance == Spec => []Today
  <1>1. Init => Today
    BY DEF Init, Today, Evaluated
  <1>2. Clock /\ Cached /\ Today /\ [Next]_vars => Today'
    <2> SUFFICES ASSUME Clock, Cached, Today, [Next]_vars PROVE Today'
      OBVIOUS
    <2>1. CASE Next
      BY <2>1, TodayKeeps
    <2>2. CASE UNCHANGED vars
      BY <2>2 DEF vars, Today, Evaluated
    <2> QED
      BY <2>1, <2>2
  <1> QED
    BY <1>1, <1>2, ClockInvariance, CachedInvariance, PTL DEF Spec

\* The cached day is the local day of the latest evaluation, and it ends where the
\* next one begins, also when the clocks change on it, for any times of evaluation
\* and however far an answer sets the clock back.  Without a zone in the C library,
\* as here, it is the day before in the hour or two by which local time is ahead.
THEOREM CachedDay == Spec => []CachedDayIsLatest
  <1>1. Clock /\ Cached /\ Today => CachedDayIsLatest
    <2> SUFFICES ASSUME Clock, Cached, Today, Evaluated
                 PROVE  LET today == LocalHour(latest) \div 24
                        IN /\ LocalHour(nextMidnight) = 24 * (tm + 1)
                           /\ LocalHour(nextMidnight - 1) \div 24 = tm
                           /\ \/ tm = today /\ latest < nextMidnight
                              \/ /\ ~ ZoneSet
                                 /\ tm = today - 1
                                 /\ LocalHour(latest) % 24 < LocalHour(latest) - latest
      BY DEF CachedDayIsLatest
    <2>1. /\ tm \in Days /\ nextMidnight = calculateTimestamp(tm, 24)
          /\ ShownIn(latest, tm)
      BY DEF Today, Cached
    <2>2. /\ LocalHour(nextMidnight) = 24 * tm + 24 /\ LocalHour(nextMidnight - 1) = 24 * tm + 23
          /\ \A t \in Int : t < nextMidnight <=> LocalHour(t) < 24 * tm + 24
      BY <2>1, MidnightFacts
    <2>3. latest \in Nat /\ latest < 8766 * 137 /\ latest \in Int /\ tm \in Int
      BY <2>1 DEF Clock, Days
    <2>4. PICK n \in Int : n = tm
      BY <2>3
    <2>5. PICK s \in {0, 1} : s = Saved(latest) /\ LocalHour(latest) = latest + 1 + s
      BY <2>3, SavedFacts
    <2>6. PICK h \in Int : h = LocalHour(latest) /\ h = latest + 1 + s
      BY <2>3, <2>5, LocalHourGrows
    <2>7. localtime(latest) = IF ZoneSet THEN h ELSE latest
      <3>1. localtime(latest) = IF ZoneSet THEN LocalHour(latest) ELSE latest
        BY <2>3, ShownDayFacts
      <3> QED
        BY <3>1, <2>6
    <2>8. 24 * n <= h /\ (h < 24 * n + 24 \/ (~ ZoneSet /\ h < 24 * n + 24 + 1 + s))
      BY SMT, <2>1, <2>3, <2>4, <2>6, <2>7 DEF ShownIn
    <2>9. (24 * n + 23) \div 24 = n /\ 24 * n + 24 = 24 * (n + 1)
      BY SMT
    <2>10. CASE h < 24 * n + 24
      <3>1. h \div 24 = n
        BY SMT, <2>8, <2>10
      <3>2. latest < nextMidnight
        <4>1. LocalHour(latest) < 24 * tm + 24
          BY <2>4, <2>6, <2>10
        <4> QED
          BY <4>1, <2>2, <2>3
      <3> QED
        BY <2>2, <2>4, <2>6, <2>9, <3>1, <3>2
    <2>11. CASE ~ (h < 24 * n + 24)
      <3>1. ~ ZoneSet /\ 24 * n + 24 <= h /\ h < 24 * n + 24 + 1 + s
        BY SMT, <2>8, <2>11
      <3>2. h \div 24 = n + 1 /\ h % 24 = h - 24 * n - 24
        BY SMT, <3>1
      <3>3. n = h \div 24 - 1 /\ h % 24 < h - latest
        BY SMT, <3>1, <3>2, <2>3, <2>6
      <3> QED
        BY <2>2, <2>4, <2>6, <2>9, <3>1, <3>3
    <2> QED
      BY <2>10, <2>11
  <1> QED
    BY <1>1, ClockInvariance, CachedInvariance, TodayInvariance, PTL

-----------------------------------------------------------------------------
(* The orders of a day.                                                    *)

\* The times at which the clocks of the country show an hour, within a day.
ShownAt(x) == {t \in (x - 3) .. x : LocalHour(t) = x}

InTime(x, order) ==
  IF ShownAt(x) = {} THEN LocalHour(order) = x - 1 ELSE order = Max(ShownAt(x))

\* The hour x is shown one hour before x in winter, and two before in summer: once,
\* twice when the clocks go back, and not at all when they go forward.
LEMMA ShownFacts ==
  ASSUME NEW x \in Int, NEW t \in Int
  PROVE  t \in ShownAt(x) <=> \/ t = x - 1 /\ Saved(x - 1) = 0
                              \/ t = x - 2 /\ Saved(x - 2) = 1
  <1>1. Saved(t) \in {0, 1} /\ LocalHour(t) = t + 1 + Saved(t)
    BY SavedFacts
  <1>2. t \in ShownAt(x) <=> x - 3 <= t /\ t <= x /\ LocalHour(t) = x
    BY SMT DEF ShownAt
  <1>3. CASE t = x - 1
    BY SMT, <1>1, <1>2, <1>3
  <1>4. CASE t = x - 2
    BY SMT, <1>1, <1>2, <1>4
  <1>5. CASE t # x - 1 /\ t # x - 2
    BY SMT, <1>1, <1>2, <1>5
  <1> QED
    BY <1>3, <1>4, <1>5

LEMMA OrderShown ==
  ASSUME NEW x \in Int, NEW order, order = x - 1 - Saved(x - 1)
  PROVE  InTime(x, order)
  <1>1. PICK r \in Int, q \in Int : r = x - 1 /\ q = x - 2
    BY SMT
  <1>2. Saved(r) \in {0, 1} /\ Saved(q) \in {0, 1} /\ LocalHour(q) = q + 1 + Saved(q)
    BY SavedFacts
  <1>3. \A t \in Int : t \in ShownAt(x) <=> (t = r /\ Saved(r) = 0) \/ (t = q /\ Saved(q) = 1)
    BY <1>1, ShownFacts
  <1>4. ShownAt(x) \in SUBSET Int
    BY SMT DEF ShownAt
  <1>5. CASE Saved(r) = 0
    <2>1. order \in ShownAt(x) /\ \A t \in ShownAt(x) : t <= order
      BY SMT, <1>1, <1>2, <1>3, <1>4, <1>5
    <2> QED
      BY <2>1, <1>4, MaxFacts DEF InTime
  <1>6. CASE Saved(r) = 1 /\ Saved(q) = 1
    <2>1. order \in ShownAt(x) /\ \A t \in ShownAt(x) : t <= order
      BY SMT, <1>1, <1>2, <1>3, <1>4, <1>6
    <2> QED
      BY <2>1, <1>4, MaxFacts DEF InTime
  <1>7. CASE Saved(r) = 1 /\ Saved(q) = 0
    <2>1. ShownAt(x) = {}
      BY SMT, <1>3, <1>4, <1>7
    <2>2. LocalHour(order) = x - 1
      <3>1. order = q
        BY SMT, <1>1, <1>7
      <3> QED
        BY SMT, <3>1, <1>1, <1>2, <1>7
    <2> QED
      BY <2>1, <2>2 DEF InTime
  <1> QED
    BY <1>2, <1>5, <1>6, <1>7

\* All orders of a day are between its midnights.
LEMMA OrderOfDay ==
  ASSUME NEW n \in Days, NEW hour \in 0 .. 23
  PROVE  /\ calculateTimestamp(n, 0) <= calculateTimestamp(n, hour)
         /\ calculateTimestamp(n, hour) < calculateTimestamp(n, 24)
  <1>1. n \in Int
    BY DEF Days
  <1>2. PICK a \in Int, r \in Int, b \in Int :
          a = 24 * n - 1 /\ r = 24 * n + hour - 1 /\ b = 24 * n + 23
    BY SMT, <1>1
  <1>3. /\ calculateTimestamp(n, 0) = a - Saved(a)
        /\ calculateTimestamp(n, hour) = r - Saved(r)
        /\ calculateTimestamp(n, 24) = b - Saved(b)
    <2>1. 0 \in 0 .. 24 /\ hour \in 0 .. 24 /\ 24 \in 0 .. 24
      BY SMT
    <2>2. a = 24 * n + 0 - 1 /\ r = 24 * n + hour - 1 /\ b = 24 * n + 24 - 1
      BY SMT, <1>1, <1>2
    <2> QED
      BY <2>1, <2>2, TimestampFacts
  <1>4. Saved(a) \in {0, 1} /\ Saved(r) \in {0, 1} /\ Saved(b) \in {0, 1}
    BY SavedFacts
  <1>5. a <= r /\ r < b /\ (a = r \/ a < r)
    BY SMT, <1>1, <1>2
  <1>6. a - Saved(a) <= r - Saved(r)
    BY SMT, <1>4, <1>5
  <1>7. r - Saved(r) < b - Saved(b)
    <2>1. CASE r < b - 1
      BY SMT, <2>1, <1>4
    <2>2. CASE r = b - 1
      <3>1. 24 * n + 1 <= r /\ r <= 24 * n + 24 /\ 24 * n + 1 <= b /\ b <= 24 * n + 24
        BY SMT, <2>2, <1>1, <1>2
      <3>2. Summer(r) <=> Summer(b)
        BY <3>1, <1>1, DayFacts
      <3>3. Saved(r) = Saved(b)
        BY <3>2 DEF Saved
      <3> QED
        BY SMT, <3>3, <1>4, <1>5
    <2> QED
      BY SMT, <2>1, <2>2, <1>5
  <1> QED
    BY <1>3, <1>6, <1>7

\* The orders of the cached day are executed when the clocks show their hour, at
\* the second time in autumn, and an hour earlier if they skip it in spring; all of
\* them before the day ends: for any times of evaluation, and whether or not the C
\* library knows the zone, as calculateTimestamp() has its own.
THEOREM OrdersComeInTime == Spec => []OrdersOfTheDay
  <1>1. Cached => OrdersOfTheDay
    <2> SUFFICES ASSUME Cached, Evaluated, NEW hour \in 0 .. 23
                 PROVE  LET order == calculateTimestamp(tm, hour)
                            shown == {t \in (24 * tm + hour - 3) .. (24 * tm + hour) :
                                        LocalHour(t) = 24 * tm + hour}
                        IN /\ IF shown = {} THEN LocalHour(order) = 24 * tm + hour - 1
                                            ELSE order = Max(shown)
                           /\ calculateTimestamp(tm, 0) <= order /\ order < nextMidnight
      BY DEF OrdersOfTheDay
    <2>1. tm \in Days /\ nextMidnight = calculateTimestamp(tm, 24)
      BY DEF Cached
    <2>2. PICK x \in Int : x = 24 * tm + hour
      BY SMT, <2>1 DEF Days
    <2>3. x - 1 \in Int /\ x - 1 = 24 * tm + hour - 1 /\ hour \in 0 .. 24
      BY SMT, <2>1, <2>2 DEF Days
    <2>4. calculateTimestamp(tm, hour) = x - 1 - Saved(x - 1)
      BY <2>1, <2>3, TimestampFacts
    <2>5. InTime(x, calculateTimestamp(tm, hour))
      BY <2>4, OrderShown
    <2>6. /\ calculateTimestamp(tm, 0) <= calculateTimestamp(tm, hour)
          /\ calculateTimestamp(tm, hour) < nextMidnight
      BY <2>1, OrderOfDay
    <2>7. InTime(24 * tm + hour, calculateTimestamp(tm, hour))
      BY <2>2, <2>5
    <2>8. {t \in (24 * tm + hour - 3) .. (24 * tm + hour) : LocalHour(t) = 24 * tm + hour}
            = ShownAt(24 * tm + hour)
      <3>1. 24 * tm + hour - 3 = (24 * tm + hour) - 3
        BY SMT, <2>1 DEF Days
      <3> QED
        BY <3>1 DEF ShownAt
    <2>9. 24 * tm + hour - 1 = (24 * tm + hour) - 1
      BY SMT, <2>1 DEF Days
    <2> QED
      BY <2>6, <2>7, <2>8, <2>9 DEF InTime
  <1> QED
    BY <1>1, CachedInvariance, PTL
=============================================================================
