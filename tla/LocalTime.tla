----------------------------- MODULE LocalTime -----------------------------
(***************************************************************************)
(* Local time of timestamp.h: European daylight saving time, the times at  *)
(* which the orders of a day are executed, and the cached day.             *)
(*                                                                         *)
(* Time is counted in hours since 2000-01-01 00:00 UTC: all numbers of the *)
(* code are whole hours, and minutes are carried through unchanged.        *)
(***************************************************************************)
EXTENDS Integers, FiniteSetsExt

CONSTANTS UTC_OFFSET,  \* hours (1)
          ZoneSet,     \* the C library knows the time zone (set_zone, set_dst)
          LastYear,    \* bound: years since 2000
          SetBacks,    \* hours by which SNTP may set the clock back
          Window,      \* hours around a change of the clocks that are all visited
          Stride       \* at other times each multiple of it is visited

ASSUME LocalTimeAssumption ==
  /\ UTC_OFFSET = 1 /\ ZoneSet \in BOOLEAN
  /\ SetBacks \subseteq Nat
  /\ LastYear \in 1 .. 135 /\ Window \in Nat /\ Stride \in 1 .. 168

VARIABLES now,
          tm,           \* cached day, counted from 2000-01-01
          nextMidnight, \* _nextMidnight
          latest        \* history: latest time the rules were evaluated at

vars == <<now, tm, nextMidnight, latest>>

-----------------------------------------------------------------------------
(* timestamp.h                                                             *)

\* The year 2100 is taken for a leap year.
MutantDst(t) == (((t + 182087) \div 168) * 28) % 1461 < 856

\* A year has 1461 / 28 weeks, but for 2100: 194 * 2^24 seconds are 904106 hours,
\* less a bit, and 2100 is left out with 3029443200 seconds.
eu_dst(t) ==
  LET u == IF t >= 904106 THEN t - 841512 ELSE t
  IN (((u + 182087) \div 168) * 28) % 1461 < 856

Dst(t) == IF eu_dst(t) THEN 1 ELSE 0

\* Whether it is summer is asked for the time without its offset.
MutantTimestamp(day, hour) == day * 24 + hour - UTC_OFFSET - Dst(day * 24 + hour)

\* The offset is added.
MutantOffset(day, hour) == day * 24 + hour + UTC_OFFSET

calculateTimestamp(day, hour) ==
  LET retVal == day * 24 + hour - UTC_OFFSET IN retVal - Dst(retVal)

\* localtime_r of the C library.
localtime(t) == IF ZoneSet THEN t + UTC_OFFSET + Dst(t) ELSE t

\* The day is cached for good.
MutantDayIsOver(t) == nextMidnight = 0

DayIsOver(t) == t >= nextMidnight

getStructTM(t) ==
  /\ tm' = IF DayIsOver(t) THEN localtime(t) \div 24 ELSE tm
  /\ nextMidnight' = IF DayIsOver(t) THEN calculateTimestamp(tm', 24) ELSE nextMidnight

-----------------------------------------------------------------------------
(* The calendar, and the change of the clocks: the last Sundays of March   *)
(* and October, one o'clock UTC.  2000-01-01 was a Saturday.               *)

Leap(year) == year % 4 = 0 /\ year # 100
FirstDay(year) == 365 * year + (year + 3) \div 4 - (IF year > 100 THEN 1 ELSE 0)
Sunday(day) == day - ((day + 6) % 7)

Spring(year) == 24 * Sunday(FirstDay(year) + (IF Leap(year) THEN 90 ELSE 89)) + 1
Autumn(year) == 24 * Sunday(FirstDay(year) + (IF Leap(year) THEN 304 ELSE 303)) + 1

\* Right but for some hours at the ends of a year.
Year(t) == t \div 8766

Summer(t) == Spring(Year(t)) <= t /\ t < Autumn(Year(t))

-----------------------------------------------------------------------------

\* The rules with times of a day wait for the clock to be set, to some time not on
\* the first day it can show.
First == 36

Init ==
  /\ now = First /\ latest = First
  /\ tm = 0 /\ nextMidnight = 0

\* Rules are evaluated every hour around a change of the clocks, and from time to
\* time else; or not until the next such change.
Later(t) ==
  LET windows == {c - Window : c \in {Spring(Year(t)), Autumn(Year(t))}}
      ahead   == {w \in windows : t < w}
      step    == IF \E w \in windows : w <= t /\ t < w + 2 * Window
                 THEN t + 1 ELSE Min({t + Stride - (t % Stride)} \cup ahead)
  IN {step} \cup ahead

Evaluate ==
  /\ Year(now) <= LastYear
  /\ now' \in Later(now)
  /\ latest' = Max({latest, now'})
  /\ getStructTM(now')

\* An answer has set the clock back (set_system_time) before the rules are evaluated.
EvaluateSetBack ==
  /\ now' \in {latest - back : back \in SetBacks}
  /\ now' >= First
  /\ UNCHANGED latest
  /\ getStructTM(now')

Next == Evaluate \/ EvaluateSetBack

Spec == Init /\ [][Next]_vars

-----------------------------------------------------------------------------

TypeOK ==
  /\ now \in Nat /\ tm \in Nat
  /\ latest \in Nat /\ now <= latest
  /\ nextMidnight = 0 \/ nextMidnight - 24 * tm \in {22, 23}

\* Daylight saving time is from the last Sunday of March to the last Sunday of
\* October, in each year the clock can show, the one without a leap day, too.
SummerIsSummer == eu_dst(now) <=> Summer(now)

LocalHour(t) == t + UTC_OFFSET + (IF Summer(t) THEN 1 ELSE 0)

Evaluated == nextMidnight # 0

\* The cached day is the local day of the latest evaluation, and it ends where the
\* next local day begins, also on the days with 23 and 25 hours.  In the first hour
\* or two of a day it is the one before if the C library has no time zone, as in
\* this repository: then it is over, and is looked up again in each round.  A clock
\* that has been set back to an earlier day leaves it as it is.
CachedDayIsLatest ==
  Evaluated =>
    LET today == LocalHour(latest) \div 24
    IN /\ LocalHour(nextMidnight) = 24 * (tm + 1)
       /\ LocalHour(nextMidnight - 1) \div 24 = tm
       /\ \/ tm = today /\ latest < nextMidnight
          \/ /\ ~ ZoneSet
             /\ tm = today - 1 /\ LocalHour(latest) % 24 < LocalHour(latest) - latest

\* "Orders scheduled in the lost hour in spring are executed one hour early", "in
\* the repeated hour in autumn are executed only one time after the time shift",
\* all others when the local time is theirs; and all while their day is cached.
OrdersOfTheDay ==
  Evaluated => \A hour \in 0 .. 23 :
    LET order == calculateTimestamp(tm, hour)
        shown == {t \in (24 * tm + hour - 3) .. (24 * tm + hour) : LocalHour(t) = 24 * tm + hour}
    IN /\ IF shown = {} THEN LocalHour(order) = 24 * tm + hour - 1 ELSE order = Max(shown)
       /\ calculateTimestamp(tm, 0) <= order /\ order < nextMidnight
=============================================================================
