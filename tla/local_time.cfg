\* 136 years, every hour of the days around each change of the clocks, and a clock set
\* back by an answer; nothing in the repository sets the zone of the C library.
CONSTANTS
  UTC_OFFSET = 1
  ZoneSet = FALSE
  LastYear = 135
  SetBacks = {3}
  Window = 50
  Stride = 100
SPECIFICATION Spec
INVARIANTS TypeOK SummerIsSummer CachedDayIsLatest OrdersOfTheDay
CHECK_DEADLOCK FALSE
