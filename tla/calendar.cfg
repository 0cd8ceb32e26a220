SPECIFICATION CalendarSpec
CONSTANTS
  Day = 8
  Zones <- MCZones
  Expressions = {{1}, {0, 2, 3}}
  Windows <- MCWindows
  MaxGap = 2
  LastInstant = 32
  MaxTime = 26
INVARIANT DueIsTheWallClock
INVARIANT BudgetDayIsTheLocalDay
INVARIANT QuietHoursGoRound
