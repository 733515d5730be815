\* Every schedule of a week of three days of four ticks, over four days.
CONSTANTS
  DaysInWeek = 3
  TicksPerDay = 4
  Horizon = 4
SPECIFICATION ClockSpec
INVARIANTS OpenWhileAWindowHolds AnnouncedHourIsTrue OpenListHasAServiceDate
PROPERTY NumberingRestartsWithAWindow
