\* Three panels save schedules and pause the list at the same time.
CONSTANTS
  DaysInWeek = 2
  TicksPerDay = 3
  Requests = {r1, r2, r3}
  Asked <- Weeks
SPECIFICATION FairSpec
INVARIANTS TypeOK StoredWindowsAreValid
PROPERTIES SettingsStayApart EverySaveEnds
CHECK_DEADLOCK FALSE
