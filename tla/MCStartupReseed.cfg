\* One container that is restarted once.
CONSTANTS
  Containers = {c1}
  DemoVenues <- TwoVenues
  MaxCrashes = 1
SPECIFICATION Spec
PROPERTY SavedWeekIsKept
CHECK_DEADLOCK FALSE
