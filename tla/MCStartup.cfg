\* Two containers start together; one of them is killed twice, or each once.
CONSTANTS
  Containers = {c1, c2}
  DemoVenues <- TwoVenues
  MaxCrashes = 2
SPECIFICATION FairSpec
INVARIANTS ServesOnlyWhenReady
PROPERTIES NoStartSeedsAgain EveryContainerServes
CHECK_DEADLOCK FALSE
