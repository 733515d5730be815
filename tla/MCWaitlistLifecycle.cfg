\* Two entries with one phone from their joins to their ends, two requests at a
\* time, the clock moving.
CONSTANTS
  Venues = {v1}
  Phones = {p1}
  Workers = {w1, w2}
  Ops = {"called", "no_show", "on_the_way"}
  MaxId = 2
  MaxTime = 2
  DayLength = 2
  MaxPauses = 0
  Nobody = Nobody
SPECIFICATION FairSpec
INVARIANT HistoryIsAWalk
PROPERTIES NoLostColumn EveryRequestEnds
