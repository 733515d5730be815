\* The loser of two joins with one phone, while the winner's entry ends.
CONSTANTS
  Venues = {v1}
  Phones = {p1}
  Workers = {w1, w2, w3}
  Ops = {"cancelled"}
  MaxId = 2
  MaxTime = 1
  DayLength = 1
  MaxPauses = 0
  Nobody = Nobody
SPECIFICATION Spec
SYMMETRY Symmetry
INVARIANT LoserGetsTheWinner
