\* Three requests at a time race for a number, a phone or an entry, while the
\* list is paused; a join may belong to today or to yesterday.
CONSTANTS
  Venues = {v1}
  Phones = {p1, p2}
  Workers = {w1, w2, w3}
  Ops = {"called", "seated", "cancelled"}
  MaxId = 2
  MaxTime = 1
  DayLength = 1
  MaxPauses = 1
  Nobody = Nobody
SPECIFICATION Spec
SYMMETRY Symmetry
INVARIANTS TypeOK NoGaps OneActivePerPhone
PROPERTY ImplementsLedger
