\* What the panel and the diners read after every sequence of operations on
\* three entries.
CONSTANTS
  Venues = {v1}
  Phones = {p1, p2, p3}
  Ids = {1, 2, 3}
  Dates = {0, 1}
  Times = {1, 2}
  MinutesPerPosition = 4
  HoldMinutes = 0
  MaxLag = 1
SPECIFICATION ViewSpec
SYMMETRY Symmetry
INVARIANTS
  ViewTypeOK EveryTicketIsAccountedFor LookupFindsTheMostRecent
PROPERTIES NobodyIsOvertaken HoldStaysExpired
CHECK_DEADLOCK FALSE
