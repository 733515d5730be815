\* An address joins lists and logs in to two accounts, over more than two
\* windows; the table is purged from the third key on.
CONSTANTS
  Clients = {i1}
  Accounts = {a1, a2}
  Routes = {"login", "join"}
  RouteLimit <- Limits
  AccountLimit = 2
  Window = 3
  Second = 2
  PurgeThreshold = 1
  LastReading = 8
SPECIFICATION LimiterSpec
SYMMETRY Symmetry
INVARIANTS NeverMoreThanTheLimit RetryAfterIsTrue TableHoldsWhoIsActive
CHECK_DEADLOCK FALSE
