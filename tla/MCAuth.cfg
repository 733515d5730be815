\* Two tablets log in, call and log out while an administrator may close the
\* account.
CONSTANTS
  Users = {u1}
  Logins = {l1, l2}
  Calls = {c1, c2}
  Logouts = {o1}
  TouchInterval = 1
  MaxTime = 2
SPECIFICATION FairSpec
INVARIANTS TypeOK LoginLeavesBothOrNeither
PROPERTIES LoggedOutStaysOut ClosedAccountStaysClosed EveryRequestEnds
CHECK_DEADLOCK FALSE
