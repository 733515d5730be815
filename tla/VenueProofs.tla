----------------------------- MODULE VenueProofs -----------------------------
(***************************************************************************)
(* What holds of a venue for any number of panels, any schedules and weeks *)
(* and days of any length: the settings that hosts save at the same time,  *)
(* and what the schedule answers at each moment.                           *)
(***************************************************************************)
EXTENDS VenueClock, VenueSettings, WellFoundedInduction, TLAPS

-----------------------------------------------------------------------------
(* Least elements. *)

\* Min and Max are chosen by a property; these lemmas say that they have it.
LEMMA LeastNat ==
  ASSUME NEW T, T \subseteq Nat, T # {}
  PROVE  Min(T) \in T /\ \A n \in T : Min(T) <= n
<1> DEFINE less == {p \in Nat \X Nat : p[1] < p[2]}
<1>1. IsWellFoundedOn(less, Nat)
  BY NatLessThanWellFounded DEF OpToRel
<1> HIDE DEF less
<1>2. \E n \in T : \A m \in T : ~(<<m, n>> \in less)
  BY <1>1, WFMin
<1>3. \A m, n \in Nat : ~(<<m, n>> \in less) => n <= m
  <2> TAKE m, n \in Nat
  <2>1. <<m, n>> \in Nat \X Nat /\ <<m, n>>[1] = m /\ <<m, n>>[2] = n
    OBVIOUS
  <2> QED
    BY <2>1 DEF less
<1>4. \E n \in T : \A m \in T : n <= m
  BY <1>2, <1>3
<1> QED
  BY <1>4 DEF Min

LEMMA GreatestInt ==
  ASSUME NEW T, T \subseteq Int, T # {}, NEW b \in Int, \A n \in T : n <= b
  PROVE  Max(T) \in T /\ \A n \in T : n <= Max(T)
<1> DEFINE U == {b - n : n \in T}
<1>1. U \subseteq Nat /\ U # {}
  <2>1. \A n \in T : b - n \in Nat
    OBVIOUS
  <2> QED
    BY <2>1
<1>2. Min(U) \in U /\ \A k \in U : Min(U) <= k
  <2> HIDE DEF U
  <2> QED
    BY <1>1, LeastNat
<1>3. PICK m \in T : Min(U) = b - m
  BY <1>2
<1>4. \A n \in T : b - n \in U
  OBVIOUS
<1> HIDE DEF U
<1>5. \A n \in T : n <= m
  <2> SUFFICES ASSUME NEW n \in T PROVE n <= m
    OBVIOUS
  <2>1. b - m <= b - n
    BY <1>2, <1>3, <1>4
  <2>2. n \in Int /\ m \in Int
    OBVIOUS
  <2> QED
    BY <2>1, <2>2
<1> QED
  BY <1>5 DEF Max

-----------------------------------------------------------------------------
(* The settings: the inductive invariant. *)

Row == [isOpen : BOOLEAN, start : Hours, end : Hours]

\* Every snapshot is of a venue that was stored; every row an open transaction
\* has written passed the CHECK of the table.
Requested ==
  /\ seen \in [Requests -> Venue]
  /\ DOMAIN wrote = Requests
  /\ \A r \in Requests : \A d \in DOMAIN wrote[r] : wrote[r][d] \in Windows

\* A request changes its own part of the entity only: a schedule leaves the
\* pause as the snapshot had it, a pause leaves every window and writes no row.
OwnPart ==
  \A r \in Requests :
    /\ pc[r] = "save" => op[r] # "none"
    /\ op[r] = "schedule" => entity[r].paused = seen[r].paused
    /\ op[r] # "schedule" => entity[r].windows = seen[r].windows /\ wrote[r] = NoRows

SettingsInv == TypeOK /\ StoredWindowsAreValid /\ Requested /\ OwnPart

LEMMA RowsAndWindows ==
  /\ \A w : w \in Windows <=> w \in Row /\ ValidWindow(w)
  /\ DOMAIN NoRows = {}
BY DEF Row, Windows, NoRows

LEMMA StoredSchedule ==
  ASSUME SettingsInv
  PROVE  schedule \in [Weekdays -> Windows] /\ Snapshot \in Venue
<1>1. schedule \in [Weekdays -> Windows]
  BY RowsAndWindows DEF SettingsInv, TypeOK, StoredWindowsAreValid, Row
<1> QED
  BY <1>1 DEF Snapshot, Venue, SettingsInv, TypeOK

LEMMA SettingsStart ==
  ASSUME Init
  PROVE  SettingsInv
<1> USE DEF Init
<1>1. schedule \in [Weekdays -> Windows]
  BY SettingsAssumption
<1>2. [paused |-> FALSE, windows |-> schedule] \in Venue
  BY <1>1 DEF Venue
<1>3. schedule \in [Weekdays -> Row] /\ StoredWindowsAreValid
  BY <1>1, RowsAndWindows DEF StoredWindowsAreValid
<1>4. TypeOK
  BY <1>2, <1>3, RowsAndWindows DEF TypeOK, Row
<1>5. Requested
  BY <1>2, RowsAndWindows DEF Requested
<1>6. OwnPart
  BY DEF OwnPart
<1> QED
  BY <1>3, <1>4, <1>5, <1>6 DEF SettingsInv

LEMMA SetPausedKeepsInv ==
  ASSUME SettingsInv, NEW r \in Requests, NEW value \in BOOLEAN, SetPaused(r, value)
  PROVE  SettingsInv'
<1> USE DEF SettingsInv, SetPaused
<1>1. Snapshot \in Venue /\ [Snapshot EXCEPT !.paused = value] \in Venue
      /\ [Snapshot EXCEPT !.paused = value].windows = Snapshot.windows
  BY StoredSchedule DEF Venue
<1>2. wrote[r] = NoRows
  BY DEF TypeOK
<1>3. TypeOK'
  BY <1>1, <1>2 DEF TypeOK
<1>4. StoredWindowsAreValid'
  BY DEF StoredWindowsAreValid
<1>5. Requested'
  BY <1>1 DEF Requested
<1>6. OwnPart'
  BY <1>1, <1>2 DEF OwnPart, TypeOK, Requested
<1> QED
  BY <1>3, <1>4, <1>5, <1>6

LEMMA UpdateScheduleKeepsInv ==
  ASSUME SettingsInv, NEW r \in Requests, NEW week \in Asked, UpdateSchedule(r, week)
  PROVE  SettingsInv'
<1> USE DEF SettingsInv, UpdateSchedule
<1>1. Snapshot \in Venue /\ [Snapshot EXCEPT !.windows = week] \in Venue
      /\ [Snapshot EXCEPT !.windows = week].paused = Snapshot.paused
  BY StoredSchedule, SettingsAssumption DEF Venue
<1>2. TypeOK'
  BY <1>1 DEF TypeOK
<1>3. StoredWindowsAreValid'
  BY DEF StoredWindowsAreValid
<1>4. Requested'
  BY <1>1 DEF Requested
<1>5. OwnPart'
  BY <1>1 DEF OwnPart, TypeOK, Requested
<1> QED
  BY <1>2, <1>3, <1>4, <1>5

\* The row that is updated next is one that the request changes.
LEMMA NextRowIsPending ==
  ASSUME SettingsInv, NEW r \in Requests, NEW d \in NextRow(r)
  PROVE  d \in Weekdays /\ d \in Pending(r)
<1>1. Pending(r) \subseteq Nat
  BY ScheduleAssumption DEF Pending, Weekdays
<1>2. Pending(r) # {} /\ d = Min(Pending(r))
  BY DEF NextRow
<1>3. d \in Pending(r)
  BY <1>1, <1>2, LeastNat
<1> QED
  BY <1>3 DEF Pending

\* What an UPDATE leaves is a row, whoever wrote the columns it keeps.
LEMMA NewRowIsRow ==
  ASSUME SettingsInv, NEW r \in Requests, NEW d \in Weekdays
  PROVE  NewRow(r, d) \in Row
<1>1. /\ schedule[d] \in Row /\ entity[r].windows[d] \in Row /\ seen[r].windows[d] \in Row
  BY StoredSchedule, RowsAndWindows DEF SettingsInv, TypeOK, Requested, Venue
<1>2. ASSUME NEW old \in Row, NEW new \in Row, NEW current \in Row
      PROVE  DirtyColumns(old, new, current) \in Row
  BY DEF DirtyColumns, Row
<1> QED
  BY <1>1, <1>2 DEF NewRow

LEMMA UpdateRowKeepsInv ==
  ASSUME SettingsInv, NEW r \in Requests, UpdateRow(r)
  PROVE  SettingsInv'
<1> USE DEF SettingsInv
<1>0. PICK d \in NextRow(r) :
        /\ pc[r] = "save" /\ ValidWindow(NewRow(r, d))
        /\ wrote' = [wrote EXCEPT ![r] = [x \in DOMAIN @ \cup {d} |->
                                            IF x = d THEN NewRow(r, d) ELSE @[x]]]
        /\ UNCHANGED <<schedule, paused, pc, op, entity, seen>>
  BY DEF UpdateRow
<1>1. d \in Weekdays /\ d \in Pending(r)
  BY NextRowIsPending
<1>2. NewRow(r, d) \in Windows
  BY <1>0, <1>1, NewRowIsRow, RowsAndWindows
<1>3. op[r] = "schedule"
  BY <1>1 DEF OwnPart, Pending
<1> DEFINE row == NewRow(r, d)
<1>4. /\ wrote' = [wrote EXCEPT ![r] = [x \in DOMAIN wrote[r] \cup {d} |->
                                          IF x = d THEN row ELSE wrote[r][x]]]
      /\ row \in Windows
  BY <1>0, <1>2 DEF Requested
<1> HIDE DEF row
<1>5. /\ DOMAIN wrote' = Requests
      /\ DOMAIN wrote'[r] = DOMAIN wrote[r] \cup {d}
      /\ \A x \in DOMAIN wrote'[r] : wrote'[r][x] = IF x = d THEN row ELSE wrote[r][x]
      /\ \A s \in Requests : s # r => wrote'[s] = wrote[s]
  BY <1>4 DEF Requested
<1>6. TypeOK'
  BY <1>0, <1>1, <1>5 DEF TypeOK
<1>7. StoredWindowsAreValid'
  BY <1>0 DEF StoredWindowsAreValid
<1>8. Requested'
  BY <1>0, <1>4, <1>5 DEF Requested
<1>9. OwnPart'
  BY <1>0, <1>3, <1>5 DEF OwnPart
<1> QED
  BY <1>6, <1>7, <1>8, <1>9

\* A request that fails takes its rows back.
LEMMA FailureKeepsInv ==
  ASSUME SettingsInv, NEW r \in Requests, RefuseRow(r) \/ Abort(r)
  PROVE  SettingsInv'
<1> USE DEF SettingsInv
<1>0. /\ pc' = [pc EXCEPT ![r] = "error"]
      /\ wrote' = [wrote EXCEPT ![r] = NoRows]
      /\ UNCHANGED <<schedule, paused, op, entity, seen>>
  BY DEF RefuseRow, Abort
<1>1. TypeOK'
  BY <1>0, RowsAndWindows DEF TypeOK, Requested
<1>2. StoredWindowsAreValid'
  BY <1>0 DEF StoredWindowsAreValid
<1>3. Requested'
  BY <1>0, RowsAndWindows DEF Requested
<1>4. OwnPart'
  BY <1>0 DEF OwnPart, TypeOK, Requested
<1> QED
  BY <1>1, <1>2, <1>3, <1>4

LEMMA CommitKeepsInv ==
  ASSUME SettingsInv, NEW r \in Requests, Commit(r)
  PROVE  SettingsInv'
<1> USE DEF SettingsInv, Commit
<1>1. schedule' \in [Weekdays -> Windows]
  BY StoredSchedule DEF Requested
<1>2. paused' \in BOOLEAN
  <2>1. entity[r].paused \in BOOLEAN
    BY DEF TypeOK, Venue
  <2> QED
    BY <2>1 DEF TypeOK
<1>3. schedule' \in [Weekdays -> Row] /\ StoredWindowsAreValid'
  BY <1>1, RowsAndWindows DEF StoredWindowsAreValid
<1>4. TypeOK'
  BY <1>2, <1>3, RowsAndWindows DEF TypeOK, Row, Requested
<1>5. Requested'
  BY RowsAndWindows DEF Requested
<1>6. OwnPart'
  BY DEF OwnPart, TypeOK, Requested
<1> QED
  BY <1>3, <1>4, <1>5, <1>6

LEMMA SettingsStep ==
  ASSUME SettingsInv, [Next]_vars
  PROVE  SettingsInv'
<1>1. CASE UNCHANGED vars
  BY <1>1 DEF vars, SettingsInv, TypeOK, StoredWindowsAreValid, Requested, OwnPart
<1>2. CASE Next
  BY <1>2, SetPausedKeepsInv, UpdateScheduleKeepsInv, UpdateRowKeepsInv,
     FailureKeepsInv, CommitKeepsInv DEF Next, Proceed
<1> QED
  BY <1>1, <1>2

-----------------------------------------------------------------------------
(* The settings: theorems. *)

LEMMA SettingsInvariance == Spec => []SettingsInv
<1>1. Init => SettingsInv
  BY SettingsStart
<1>2. SettingsInv /\ [Next]_vars => SettingsInv'
  BY SettingsStep
<1> QED
  BY <1>1, <1>2, PTL DEF Spec

\* Every variable has its type, and a request that has ended or failed has left
\* no row written.
THEOREM SettingsTypeCorrect == Spec => []TypeOK
<1>1. SettingsInv => TypeOK
  BY DEF SettingsInv
<1> QED
  BY <1>1, SettingsInvariance, PTL

\* UpdateScheduleUseCase and the CHECK of venue_schedule: whatever columns of
\* different hosts end up in a row, an open day starts and ends at different
\* hours.
THEOREM StoredWindowsStayValid == Spec => []StoredWindowsAreValid
<1>1. SettingsInv => StoredWindowsAreValid
  BY DEF SettingsInv
<1> QED
  BY <1>1, SettingsInvariance, PTL

\* VenueRepository.save writes the whole entity; a schedule never undoes a pause
\* that another host committed meanwhile, nor a pause a schedule.
THEOREM NothingIsUndone == Spec => SettingsStayApart
<1>1. ASSUME SettingsInv, NEW r \in Requests, Commit(r)
      PROVE  IF op[r] = "schedule" THEN paused' = paused ELSE schedule' = schedule
  <2> USE <1>1 DEF SettingsInv, Commit
  <2>1. CASE op[r] = "schedule"
    BY <2>1 DEF OwnPart, WritesPause
  <2>2. CASE op[r] # "schedule"
    <3>1. DOMAIN wrote[r] = {}
      BY <2>2, RowsAndWindows DEF OwnPart
    <3>2. schedule \in [Weekdays -> Windows]
      BY StoredSchedule
    <3> QED
      BY <2>2, <3>1, <3>2
  <2> QED
    BY <2>1, <2>2
<1>2. SettingsInv => [\A r \in Requests : Commit(r) =>
         IF op[r] = "schedule" THEN paused' = paused ELSE schedule' = schedule]_vars
  BY <1>1
<1> QED
  BY <1>2, SettingsInvariance, PTL DEF SettingsStayApart

-----------------------------------------------------------------------------
(* The clock: days and hours. *)

LEMMA DivMod ==
  ASSUME NEW a \in Int, NEW n \in Nat \ {0}
  PROVE  /\ a \div n \in Int /\ a % n \in 0 .. n - 1
         /\ a = (a \div n) * n + (a % n)
OBVIOUS

LEMMA Multiples ==
  ASSUME NEW k \in Int, NEW n \in Nat \ {0}
  PROVE  /\ k * n \in Int
         /\ k >= 1 => k * n >= n
         /\ k <= -1 => k * n <= -n
OBVIOUS

LEMMA DivModUnique ==
  ASSUME NEW n \in Nat \ {0}, NEW q \in Int, NEW r \in 0 .. n - 1
  PROVE  (q * n + r) \div n = q /\ (q * n + r) % n = r
<1> DEFINE a == q * n + r
           p == a \div n
           s == a % n
<1>1. a \in Int
  BY Multiples
<1> HIDE DEF a
<1>2. p \in Int /\ s \in 0 .. n - 1 /\ a = p * n + s
  BY <1>1, DivMod
<1> HIDE DEF p, s
<1>3. q - p \in Int /\ q * n \in Int /\ p * n \in Int
  BY <1>2, Multiples
<1>4. (q - p) * n = q * n - p * n
  BY <1>2
<1>5. (q - p) * n = s - r
  BY <1>2, <1>3, <1>4 DEF a
<1>6. ~(q - p >= 1) /\ ~(q - p <= -1)
  <2>1. s - r < n /\ s - r > -n
    BY <1>2
  <2>2. /\ q - p >= 1 => (q - p) * n >= n
        /\ q - p <= -1 => (q - p) * n <= -n
    BY <1>3, Multiples
  <2>3. s - r \in Int /\ -n \in Int /\ n \in Int
    BY <1>2
  <2> DEFINE m == (q - p) * n
             j == q - p
  <2>4. m = s - r /\ (j >= 1 => m >= n) /\ (j <= -1 => m <= -n)
    BY <1>5, <2>2
  <2> HIDE DEF m, j
  <2>5. ~(j >= 1) /\ ~(j <= -1)
    BY <2>1, <2>3, <2>4
  <2> QED
    BY <2>5 DEF j
<1>7. q = p
  BY <1>2, <1>6
<1>8. r = s
  BY <1>2, <1>3, <1>7 DEF a
<1> QED
  BY <1>7, <1>8 DEF a, p, s

LEMMA HoursAreTicks ==
  /\ TicksPerDay \in Nat \ {0} /\ DaysInWeek \in Nat \ {0}
  /\ \A h : h \in Hours <=> h \in Int /\ 0 <= h /\ h < TicksPerDay
BY ScheduleAssumption DEF Hours

\* Moments are ordered by their day, then by their hour.
LEMMA MomentOrder ==
  ASSUME NEW d \in Int, NEW e \in Int, NEW h \in Hours, NEW i \in Hours
  PROVE  /\ Moment(d, h) \in Int
         /\ Moment(d, h) <= Moment(e, i) <=> d < e \/ (d = e /\ h <= i)
<1>0. /\ TicksPerDay \in Nat \ {0} /\ h \in Int /\ i \in Int
      /\ 0 <= h /\ h < TicksPerDay /\ 0 <= i /\ i < TicksPerDay
  BY HoursAreTicks
<1>1. d * TicksPerDay \in Int /\ e * TicksPerDay \in Int
  BY <1>0, Multiples
<1>2. (e - d) * TicksPerDay = e * TicksPerDay - d * TicksPerDay
  BY <1>0
<1>3. CASE d < e
  <2>1. (e - d) * TicksPerDay >= TicksPerDay
    BY <1>0, <1>3, Multiples
  <2>2. e * TicksPerDay - d * TicksPerDay >= TicksPerDay
    BY <1>2, <2>1
  <2> QED
    BY <1>0, <1>1, <1>3, <2>2 DEF Moment
<1>4. CASE d = e
  BY <1>0, <1>1, <1>4 DEF Moment
<1>5. CASE e < d
  <2>1. e - d <= -1 /\ e - d \in Int
    BY <1>5
  <2>2. (e - d) * TicksPerDay <= -TicksPerDay
    BY <1>0, <2>1, Multiples
  <2>3. e * TicksPerDay - d * TicksPerDay <= -TicksPerDay
    BY <1>2, <2>2
  <2> QED
    BY <1>0, <1>1, <1>5, <2>3 DEF Moment
<1> QED
  BY <1>3, <1>4, <1>5

\* A moment has one date and one time of day.
LEMMA MomentOf ==
  ASSUME NEW m \in Int
  PROVE  /\ Date(m) \in Int /\ TimeOf(m) \in Hours
         /\ m = Moment(Date(m), TimeOf(m))
<1>1. TicksPerDay \in Nat \ {0}
  BY HoursAreTicks
<1> QED
  BY <1>1, DivMod DEF Date, TimeOf, Moment, Hours

LEMMA DateOfMoment ==
  ASSUME NEW d \in Int, NEW h \in Hours
  PROVE  Date(Moment(d, h)) = d /\ TimeOf(Moment(d, h)) = h
<1>1. TicksPerDay \in Nat \ {0} /\ h \in 0 .. TicksPerDay - 1
  BY HoursAreTicks DEF Hours
<1> QED
  BY <1>1, DivModUnique DEF Date, TimeOf, Moment

LEMMA FromMidnight ==
  ASSUME NEW d \in Int, NEW h \in Hours
  PROVE  /\ Moment(d, 0) + h = Moment(d, h)
         /\ Moment(d, 0) + TicksPerDay + h = Moment(d + 1, h)
<1>1. TicksPerDay \in Nat \ {0} /\ h \in Int
  BY HoursAreTicks
<1>2. d * TicksPerDay \in Int /\ (d + 1) * TicksPerDay = d * TicksPerDay + TicksPerDay
  BY <1>1
<1> QED
  BY <1>1, <1>2 DEF Moment

\* Weekdays repeat: n days on from a weekday is the weekday n days on.
LEMMA WeekdayOf ==
  ASSUME NEW d \in Int
  PROVE  /\ Weekday(d) \in Weekdays
         /\ \A n \in Int : (Weekday(d) + n) % DaysInWeek = Weekday(d + n)
         /\ Weekday(d - DaysInWeek) = Weekday(d)
<1>0. DaysInWeek \in Nat \ {0}
  BY HoursAreTicks
<1>1. /\ Weekday(d) \in 0 .. DaysInWeek - 1 /\ d \div DaysInWeek \in Int
      /\ d = (d \div DaysInWeek) * DaysInWeek + Weekday(d)
  BY <1>0, DivMod DEF Weekday
<1> DEFINE q == d \div DaysInWeek
           w == Weekday(d)
<1> HIDE DEF q, w
<1>2. q \in Int /\ w \in 0 .. DaysInWeek - 1 /\ d = q * DaysInWeek + w
  BY <1>1 DEF q, w
<1>3. ASSUME NEW n \in Int
      PROVE  (w + n) % DaysInWeek = Weekday(d + n)
  <2> DEFINE p == (w + n) \div DaysInWeek
             r == (w + n) % DaysInWeek
  <2>1. p \in Int /\ r \in 0 .. DaysInWeek - 1 /\ w + n = p * DaysInWeek + r
    <3>1. w + n \in Int
      BY <1>0, <1>2
    <3> QED
      BY <1>0, <3>1, DivMod
  <2> HIDE DEF p, r
  <2>2. d + n = q * DaysInWeek + (p * DaysInWeek + r)
    <3>1. q * DaysInWeek \in Int /\ p * DaysInWeek \in Int
      BY <1>0, <1>2, <2>1, Multiples
    <3> QED
      BY <1>0, <1>2, <2>1, <3>1
  <2>3. q * DaysInWeek + (p * DaysInWeek + r) = (q + p) * DaysInWeek + r
    BY <1>0, <1>2, <2>1
  <2>4. q + p \in Int
    BY <1>2, <2>1
  <2>5. ((q + p) * DaysInWeek + r) % DaysInWeek = r
    BY <1>0, <2>1, <2>4, DivModUnique
  <2>6. Weekday(d + n) = r
    BY <2>2, <2>3, <2>5 DEF Weekday
  <2> QED
    BY <2>6 DEF r
<1>4. Weekday(d - DaysInWeek) = w
  <2>1. d - DaysInWeek = (q - 1) * DaysInWeek + w
    BY <1>0, <1>2
  <2>2. q - 1 \in Int
    BY <1>2
  <2>3. ((q - 1) * DaysInWeek + w) % DaysInWeek = w
    BY <1>0, <1>2, <2>2, DivModUnique
  <2> QED
    BY <2>1, <2>3 DEF Weekday
<1> QED
  BY <1>2, <1>3, <1>4 DEF w, Weekdays

\* Every weekday comes within the next DaysInWeek days.
LEMMA WeekdayComes ==
  ASSUME NEW d \in Int, NEW e \in Int
  PROVE  \E n \in 1 .. DaysInWeek : Weekday(d + n) = Weekday(e)
<1>0. DaysInWeek \in Nat \ {0}
  BY HoursAreTicks
<1> DEFINE n == ((e - d - 1) % DaysInWeek) + 1
           k == (e - d - 1) \div DaysInWeek
<1>1. n \in 1 .. DaysInWeek /\ k \in Int /\ e - d = k * DaysInWeek + n
  <2>1. e - d - 1 \in Int
    OBVIOUS
  <2>2. /\ (e - d - 1) % DaysInWeek \in 0 .. DaysInWeek - 1 /\ k \in Int
        /\ e - d - 1 = k * DaysInWeek + ((e - d - 1) % DaysInWeek)
    BY <1>0, <2>1, DivMod
  <2>3. k * DaysInWeek \in Int
    BY <1>0, <2>2, Multiples
  <2> DEFINE rest == (e - d - 1) % DaysInWeek
  <2> HIDE DEF k, rest
  <2>4. /\ rest \in 0 .. DaysInWeek - 1 /\ k \in Int /\ k * DaysInWeek \in Int
        /\ e - d - 1 = k * DaysInWeek + rest
    BY <2>2, <2>3 DEF rest
  <2>5. rest + 1 \in 1 .. DaysInWeek /\ e - d = k * DaysInWeek + (rest + 1)
    BY <1>0, <2>4
  <2> QED
    BY <2>4, <2>5 DEF rest
<1> HIDE DEF n, k
<1> DEFINE m == d + n
           q == m \div DaysInWeek
           r == m % DaysInWeek
<1>2. m \in Int /\ q \in Int /\ r \in 0 .. DaysInWeek - 1 /\ m = q * DaysInWeek + r
  <2>1. m \in Int
    BY <1>0, <1>1
  <2> HIDE DEF m
  <2> QED
    BY <1>0, <2>1, DivMod
<1>3. e = k * DaysInWeek + m
  <2>1. k * DaysInWeek \in Int
    BY <1>0, <1>1, Multiples
  <2> QED
    BY <1>0, <1>1, <2>1
<1> HIDE DEF m, q, r
<1>4. e = (k + q) * DaysInWeek + r
  <2>1. (k + q) * DaysInWeek = k * DaysInWeek + q * DaysInWeek
    BY <1>0, <1>1, <1>2
  <2>2. k * DaysInWeek \in Int /\ q * DaysInWeek \in Int
    BY <1>0, <1>1, <1>2, Multiples
  <2> QED
    BY <1>0, <1>2, <1>3, <2>1, <2>2
<1>5. k + q \in Int
  BY <1>1, <1>2
<1>6. e % DaysInWeek = r
  BY <1>0, <1>2, <1>4, <1>5, DivModUnique
<1>7. Weekday(d + n) = Weekday(e)
  BY <1>6 DEF Weekday, m, r
<1> QED
  BY <1>1, <1>7

-----------------------------------------------------------------------------
(* The clock: windows that hold a moment. *)

ClockInv == windows \in [Weekdays -> Windows] /\ now \in Int

WindowOf(day) == windows[Weekday(day)]

\* The moment at which a day's window ends.
EndOf(day) ==
  Moment(IF CrossesMidnight(WindowOf(day)) THEN day + 1 ELSE day, WindowOf(day).end)

Holding(day, moment) ==
  /\ WindowOf(day).isOpen
  /\ Moment(day, WindowOf(day).start) <= moment /\ moment < EndOf(day)

LEMMA WindowType ==
  ASSUME ClockInv, NEW day \in Int
  PROVE  /\ WindowOf(day).isOpen \in BOOLEAN
         /\ WindowOf(day).start \in Hours /\ WindowOf(day).end \in Hours
         /\ WindowOf(day).isOpen => WindowOf(day).start # WindowOf(day).end
<1>1. WindowOf(day) \in Windows
  BY WeekdayOf DEF ClockInv, WindowOf
<1> QED
  BY <1>1 DEF Windows, ValidWindow

\* A window starts before it ends.
LEMMA StartBeforeEnd ==
  ASSUME ClockInv, NEW day \in Int, WindowOf(day).isOpen
  PROVE  /\ Moment(day, WindowOf(day).start) \in Int /\ EndOf(day) \in Int
         /\ Moment(day, WindowOf(day).start) < EndOf(day)
<1> DEFINE w == WindowOf(day)
<1>1. w.start \in Hours /\ w.end \in Hours /\ w.start # w.end
      /\ w.start \in Int /\ w.end \in Int
  BY WindowType, HoursAreTicks
<1>2. EndOf(day) = Moment(IF w.end <= w.start THEN day + 1 ELSE day, w.end)
  BY DEF EndOf, CrossesMidnight
<1> HIDE DEF w
<1>3. /\ Moment(day, w.start) \in Int /\ Moment(day, w.end) \in Int
      /\ Moment(day + 1, w.end) \in Int
      /\ ~(Moment(day + 1, w.end) <= Moment(day, w.start))
      /\ Moment(day, w.end) <= Moment(day, w.start) <=> w.end <= w.start
  <2>1. day + 1 \in Int
    OBVIOUS
  <2> QED
    BY <1>1, <2>1, MomentOrder
<1>4. EndOf(day) \in Int /\ Moment(day, w.start) < EndOf(day)
  <2>1. CASE w.end <= w.start
    BY <1>2, <1>3, <2>1
  <2>2. CASE ~(w.end <= w.start)
    BY <1>2, <1>3, <2>2
  <2> QED
    BY <2>1, <2>2
<1> QED
  BY <1>3, <1>4 DEF w

\* Only the windows of today and of yesterday can hold a moment.
LEMMA HoldingIsRecent ==
  ASSUME ClockInv, NEW day \in Int, NEW m \in Int
  PROVE  /\ Holding(day, m) => day \in Date(m) - 1 .. Date(m)
         /\ Holding(Date(m), m) <=>
              LET w == WindowOf(Date(m)) IN
              w.isOpen /\ w.start <= TimeOf(m) /\ (CrossesMidnight(w) \/ TimeOf(m) < w.end)
         /\ Holding(Date(m) - 1, m) <=>
              LET w == WindowOf(Date(m) - 1) IN
              w.isOpen /\ CrossesMidnight(w) /\ TimeOf(m) < w.end
<1> DEFINE D == Date(m)
           t == TimeOf(m)
<1>0. D \in Int /\ t \in Hours /\ t \in Int /\ m = Moment(D, t)
  BY MomentOf, HoursAreTicks
<1> HIDE DEF D, t
<1>1. D \in Int /\ t \in Int
  BY <1>0
<1>2. ASSUME NEW d \in Int, NEW h \in Hours
      PROVE  /\ Moment(d, h) \in Int /\ h \in Int
             /\ (Moment(d, h) <= m) <=> (d < D \/ (d = D /\ h <= t))
             /\ (m < Moment(d, h)) <=> ~(d < D \/ (d = D /\ h <= t))
  <2>1. /\ Moment(d, h) \in Int /\ h \in Int
        /\ (Moment(d, h) <= m) <=> (d < D \/ (d = D /\ h <= t))
    BY <1>0, MomentOrder, HoursAreTicks
  <2> QED
    BY <2>1
<1>3. ASSUME NEW d \in Int, WindowOf(d).isOpen
      PROVE  /\ WindowOf(d).start \in Hours /\ WindowOf(d).end \in Hours
             /\ WindowOf(d).start \in Int /\ WindowOf(d).end \in Int
  BY <1>3, WindowType, HoursAreTicks
<1>4. ASSUME Holding(day, m)
      PROVE  day \in D - 1 .. D
  <2>1. Moment(day, WindowOf(day).start) <= m /\ m < EndOf(day)
        /\ WindowOf(day).start \in Hours /\ WindowOf(day).end \in Hours
    BY <1>3, <1>4 DEF Holding
  <2>2. day <= D
    BY <1>1, <1>2, <2>1
  <2>3. PICK e \in Int : (e = day \/ e = day + 1) /\ m < Moment(e, WindowOf(day).end)
    <3>1. CASE CrossesMidnight(WindowOf(day))
      BY <2>1, <3>1 DEF EndOf
    <3>2. CASE ~CrossesMidnight(WindowOf(day))
      BY <2>1, <3>2 DEF EndOf
    <3> QED
      BY <3>1, <3>2
  <2>4. ~(e < D)
    BY <1>2, <2>1, <2>3
  <2> QED
    BY <1>1, <2>2, <2>3, <2>4
<1>5. Holding(D, m) <=>
        WindowOf(D).isOpen /\ WindowOf(D).start <= t
          /\ (CrossesMidnight(WindowOf(D)) \/ t < WindowOf(D).end)
  <2>1. CASE ~WindowOf(D).isOpen
    BY <2>1 DEF Holding
  <2>2. CASE WindowOf(D).isOpen
    <3> DEFINE w == WindowOf(D)
    <3>1. w.start \in Hours /\ w.end \in Hours /\ w.start \in Int /\ w.end \in Int /\ w.isOpen
      BY <1>1, <1>3, <2>2
    <3>2. Holding(D, m) <=> Moment(D, w.start) <= m /\ m < EndOf(D)
      BY <2>2 DEF Holding
    <3>3. EndOf(D) = Moment(IF CrossesMidnight(w) THEN D + 1 ELSE D, w.end)
      BY DEF EndOf
    <3> HIDE DEF w
    <3>4. Moment(D, w.start) <= m <=> w.start <= t
      BY <1>1, <1>2, <3>1
    <3>5. CASE CrossesMidnight(w)
      <4>1. D + 1 \in Int /\ ~(D + 1 < D) /\ D + 1 # D
        BY <1>1
      <4>2. m < Moment(D + 1, w.end)
        BY <1>2, <3>1, <4>1
      <4> QED
        BY <3>1, <3>2, <3>3, <3>4, <3>5, <4>2 DEF w
    <3>6. CASE ~CrossesMidnight(w)
      <4>1. m < Moment(D, w.end) <=> t < w.end
        BY <1>1, <1>2, <3>1
      <4> QED
        BY <3>1, <3>2, <3>3, <3>4, <3>6, <4>1 DEF w
    <3> QED
      BY <3>5, <3>6
  <2> QED
    BY <2>1, <2>2
<1>6. Holding(D - 1, m) <=>
        WindowOf(D - 1).isOpen /\ CrossesMidnight(WindowOf(D - 1)) /\ t < WindowOf(D - 1).end
  <2>1. CASE ~WindowOf(D - 1).isOpen
    BY <2>1 DEF Holding
  <2>2. CASE WindowOf(D - 1).isOpen
    <3> DEFINE w == WindowOf(D - 1)
    <3>0. D - 1 \in Int /\ D - 1 < D /\ D - 1 # D /\ (D - 1) + 1 = D
      BY <1>1
    <3>1. w.start \in Hours /\ w.end \in Hours /\ w.start \in Int /\ w.end \in Int /\ w.isOpen
      BY <1>3, <2>2, <3>0
    <3>2. Holding(D - 1, m) <=> Moment(D - 1, w.start) <= m /\ m < EndOf(D - 1)
      BY <2>2 DEF Holding
    <3>3. EndOf(D - 1) = Moment(IF CrossesMidnight(w) THEN D ELSE D - 1, w.end)
      BY <3>0 DEF EndOf
    <3> HIDE DEF w
    <3>4. Moment(D - 1, w.start) <= m
      BY <1>2, <3>0, <3>1
    <3>5. CASE CrossesMidnight(w)
      <4>1. m < Moment(D, w.end) <=> t < w.end
        BY <1>1, <1>2, <3>1
      <4> QED
        BY <3>1, <3>2, <3>3, <3>4, <3>5, <4>1 DEF w
    <3>6. CASE ~CrossesMidnight(w)
      <4>1. ~(m < Moment(D - 1, w.end))
        BY <1>2, <3>0, <3>1
      <4> QED
        BY <3>1, <3>2, <3>3, <3>4, <3>6, <4>1 DEF w
    <3> QED
      BY <3>5, <3>6
  <2> QED
    BY <2>1, <2>2
<1> QED
  BY <1>4, <1>5, <1>6 DEF D, t

\* So a moment is within opening hours when any day's window holds it.
LEMMA OpenWhenHeld ==
  ASSUME ClockInv, NEW m \in Int
  PROVE  /\ IsOpenAt(m) <=> \E day \in Int : Holding(day, m)
         /\ IsOpenAt(m) <=> Holding(Date(m), m) \/ Holding(Date(m) - 1, m)
<1>1. Date(m) \in Int
  BY MomentOf
<1>2. IsOpenAt(m) <=> \E day \in Date(m) - 1 .. Date(m) : Holding(day, m)
  BY DEF IsOpenAt, Holding, EndOf, WindowOf
<1>3. \A day \in Int : Holding(day, m) => day \in Date(m) - 1 .. Date(m)
  BY HoldingIsRecent
<1>4. /\ Date(m) - 1 .. Date(m) \subseteq Int
      /\ \A day \in Date(m) - 1 .. Date(m) : day = Date(m) \/ day = Date(m) - 1
      /\ Date(m) \in Date(m) - 1 .. Date(m) /\ Date(m) - 1 \in Date(m) - 1 .. Date(m)
  BY <1>1
<1>5. IsOpenAt(m) <=> \E day \in Int : Holding(day, m)
  BY <1>2, <1>3, <1>4
<1>6. IsOpenAt(m) => Holding(Date(m), m) \/ Holding(Date(m) - 1, m)
  <2> HAVE IsOpenAt(m)
  <2>1. PICK day \in Date(m) - 1 .. Date(m) : Holding(day, m)
    BY <1>2
  <2>2. CASE day = Date(m)
    BY <2>1, <2>2
  <2>3. CASE day = Date(m) - 1
    BY <2>1, <2>3
  <2> QED
    BY <1>4, <2>2, <2>3
<1>7. ASSUME NEW day \in Int, Holding(day, m)
      PROVE  IsOpenAt(m)
  BY <1>5, <1>7
<1>8. Date(m) - 1 \in Int
  BY <1>1
<1> QED
  BY <1>1, <1>5, <1>6, <1>7, <1>8

-----------------------------------------------------------------------------
(* The clock: what evaluate_schedule answers. *)

\* The next open day is the first after today that has a window; there is none
\* only when no day of the week has one.
NextOpening(D, answer) ==
  \/ answer = NeverOpens /\ \A day \in Int : ~WindowOf(day).isOpen
  \/ \E n \in 1 .. DaysInWeek :
       /\ answer = OpensIn(n, WindowOf(D + n)) /\ WindowOf(D + n).isOpen
       /\ \A k \in 1 .. n - 1 : ~WindowOf(D + k).isOpen

LEMMA NextDayIsTheFirst ==
  ASSUME ClockInv, NEW D \in Int
  PROVE  NextOpening(D, NextDay(windows, Weekday(D)))
<1> DEFINE offsets == {n \in 1 .. DaysInWeek :
                         windows[(Weekday(D) + n) % DaysInWeek].isOpen}
           answer == NextDay(windows, Weekday(D))
<1>1. answer = IF offsets = {} THEN NeverOpens
               ELSE OpensIn(Min(offsets), windows[(Weekday(D) + Min(offsets)) % DaysInWeek])
  BY DEF NextDay
<1>2. \A n \in 1 .. DaysInWeek : windows[(Weekday(D) + n) % DaysInWeek] = WindowOf(D + n)
  <2> SUFFICES ASSUME NEW n \in 1 .. DaysInWeek
               PROVE  (Weekday(D) + n) % DaysInWeek = Weekday(D + n)
    BY DEF WindowOf
  <2>1. n \in Int
    OBVIOUS
  <2> QED
    BY <2>1, WeekdayOf
<1>3. \A n \in 1 .. DaysInWeek : n \in offsets <=> WindowOf(D + n).isOpen
  BY <1>2
<1>4. offsets \subseteq Nat /\ offsets \subseteq 1 .. DaysInWeek
  BY HoursAreTicks
<1> HIDE DEF answer, offsets
<1>5. CASE offsets = {}
  <2>1. ASSUME NEW day \in Int, WindowOf(day).isOpen PROVE FALSE
    <3>1. PICK n \in 1 .. DaysInWeek : Weekday(D + n) = Weekday(day)
      BY WeekdayComes
    <3>2. WindowOf(D + n).isOpen
      BY <2>1, <3>1 DEF WindowOf
    <3> QED
      BY <1>3, <1>5, <3>2
  <2>2. answer = NeverOpens /\ \A day \in Int : ~WindowOf(day).isOpen
    BY <1>1, <1>5, <2>1
  <2> QED
    BY <2>2 DEF NextOpening, answer
<1>6. CASE offsets # {}
  <2> DEFINE n == Min(offsets)
  <2>1. n \in offsets /\ \A k \in offsets : n <= k
    BY <1>4, <1>6, LeastNat
  <2>2. answer = OpensIn(n, windows[(Weekday(D) + n) % DaysInWeek])
    BY <1>1, <1>6
  <2> HIDE DEF n
  <2>3. n \in 1 .. DaysInWeek /\ WindowOf(D + n).isOpen
    BY <1>3, <1>4, <2>1
  <2>4. answer = OpensIn(n, WindowOf(D + n))
    BY <1>2, <2>2, <2>3
  <2>5. ASSUME NEW k \in 1 .. n - 1 PROVE ~WindowOf(D + k).isOpen
    <3>1. k \in 1 .. DaysInWeek /\ ~(n <= k)
      BY <2>3, HoursAreTicks
    <3> QED
      BY <1>3, <2>1, <3>1
  <2> QED
    BY <2>3, <2>4, <2>5 DEF NextOpening, answer
<1> QED
  BY <1>5, <1>6

LEMMA StatusIs ==
  ASSUME ClockInv
  PROVE  LET D == Date(now) IN
         Status = IF Holding(D - 1, now) THEN Open(WindowOf(D - 1))
                  ELSE IF Holding(D, now) THEN Open(WindowOf(D))
                  ELSE IF WindowOf(D).isOpen /\ TimeOf(now) < WindowOf(D).start
                  THEN OpensIn(0, WindowOf(D))
                  ELSE NextDay(windows, Weekday(D))
<1> DEFINE D == Date(now)
           t == TimeOf(now)
           today == windows[Weekday(D)]
           yesterday == windows[(Weekday(D) - 1) % DaysInWeek]
<1>0. now \in Int /\ D \in Int
  BY MomentOf DEF ClockInv
<1>1. Status = IF yesterday.isOpen /\ CrossesMidnight(yesterday) /\ t < yesterday.end
               THEN Open(yesterday)
               ELSE IF today.isOpen /\ today.start <= t /\ (CrossesMidnight(today) \/ t < today.end)
               THEN Open(today)
               ELSE IF today.isOpen /\ t < today.start THEN OpensIn(0, today)
               ELSE NextDay(windows, Weekday(D))
  BY DEF Status, EvaluateSchedule
<1>2. today = WindowOf(D)
  BY DEF WindowOf
<1>3. yesterday = WindowOf(D - 1)
  <2>1. Weekday(D) \in Int
    BY <1>0, WeekdayOf, HoursAreTicks DEF Weekdays
  <2>2. Weekday(D) - 1 = Weekday(D) + (-1) /\ D - 1 = D + (-1) /\ -1 \in Int
    BY <1>0, <2>1
  <2>3. (Weekday(D) + (-1)) % DaysInWeek = Weekday(D + (-1))
    BY <1>0, <2>2, WeekdayOf
  <2> QED
    BY <2>2, <2>3 DEF WindowOf
<1>4. Holding(D, now) <=>
        today.isOpen /\ today.start <= t /\ (CrossesMidnight(today) \/ t < today.end)
  BY <1>0, <1>2, HoldingIsRecent
<1>5. Holding(D - 1, now) <=>
        yesterday.isOpen /\ CrossesMidnight(yesterday) /\ t < yesterday.end
  BY <1>0, <1>3, HoldingIsRecent
<1> HIDE DEF D, t, today, yesterday
<1>6. Status = IF Holding(D - 1, now) THEN Open(yesterday)
               ELSE IF Holding(D, now) THEN Open(today)
               ELSE IF today.isOpen /\ t < today.start THEN OpensIn(0, today)
               ELSE NextDay(windows, Weekday(D))
  BY <1>1, <1>4, <1>5
<1> QED
  BY <1>2, <1>3, <1>6 DEF D, t

\* The four answers: a window of yesterday or of today that holds the moment,
\* today's that is still to come, or the first of the days after.
OpenFor(day) == Holding(day, now) /\ Status = Open(WindowOf(day))

OpensToday ==
  /\ WindowOf(Date(now)).isOpen /\ TimeOf(now) < WindowOf(Date(now)).start
  /\ Status = OpensIn(0, WindowOf(Date(now)))

LEMMA Answers ==
  ASSUME ClockInv
  PROVE  \/ OpenFor(Date(now) - 1)
         \/ OpenFor(Date(now))
         \/ /\ ~Holding(Date(now) - 1, now) /\ ~Holding(Date(now), now)
            /\ OpensToday
         \/ /\ ~Holding(Date(now) - 1, now) /\ ~Holding(Date(now), now)
            /\ ~(WindowOf(Date(now)).isOpen /\ TimeOf(now) < WindowOf(Date(now)).start)
            /\ NextOpening(Date(now), Status)
<1>1. Date(now) \in Int
  BY MomentOf DEF ClockInv
<1>2. NextOpening(Date(now), NextDay(windows, Weekday(Date(now))))
  BY <1>1, NextDayIsTheFirst
<1> QED
  BY <1>2, StatusIs DEF OpenFor, OpensToday

LEMMA OpenIffHeld ==
  ASSUME ClockInv
  PROVE  OpenWhileAWindowHolds
<1>1. now \in Int
  BY DEF ClockInv
<1>2. IsOpenAt(now) <=> Holding(Date(now), now) \/ Holding(Date(now) - 1, now)
  BY <1>1, OpenWhenHeld
<1>3. ASSUME NEW day, OpenFor(day) PROVE Status.open
  BY <1>3 DEF OpenFor, Open
<1>4. ASSUME OpensToday PROVE ~Status.open
  BY <1>4 DEF OpensToday, OpensIn
<1>5. ASSUME NextOpening(Date(now), Status) PROVE ~Status.open
  BY <1>5 DEF NextOpening, OpensIn, NeverOpens
<1>6. CASE OpenFor(Date(now) - 1) \/ OpenFor(Date(now))
  BY <1>2, <1>3, <1>6 DEF OpenWhileAWindowHolds, OpenFor
<1>7. CASE /\ ~Holding(Date(now) - 1, now) /\ ~Holding(Date(now), now)
           /\ OpensToday \/ NextOpening(Date(now), Status)
  BY <1>2, <1>4, <1>5, <1>7 DEF OpenWhileAWindowHolds
<1> QED
  BY <1>6, <1>7, Answers

-----------------------------------------------------------------------------
(* The clock: the hours it announces. *)

LEMMA NowIs ==
  ASSUME ClockInv
  PROVE  /\ now \in Int /\ Date(now) \in Int /\ TimeOf(now) \in Hours /\ TimeOf(now) \in Int
         /\ now = Moment(Date(now), TimeOf(now))
         /\ \A d \in Int, h \in Hours :
              /\ Moment(d, h) \in Int /\ h \in Int
              /\ (Moment(d, h) <= now) <=> (d < Date(now) \/ (d = Date(now) /\ h <= TimeOf(now)))
<1> DEFINE D == Date(now)
           t == TimeOf(now)
<1>1. now \in Int /\ D \in Int /\ t \in Hours /\ t \in Int /\ now = Moment(D, t)
  BY MomentOf, HoursAreTicks DEF ClockInv
<1> HIDE DEF D, t
<1>2. \A d \in Int, h \in Hours :
        /\ Moment(d, h) \in Int /\ h \in Int
        /\ (Moment(d, h) <= now) <=> (d < D \/ (d = D /\ h <= t))
  <2> TAKE d \in Int, h \in Hours
  <2> QED
    BY <1>1, MomentOrder, HoursAreTicks
<1> QED
  BY <1>1, <1>2 DEF D, t

\* A window that holds the moment holds every one until it ends.
LEMMA OpenUntilItEnds ==
  ASSUME ClockInv, NEW e \in Int, Holding(e, now)
  PROVE  EndOf(e) \in Int /\ \A m \in now .. EndOf(e) - 1 : IsOpenAt(m)
<1>1. /\ now \in Int /\ EndOf(e) \in Int /\ Moment(e, WindowOf(e).start) \in Int
      /\ Moment(e, WindowOf(e).start) <= now /\ WindowOf(e).isOpen
  BY StartBeforeEnd DEF ClockInv, Holding
<1>2. ASSUME NEW m \in now .. EndOf(e) - 1
      PROVE  IsOpenAt(m)
  <2>1. m \in Int /\ Moment(e, WindowOf(e).start) <= m /\ m < EndOf(e)
    BY <1>1
  <2>2. Holding(e, m)
    BY <1>1, <2>1 DEF Holding
  <2> QED
    BY <2>1, <2>2, OpenWhenHeld
<1> QED
  BY <1>1, <1>2

\* The hour announced while it is open is that end: today's when it is still to
\* come, tomorrow's otherwise.
LEMMA ClosingIsTheEnd ==
  ASSUME ClockInv, NEW e \in {Date(now) - 1, Date(now)}, Holding(e, now)
  PROVE  LET c == WindowOf(e).end
             midnight == Moment(Date(now), 0)
         IN EndOf(e) = IF c > TimeOf(now) THEN midnight + c ELSE midnight + TicksPerDay + c
<1> DEFINE D == Date(now)
           t == TimeOf(now)
           w == WindowOf(e)
<1>1. /\ now \in Int /\ D \in Int /\ t \in Int /\ e \in Int
  BY NowIs
<1>2. w.start \in Hours /\ w.end \in Hours /\ w.start \in Int /\ w.end \in Int
  BY <1>1, WindowType, HoursAreTicks
<1>3. EndOf(e) = Moment(IF CrossesMidnight(w) THEN e + 1 ELSE e, w.end)
  BY DEF EndOf
<1>4. Moment(D, 0) + w.end = Moment(D, w.end)
      /\ Moment(D, 0) + TicksPerDay + w.end = Moment(D + 1, w.end)
  BY <1>1, <1>2, FromMidnight
<1>5. CASE e = D
  <2>1. w.start <= t /\ (CrossesMidnight(w) \/ t < w.end)
    BY <1>1, <1>5, HoldingIsRecent
  <2> HIDE DEF D, t, w
  <2>2. CASE CrossesMidnight(w)
    <3>1. ~(w.end > t)
      BY <1>1, <1>2, <2>1, <2>2 DEF CrossesMidnight
    <3>2. EndOf(e) = Moment(D + 1, w.end)
      BY <1>3, <1>5, <2>2
    <3>3. EndOf(e) = IF w.end > t THEN Moment(D, 0) + w.end
                     ELSE Moment(D, 0) + TicksPerDay + w.end
      BY <1>4, <3>1, <3>2
    <3> QED
      BY <3>3 DEF D, t, w
  <2>3. CASE ~CrossesMidnight(w)
    <3>1. w.end > t
      BY <1>1, <1>2, <2>1, <2>3
    <3>2. EndOf(e) = Moment(D, w.end)
      BY <1>3, <1>5, <2>3
    <3>3. EndOf(e) = IF w.end > t THEN Moment(D, 0) + w.end
                     ELSE Moment(D, 0) + TicksPerDay + w.end
      BY <1>4, <3>1, <3>2
    <3> QED
      BY <3>3 DEF D, t, w
  <2> QED
    BY <2>2, <2>3
<1>6. CASE e = D - 1
  <2>1. CrossesMidnight(w) /\ t < w.end
    BY <1>1, <1>6, HoldingIsRecent
  <2>2. e + 1 = D
    BY <1>1, <1>6
  <2> HIDE DEF D, t, w
  <2>3. w.end > t
    BY <1>1, <1>2, <2>1
  <2>4. EndOf(e) = Moment(D, w.end)
    BY <1>3, <2>1, <2>2
  <2>5. EndOf(e) = IF w.end > t THEN Moment(D, 0) + w.end
                   ELSE Moment(D, 0) + TicksPerDay + w.end
    BY <1>4, <2>3, <2>4
  <2> QED
    BY <2>5 DEF D, t, w
<1> QED
  BY <1>5, <1>6

\* When no window holds the moment, the list stays closed until the next start
\* of a window.
LEMMA ClosedUntilItStarts ==
  ASSUME ClockInv, ~Holding(Date(now) - 1, now), ~Holding(Date(now), now),
         NEW e \in Int, WindowOf(e).isOpen, ~(Moment(e, WindowOf(e).start) <= now),
         \A day \in Int :
           WindowOf(day).isOpen /\ ~(Moment(day, WindowOf(day).start) <= now) =>
             Moment(e, WindowOf(e).start) <= Moment(day, WindowOf(day).start)
  PROVE  LET opening == Moment(e, WindowOf(e).start) IN
         /\ opening > now
         /\ \A m \in now .. opening - 1 : ~IsOpenAt(m)
         /\ IsOpenAt(opening)
<1> DEFINE opening == Moment(e, WindowOf(e).start)
<1>1. now \in Int /\ opening \in Int /\ EndOf(e) \in Int /\ opening < EndOf(e)
  BY StartBeforeEnd DEF ClockInv
<1>2. Holding(e, opening)
  BY <1>1 DEF Holding
<1>3. IsOpenAt(opening)
  <2> DEFINE o == opening
  <2>1. o \in Int /\ Holding(e, o)
    BY <1>1, <1>2
  <2> HIDE DEF o
  <2>2. IsOpenAt(o)
    BY <2>1, OpenWhenHeld
  <2> QED
    BY <2>2 DEF o
<1>4. ASSUME NEW m \in now .. opening - 1, IsOpenAt(m)
      PROVE  FALSE
  <2>1. m \in Int /\ now <= m /\ m < opening
    BY <1>1
  <2>2. PICK day \in Int : Holding(day, m)
    BY <1>4, <2>1, OpenWhenHeld
  <2>3. /\ WindowOf(day).isOpen /\ Moment(day, WindowOf(day).start) <= m /\ m < EndOf(day)
        /\ Moment(day, WindowOf(day).start) \in Int /\ EndOf(day) \in Int
    BY <2>2, StartBeforeEnd DEF Holding
  <2>4. Moment(day, WindowOf(day).start) <= now
    <3>1. ~(opening <= Moment(day, WindowOf(day).start))
      BY <1>1, <2>1, <2>3
    <3> QED
      BY <2>3, <3>1
  <2>5. Holding(day, now)
    <3>1. now < EndOf(day)
      BY <1>1, <2>1, <2>3
    <3> QED
      BY <2>3, <2>4, <3>1 DEF Holding
  <2>6. day \in Date(now) - 1 .. Date(now)
    BY <1>1, <2>5, HoldingIsRecent
  <2>7. day = Date(now) - 1 \/ day = Date(now)
    BY <2>6, NowIs
  <2> QED
    BY <2>5, <2>7
<1> QED
  BY <1>1, <1>3, <1>4

\* The opening that is announced is the first start to come.
LEMMA OpensAtNextStart ==
  ASSUME ClockInv, ~Holding(Date(now) - 1, now), ~Holding(Date(now), now),
         NEW n \in Nat, WindowOf(Date(now) + n).isOpen,
         n = 0 => TimeOf(now) < WindowOf(Date(now)).start,
         n > 0 => ~(WindowOf(Date(now)).isOpen /\ TimeOf(now) < WindowOf(Date(now)).start),
         \A k \in 1 .. n - 1 : ~WindowOf(Date(now) + k).isOpen
  PROVE  LET opening == Moment(Date(now) + n, WindowOf(Date(now) + n).start) IN
         /\ opening > now
         /\ \A m \in now .. opening - 1 : ~IsOpenAt(m)
         /\ IsOpenAt(opening)
<1> DEFINE D == Date(now)
           t == TimeOf(now)
           e == D + n
           Start(day) == WindowOf(day).start
<1>1. /\ now \in Int /\ D \in Int /\ e \in Int /\ t \in Int
      /\ \A d \in Int, h \in Hours :
           /\ Moment(d, h) \in Int /\ h \in Int
           /\ (Moment(d, h) <= now) <=> (d < D \/ (d = D /\ h <= t))
  BY NowIs
<1>2. \A day \in Int : Start(day) \in Hours
  BY WindowType
<1>3. n = 0 => e = D
  BY <1>1
<1>4. ~(Moment(e, Start(e)) <= now)
  <2>1. ~(e < D)
    BY <1>1
  <2>2. ~(e = D /\ Start(e) <= t)
    <3> SUFFICES ASSUME e = D, Start(e) <= t PROVE FALSE
      OBVIOUS
    <3>1. n = 0
      BY <1>1
    <3>2. t < Start(D) /\ Start(D) \in Int
      BY <1>1, <1>2, <3>1
    <3> QED
      BY <1>1, <3>2
  <2> QED
    BY <1>1, <1>2, <2>1, <2>2
<1>5. ASSUME NEW day \in Int, WindowOf(day).isOpen, ~(Moment(day, Start(day)) <= now)
      PROVE  Moment(e, Start(e)) <= Moment(day, Start(day))
  <2>1. ~(day < D) /\ ~(day = D /\ Start(day) <= t)
    BY <1>1, <1>2, <1>5
  <2>2. ~(day < e)
    <3> SUFFICES ASSUME day < e PROVE FALSE
      OBVIOUS
    <3>1. n > 0
      BY <1>1, <2>1
    <3>2. CASE day = D
      <4>a. ~(Start(D) <= t)
        BY <2>1, <3>2
      <4>b. Start(D) \in Int /\ t \in Int
        BY <1>1, <1>2
      <4>1. t < Start(D)
        <5> DEFINE s == Start(D)
        <5> HIDE DEF s
        <5>1. t < s
          BY <4>a, <4>b DEF s
        <5> QED
          BY <5>1 DEF s
      <4> QED
        BY <1>5, <3>1, <3>2, <4>1
    <3>3. CASE day # D
      <4>1. day - D \in 1 .. n - 1 /\ D + (day - D) = day
        BY <1>1, <2>1, <3>3
      <4>2. ~WindowOf(D + (day - D)).isOpen
        BY <4>1
      <4> QED
        BY <1>5, <4>1, <4>2
    <3> QED
      BY <3>2, <3>3
  <2>3. e < day \/ e = day
    BY <1>1, <2>2
  <2>4. Start(day) \in Hours /\ Start(e) \in Hours /\ Start(day) \in Int
    BY <1>1, <1>2
  <2>5. e < day \/ (e = day /\ Start(e) <= Start(day))
    BY <2>3, <2>4
  <2> HIDE DEF e, Start
  <2> QED
    BY <1>1, <2>4, <2>5, MomentOrder
<1>6. WindowOf(e).isOpen
  OBVIOUS
<1> QED
  <2> HIDE DEF e
  <2>1. LET opening == Moment(e, WindowOf(e).start) IN
        /\ opening > now
        /\ \A m \in now .. opening - 1 : ~IsOpenAt(m)
        /\ IsOpenAt(opening)
    BY <1>1, <1>4, <1>5, <1>6, ClosedUntilItStarts
  <2> QED
    BY <2>1 DEF e

\* When the list is still open at the end of the window that its status names,
\* that window crossed midnight into one that has started.
LEMMA OpenAtItsEnd ==
  ASSUME ClockInv, NEW e \in {Date(now) - 1, Date(now)}, Holding(e, now),
         Status.closesAt = WindowOf(e).end, IsOpenAt(EndOf(e))
  PROVE  RunsInto(EndOf(e))
<1> DEFINE c == EndOf(e)
           D == Date(now)
           w == WindowOf(e)
<1>1. /\ now \in Int /\ D \in Int /\ e \in Int /\ c \in Int /\ now < c
      /\ w.end \in Hours /\ w.isOpen
  BY NowIs, StartBeforeEnd, WindowType DEF Holding
<1>2. Date(c) \in Int /\ (Holding(Date(c), c) \/ Holding(Date(c) - 1, c))
  BY <1>1, MomentOf, OpenWhenHeld
<1>3. ~Holding(e, c)
  BY <1>1 DEF Holding
<1>4. CASE CrossesMidnight(w)
  <2>1. c = Moment(e + 1, w.end) /\ e + 1 \in Int /\ (e + 1) - 1 = e
    BY <1>1, <1>4 DEF EndOf
  <2>2. Date(c) = e + 1 /\ TimeOf(c) = w.end
    BY <1>1, <2>1, DateOfMoment
  <2>3. Holding(e + 1, c)
    BY <1>2, <1>3, <2>1, <2>2
  <2> DEFINE own == WindowOf(e + 1)
  <2>4. own.isOpen /\ own.start <= TimeOf(c)
    <3> HIDE DEF c
    <3> QED
      BY <1>1, <2>1, <2>2, <2>3, HoldingIsRecent
  <2>5. w = windows[Weekday(Date(c) - 1)] /\ own = windows[Weekday(Date(c))]
    BY <2>1, <2>2 DEF WindowOf
  <2> HIDE DEF c, w, own
  <2>6. RunsInto(c)
    BY <1>1, <1>4, <2>2, <2>4, <2>5 DEF RunsInto
  <2> QED
    BY <2>6 DEF c
<1>5. CASE ~CrossesMidnight(w)
  <2>1. c = Moment(e, w.end)
    BY <1>1, <1>5 DEF EndOf
  <2>2. Date(c) = e /\ TimeOf(c) = w.end
    BY <1>1, <2>1, DateOfMoment
  <2>3. Holding(e - 1, c)
    BY <1>2, <1>3, <2>2
  <2> DEFINE f == e - 1
             v == WindowOf(f)
  <2>4. v.isOpen /\ CrossesMidnight(v) /\ TimeOf(c) < v.end /\ f + 1 = e /\ f \in Int
    <3>1. e = Date(c) /\ e - 1 # e /\ (e - 1) + 1 = e /\ e - 1 \in Int
      BY <1>1, <2>2
    <3> HIDE DEF c
    <3> QED
      BY <1>1, <2>2, <2>3, <3>1, HoldingIsRecent
  <2>5. D = e
    BY <1>1, <1>5, HoldingIsRecent
  <2>6. Moment(f, v.start) <= now /\ v.end \in Hours /\ v.start \in Hours
    <3>1. v.start \in Hours /\ v.end \in Hours
      BY <2>4, WindowType
    <3>2. f < D
      BY <1>1, <2>4, <2>5
    <3> QED
      BY <2>4, <3>1, <3>2, NowIs
  <2>7. Holding(f, now)
    <3>1. c < EndOf(f) /\ EndOf(f) \in Int
      BY <1>1, <2>3, <2>4, StartBeforeEnd DEF Holding
    <3>2. now < EndOf(f)
      BY <1>1, <3>1
    <3> QED
      BY <2>4, <2>6, <3>2 DEF Holding
  <2>8. Status = Open(v)
    BY <1>1, <2>5, <2>7, StatusIs
  <2>9. v.end = w.end
    BY <2>8 DEF Open
  <2>10. v.end \in Int
    BY <2>6, HoursAreTicks
  <2> HIDE DEF c, v, w
  <2> QED
    BY <2>2, <2>4, <2>9, <2>10
<1> QED
  BY <1>4, <1>5

LEMMA HourIsTrue ==
  ASSUME ClockInv
  PROVE  AnnouncedHourIsTrue
<1> DEFINE D == Date(now)
           Stays(open, until) == \A moment \in now .. until - 1 : IsOpenAt(moment) = open
<1>0. \A m : IsOpenAt(m) \in BOOLEAN
  BY DEF IsOpenAt
<1>1. ASSUME NEW e \in {D - 1, D}, OpenFor(e)
      PROVE  AnnouncedHourIsTrue
  <2>1. D \in Int /\ e \in Int
    BY NowIs
  <2>2. Holding(e, now) /\ Status.open /\ Status.closesAt = WindowOf(e).end
    BY <1>1 DEF OpenFor, Open
  <2> DEFINE midnight == Moment(D, 0)
             closing == IF Status.closesAt > TimeOf(now) THEN midnight + Status.closesAt
                        ELSE midnight + TicksPerDay + Status.closesAt
  <2>3. closing = EndOf(e)
    BY <2>2, ClosingIsTheEnd
  <2>4. \A m \in now .. EndOf(e) - 1 : IsOpenAt(m)
    BY <2>1, <2>2, OpenUntilItEnds
  <2>5. Stays(TRUE, closing)
    <3> HIDE DEF closing
    <3> QED
      BY <1>0, <2>3, <2>4
  <2>6. IsOpenAt(closing) => RunsInto(closing)
    BY <1>1, <2>2, <2>3, OpenAtItsEnd
  <2> QED
    BY <2>2, <2>5, <2>6 DEF AnnouncedHourIsTrue
<1>2. ASSUME Status = NeverOpens, \A day \in Int : ~WindowOf(day).isOpen
      PROVE  AnnouncedHourIsTrue
  <2> DEFINE until == now + Moment(DaysInWeek, 0)
  <2>1. now \in Int /\ until \in Int
    <3>1. 0 \in Hours /\ DaysInWeek \in Int
      BY HoursAreTicks
    <3> QED
      BY <3>1, NowIs
  <2> HIDE DEF until
  <2>2. ASSUME NEW m \in now .. until - 1 PROVE IsOpenAt(m) = FALSE
    <3>1. m \in Int
      BY <2>1
    <3>2. \A day \in Int : ~Holding(day, m)
      BY <1>2 DEF Holding
    <3>3. ~IsOpenAt(m)
      BY <3>1, <3>2, OpenWhenHeld
    <3> QED
      BY <1>0, <3>3
  <2>3. Stays(FALSE, until)
    BY <2>2
  <2> QED
    BY <1>2, <2>3 DEF AnnouncedHourIsTrue, until
<1>3. ASSUME NEW n \in Nat, Status = OpensIn(n, WindowOf(D + n)),
             LET opening == Moment(D + n, WindowOf(D + n).start) IN
             /\ opening > now
             /\ \A m \in now .. opening - 1 : ~IsOpenAt(m)
             /\ IsOpenAt(opening)
      PROVE  AnnouncedHourIsTrue
  <2>1. /\ Status.offset = n /\ Status.time = WindowOf(D + n).start /\ ~Status.open
    BY <1>3 DEF OpensIn
  <2>2. Status # NeverOpens
    BY <2>1 DEF NeverOpens
  <2> DEFINE opening == Moment(D + Status.offset, Status.time)
  <2>3. /\ opening > now /\ IsOpenAt(opening)
        /\ \A m \in now .. opening - 1 : ~IsOpenAt(m)
    BY <1>3, <2>1
  <2>4. Stays(FALSE, opening)
    <3> HIDE DEF opening
    <3> QED
      BY <1>0, <2>3
  <2> QED
    BY <2>1, <2>2, <2>3, <2>4 DEF AnnouncedHourIsTrue
<1>4. CASE OpenFor(D - 1) \/ OpenFor(D)
  BY <1>1, <1>4
<1>5. CASE ~Holding(D - 1, now) /\ ~Holding(D, now) /\ OpensToday
  <2>1. D \in Int /\ D + 0 = D
    BY NowIs
  <2>2. Status = OpensIn(0, WindowOf(D + 0)) /\ WindowOf(D + 0).isOpen
        /\ TimeOf(now) < WindowOf(D).start
    BY <1>5, <2>1 DEF OpensToday
  <2>3. LET opening == Moment(D + 0, WindowOf(D + 0).start) IN
        /\ opening > now
        /\ \A m \in now .. opening - 1 : ~IsOpenAt(m)
        /\ IsOpenAt(opening)
    BY <1>5, <2>2, OpensAtNextStart
  <2> QED
    BY <1>3, <2>2, <2>3
<1>6. CASE /\ ~Holding(D - 1, now) /\ ~Holding(D, now)
           /\ ~(WindowOf(D).isOpen /\ TimeOf(now) < WindowOf(D).start)
           /\ NextOpening(D, Status)
  <2>1. CASE Status = NeverOpens /\ \A day \in Int : ~WindowOf(day).isOpen
    BY <1>2, <2>1
  <2>2. ASSUME NEW n \in 1 .. DaysInWeek,
               Status = OpensIn(n, WindowOf(D + n)), WindowOf(D + n).isOpen,
               \A k \in 1 .. n - 1 : ~WindowOf(D + k).isOpen
        PROVE  AnnouncedHourIsTrue
    <3>1. n \in Nat /\ n > 0 /\ n # 0
      OBVIOUS
    <3>2. LET opening == Moment(D + n, WindowOf(D + n).start) IN
          /\ opening > now
          /\ \A m \in now .. opening - 1 : ~IsOpenAt(m)
          /\ IsOpenAt(opening)
      BY <1>6, <2>2, <3>1, OpensAtNextStart
    <3> QED
      BY <1>3, <2>2, <3>1, <3>2
  <2> QED
    BY <1>6, <2>1, <2>2 DEF NextOpening
<1> QED
  BY <1>4, <1>5, <1>6, Answers

-----------------------------------------------------------------------------
(* The clock: service dates. *)

StartedBy(day, m) == WindowOf(day).isOpen /\ Moment(day, WindowOf(day).start) <= m

Started(m) == {day \in Date(m) - DaysInWeek .. Date(m) : StartedBy(day, m)}

LEMMA ServiceDateIsTheLatest ==
  ASSUME ClockInv, NEW m \in Int
  PROVE  /\ ServiceDate(windows, m) = IF Started(m) = {} THEN NoDate ELSE Max(Started(m))
         /\ Started(m) \subseteq Int
         /\ Started(m) # {} =>
              Max(Started(m)) \in Started(m) /\ \A day \in Started(m) : day <= Max(Started(m))
<1>1. Date(m) \in Int /\ DaysInWeek \in Int
  BY MomentOf, HoursAreTicks
<1>2. ServiceDate(windows, m) = IF Started(m) = {} THEN NoDate ELSE Max(Started(m))
  BY DEF ServiceDate, Started, StartedBy, WindowOf
<1>3. Started(m) \subseteq Int /\ \A day \in Started(m) : day <= Date(m)
  BY <1>1 DEF Started
<1> QED
  BY <1>1, <1>2, <1>3, GreatestInt

\* One list of dates has one latest.
LEMMA SameLatest ==
  ASSUME ClockInv, NEW m \in Int, NEW s \in Started(m), \A day \in Started(m) : day <= s
  PROVE  ServiceDate(windows, m) = s
<1>1. /\ Max(Started(m)) \in Started(m) /\ s <= Max(Started(m))
      /\ Started(m) \subseteq Int
      /\ ServiceDate(windows, m) = Max(Started(m))
  BY ServiceDateIsTheLatest
<1>2. Max(Started(m)) <= s
  BY <1>1
<1> QED
  BY <1>1, <1>2

LEMMA OpenHasAServiceDate ==
  ASSUME ClockInv
  PROVE  OpenListHasAServiceDate
<1> SUFFICES ASSUME Status.open
             PROVE  ServiceDate(windows, now) \in {Date(now), Date(now) - 1}
  BY DEF OpenListHasAServiceDate
<1>1. now \in Int /\ Date(now) \in Int /\ DaysInWeek \in Int /\ DaysInWeek >= 1
  BY NowIs, HoursAreTicks
<1>2. Holding(Date(now), now) \/ Holding(Date(now) - 1, now)
  BY <1>1, OpenIffHeld, OpenWhenHeld DEF OpenWhileAWindowHolds
<1>3. PICK d \in Date(now) - 1 .. Date(now) : StartedBy(d, now)
  <2>1. Date(now) - 1 \in Date(now) - 1 .. Date(now) /\ Date(now) \in Date(now) - 1 .. Date(now)
    BY <1>1
  <2>2. \A d : Holding(d, now) => StartedBy(d, now)
    BY DEF Holding, StartedBy
  <2> QED
    BY <1>2, <2>1, <2>2
<1>4. d \in Started(now)
  <2>1. d \in Date(now) - DaysInWeek .. Date(now)
    BY <1>1
  <2> QED
    BY <1>3, <2>1 DEF Started
<1> DEFINE s == Max(Started(now))
<1>5. /\ ServiceDate(windows, now) = s /\ s \in Started(now) /\ d <= s
  BY <1>1, <1>4, ServiceDateIsTheLatest
<1>6. s \in Int /\ s <= Date(now)
  BY <1>1, <1>5 DEF Started
<1> HIDE DEF s
<1>7. s = Date(now) \/ s = Date(now) - 1
  BY <1>1, <1>5, <1>6
<1> QED
  BY <1>5, <1>7

\* An hour later the service date is the same, unless a window has just started.
LEMMA NumberingRestarts ==
  ASSUME ClockInv, NEW next \in Int, next = now + 1,
         ServiceDate(windows, next) # ServiceDate(windows, now)
  PROVE  /\ ServiceDate(windows, next) = Date(next)
         /\ windows[Weekday(Date(next))].isOpen
         /\ TimeOf(next) = windows[Weekday(Date(next))].start
<1> DEFINE D == Date(now)
           E == Date(next)
           Start(day) == Moment(day, WindowOf(day).start)
<1>1. /\ now \in Int /\ D \in Int /\ E \in Int
      /\ DaysInWeek \in Int /\ DaysInWeek >= 1
  BY NowIs, MomentOf, HoursAreTicks
<1>2. \A day \in Int :
        /\ Start(day) \in Int
        /\ Start(day) <= now => day <= D
        /\ Start(day) <= next => day <= E
        /\ day < D => Start(day) <= now
        /\ day < E => Start(day) <= next
  <2> SUFFICES ASSUME NEW day \in Int
               PROVE  /\ Start(day) \in Int
                      /\ Start(day) <= now => day <= D
                      /\ Start(day) <= next => day <= E
                      /\ day < D => Start(day) <= now
                      /\ day < E => Start(day) <= next
    OBVIOUS
  <2> DEFINE h == WindowOf(day).start
  <2>1. h \in Hours
    BY WindowType
  <2>2. TimeOf(now) \in Hours /\ TimeOf(next) \in Hours
        /\ now = Moment(D, TimeOf(now)) /\ next = Moment(E, TimeOf(next))
    BY <1>1, MomentOf
  <2> HIDE DEF h, D, E
  <2>3. /\ Moment(day, h) \in Int
        /\ Moment(day, h) <= now <=> day < D \/ (day = D /\ h <= TimeOf(now))
    BY <1>1, <2>1, <2>2, MomentOrder
  <2>4. Moment(day, h) <= next <=> day < E \/ (day = E /\ h <= TimeOf(next))
    BY <1>1, <2>1, <2>2, MomentOrder
  <2>5. /\ Moment(day, h) \in Int
        /\ Moment(day, h) <= now => day <= D
        /\ Moment(day, h) <= next => day <= E
        /\ day < D => Moment(day, h) <= now
        /\ day < E => Moment(day, h) <= next
    BY <1>1, <2>3, <2>4
  <2> QED
    BY <2>5 DEF h
<1>3. E = D \/ E = D + 1
  <2>1. 0 \in Hours
    BY HoursAreTicks
  <2>2. TimeOf(now) \in Hours /\ TimeOf(next) \in Hours
        /\ now = Moment(D, TimeOf(now)) /\ next = Moment(E, TimeOf(next))
    BY <1>1, MomentOf
  <2> HIDE DEF D, E
  <2>3. ~(E < D)
    <3> SUFFICES ASSUME E < D PROVE FALSE
      OBVIOUS
    <3>1. next <= now
      BY <1>1, <2>2, MomentOrder
    <3> QED
      BY <1>1, <3>1
  <2>4. ~(D + 1 < E)
    <3> SUFFICES ASSUME D + 1 < E PROVE FALSE
      OBVIOUS
    <3>1. D + 1 \in Int /\ D < D + 1 /\ ~(D + 1 < D) /\ D + 1 # D
      BY <1>1
    <3>2. Moment(D + 1, 0) \in Int /\ ~(Moment(D + 1, 0) <= now)
      BY <1>1, <2>1, <2>2, <3>1, MomentOrder
    <3>3. ~(next <= Moment(D + 1, 0))
      <4>1. ~(E < D + 1) /\ ~(E = D + 1)
        BY <1>1
      <4> QED
        BY <1>1, <2>1, <2>2, <3>1, <4>1, MomentOrder
    <3> QED
      BY <1>1, <3>2, <3>3
  <2> QED
    BY <1>1, <2>3, <2>4
<1> HIDE DEF D, E, Start
<1>s. /\ \A m, day : StartedBy(day, m) <=> WindowOf(day).isOpen /\ Start(day) <= m
      /\ \A day : day \in Started(now) <=> day \in D - DaysInWeek .. D /\ StartedBy(day, now)
      /\ \A day : day \in Started(next) <=> day \in E - DaysInWeek .. E /\ StartedBy(day, next)
  BY DEF StartedBy, Started, Start, D, E
<1>4. CASE \E day \in Int : WindowOf(day).isOpen /\ Start(day) = next
  <2>1. PICK day \in Int : WindowOf(day).isOpen /\ Start(day) = next
    BY <1>4
  <2>2. day = E /\ TimeOf(next) = WindowOf(day).start
    <3>1. WindowOf(day).start \in Hours
      BY WindowType
    <3>2. Date(Start(day)) = day /\ TimeOf(Start(day)) = WindowOf(day).start
      BY <3>1, DateOfMoment DEF Start
    <3> QED
      BY <2>1, <3>2 DEF E
  <2>3. StartedBy(E, next) /\ E \in E - DaysInWeek .. E
    BY <1>1, <1>s, <2>1, <2>2
  <2>4. E \in Started(next) /\ \A d \in Started(next) : d <= E
    BY <1>1, <1>s, <2>3
  <2>5. ServiceDate(windows, next) = E
    BY <2>4, SameLatest
  <2> QED
    BY <2>1, <2>2, <2>5 DEF WindowOf, E
<1>5. CASE \A day \in Int : ~(WindowOf(day).isOpen /\ Start(day) = next)
  <2>1. \A day \in Int : StartedBy(day, next) <=> StartedBy(day, now)
    <3> SUFFICES ASSUME NEW day \in Int, WindowOf(day).isOpen
                 PROVE  Start(day) <= next <=> Start(day) <= now
      BY <1>s
    <3>1. Start(day) \in Int /\ Start(day) # next
      BY <1>2, <1>5
    <3> QED
      BY <1>1, <3>1
  <2>2. CASE E = D
    <3>1. Started(next) = Started(now)
      <4>1. \A day : day \in Started(next) <=> day \in Started(now)
        BY <1>1, <1>s, <2>1, <2>2
      <4> QED
        BY <4>1
    <3>2. ServiceDate(windows, next) = ServiceDate(windows, now)
      BY <1>1, <3>1, ServiceDateIsTheLatest
    <3> QED
      BY <3>2
  <2>3. CASE E = D + 1
    <3> DEFINE old == D - DaysInWeek
    <3>1. old \in Int /\ old < D /\ WindowOf(old) = WindowOf(D)
      <4>1. Weekday(D - DaysInWeek) = Weekday(D)
        BY <1>1, WeekdayOf
      <4> QED
        BY <1>1, <4>1 DEF WindowOf
    <3>2. ~StartedBy(E, next)
      BY <1>1, <1>2, <1>s, <2>1, <2>3
    <3>3. StartedBy(old, now) => D \in Started(now) /\ D \in Started(next)
      <4> SUFFICES ASSUME StartedBy(old, now)
                   PROVE  D \in Started(now) /\ D \in Started(next)
        OBVIOUS
      <4>1. StartedBy(D, next)
        BY <1>1, <1>2, <1>s, <2>3, <3>1
      <4>2. D \in D - DaysInWeek .. D /\ D \in E - DaysInWeek .. E
        BY <1>1, <2>3
      <4> QED
        BY <1>1, <1>s, <2>1, <4>1, <4>2
    <3>4. \A day : day \in Started(next) <=> day \in Started(now) /\ day # old
      <4>1. \A day : day \in E - DaysInWeek .. E <=>
                       day = E \/ (day \in D - DaysInWeek .. D /\ day # old)
        BY <1>1, <2>3
      <4>2. E \notin D - DaysInWeek .. D
        BY <1>1, <2>3
      <4>3. D - DaysInWeek .. D \subseteq Int
        OBVIOUS
      <4> HIDE DEF old
      <4> QED
        BY <1>s, <2>1, <3>2, <4>1, <4>2, <4>3
    <3> HIDE DEF old
    <3>5. CASE Started(next) = {}
      <4>1. Started(now) = {}
        BY <1>s, <3>3, <3>4, <3>5
      <4> QED
        BY <1>1, <3>5, <4>1, ServiceDateIsTheLatest
    <3>6. CASE Started(next) # {}
      <4> DEFINE s == Max(Started(next))
      <4>1. /\ ServiceDate(windows, next) = s /\ s \in Started(next)
            /\ \A day \in Started(next) : day <= s
            /\ Started(next) \subseteq Int
        BY <3>6, ServiceDateIsTheLatest
      <4> HIDE DEF s
      <4>2. s \in Started(now) /\ s \in Int
        BY <3>4, <4>1
      <4>3. ASSUME NEW day \in Started(now) PROVE day <= s
        <5>1. CASE day = old
          <6>1. D \in Started(next)
            BY <1>s, <3>3, <4>3, <5>1
          <6> QED
            BY <1>1, <3>1, <4>1, <4>2, <5>1, <6>1
        <5>2. CASE day # old
          BY <3>4, <4>1, <4>3, <5>2
        <5> QED
          BY <5>1, <5>2
      <4>4. ServiceDate(windows, now) = s
        BY <1>1, <4>2, <4>3, SameLatest
      <4> QED
        BY <4>1, <4>4
    <3> QED
      BY <3>5, <3>6
  <2> QED
    BY <1>3, <2>2, <2>3
<1> QED
  BY <1>4, <1>5

-----------------------------------------------------------------------------
(* The clock: theorems. *)

LEMMA ClockInvariance == ClockSpec => []ClockInv
<1>1. First \in Int
  <2>1. 0 \in Hours /\ DaysInWeek \in Int
    BY HoursAreTicks
  <2> QED
    BY <2>1, MomentOrder DEF First
<1>2. ClockInit => ClockInv
  BY <1>1 DEF ClockInit, ClockInv
<1>3. ClockInv /\ [ClockNext]_clockVars => ClockInv'
  BY DEF ClockInv, ClockNext, Tick, SpringForward, FallBack, clockVars
<1> QED
  BY <1>2, <1>3, PTL DEF ClockSpec

\* evaluate_schedule: the list is open exactly while a window of the week holds
\* the moment, those that cross midnight included.
THEOREM OpenExactlyWhenHeld == ClockSpec => []OpenWhileAWindowHolds
<1>1. ClockInv => OpenWhileAWindowHolds
  BY OpenIffHeld
<1> QED
  BY <1>1, ClockInvariance, PTL

\* evaluate_schedule: open, the list stays so until the hour it announces and
\* closes then, save where a window that crosses midnight ends when the next day's
\* has started (RunsInto); closed, it opens when it says and not before, or never
\* when it says so.
THEOREM HoursAreTrue == ClockSpec => []AnnouncedHourIsTrue
<1>1. ClockInv => AnnouncedHourIsTrue
  BY HourIsTrue
<1> QED
  BY <1>1, ClockInvariance, PTL

\* service_date_at: while the list is open its service date is today's or
\* yesterday's, so a join that is accepted has a number.
THEOREM AJoinHasItsDate == ClockSpec => []OpenListHasAServiceDate
<1>1. ClockInv => OpenListHasAServiceDate
  BY OpenHasAServiceDate
<1> QED
  BY <1>1, ClockInvariance, PTL

\* service_date_at: as hours pass, the numbering restarts only when a window of
\* that day starts.
THEOREM NumberingIsStable == ClockSpec => NumberingRestartsWithAWindow
<1>1. ASSUME ClockInv, now' = now + 1, ServiceDate(windows, now') # ServiceDate(windows, now)
      PROVE  /\ ServiceDate(windows, now') = Date(now')
             /\ windows[Weekday(Date(now'))].isOpen
             /\ TimeOf(now') = windows[Weekday(Date(now'))].start
  <2>1. PICK next \in Int : next = now'
    BY <1>1 DEF ClockInv
  <2>2. next = now + 1 /\ ServiceDate(windows, next) # ServiceDate(windows, now)
    BY <1>1, <2>1
  <2>3. /\ ServiceDate(windows, next) = Date(next)
        /\ windows[Weekday(Date(next))].isOpen
        /\ TimeOf(next) = windows[Weekday(Date(next))].start
    BY <1>1, <2>2, NumberingRestarts
  <2> QED
    BY <2>1, <2>3
<1>2. ClockInv => [now' = now + 1 /\ ServiceDate(windows, now') # ServiceDate(windows, now) =>
         /\ ServiceDate(windows, now') = Date(now')
         /\ windows[Weekday(Date(now'))].isOpen
         /\ TimeOf(now') = windows[Weekday(Date(now'))].start]_clockVars
  BY <1>1
<1> QED
  BY <1>2, ClockInvariance, PTL DEF NumberingRestartsWithAWindow
=============================================================================
