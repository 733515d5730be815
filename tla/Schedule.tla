------------------------------- MODULE Schedule -------------------------------
(***************************************************************************)
(* A venue's weekly opening hours (app/venues/domain): is the list open at *)
(* a local time, until when, when next, and to which service date does a   *)
(* ticket belong. A day has TicksPerDay ticks; a local time is a number of *)
(* ticks since a fixed midnight, so a date is a number of days and its     *)
(* weekday is the number modulo DaysInWeek.                                *)
(***************************************************************************)
EXTENDS Integers, FiniteSetsExt

CONSTANTS DaysInWeek, TicksPerDay

ASSUME ScheduleAssumption ==
  DaysInWeek \in Nat \ {0} /\ TicksPerDay \in Nat \ {0}

Weekdays == 0 .. DaysInWeek - 1
Hours    == 0 .. TicksPerDay - 1

\* What validate_schedule and the table's CHECK let in: an open day starts and
\* ends at different hours. A closed day's hours decide nothing.
ValidWindow(w) == w.isOpen => w.start # w.end
Windows   == {w \in [isOpen : BOOLEAN, start : Hours, end : Hours] : ValidWindow(w)}
ClosedDay == [isOpen |-> FALSE, start |-> 0, end |-> 0]

\* An end that is not after the start belongs to the next day.
CrossesMidnight(w) == w.end <= w.start

Date(now)    == now \div TicksPerDay
TimeOf(now)  == now % TicksPerDay
Weekday(day) == day % DaysInWeek
Moment(day, time) == day * TicksPerDay + time

NoDate == -1

\* Fault: this weekday last week is not asked.
ServiceDateInWeek(windows, now) ==
  LET started == {day \in Date(now) - DaysInWeek + 1 .. Date(now) :
                    LET w == windows[Weekday(day)]
                    IN w.isOpen /\ Moment(day, w.start) <= now}
  IN IF started = {} THEN NoDate ELSE Max(started)

\* Fault: a window has started only after its first tick.
ServiceDateAfterStart(windows, now) ==
  LET started == {day \in Date(now) - DaysInWeek .. Date(now) :
                    LET w == windows[Weekday(day)]
                    IN w.isOpen /\ Moment(day, w.start) < now}
  IN IF started = {} THEN NoDate ELSE Max(started)

\* service_date_at: the first date, going back from today to this weekday last
\* week, whose window has started.
ServiceDate(windows, now) ==
  LET started == {day \in Date(now) - DaysInWeek .. Date(now) :
                    LET w == windows[Weekday(day)]
                    IN w.isOpen /\ Moment(day, w.start) <= now}
  IN IF started = {} THEN NoDate ELSE Max(started)

Open(w)      == [open |-> TRUE, closesAt |-> w.end]
OpensIn(n, w) == [open |-> FALSE, offset |-> n, time |-> w.start]
NeverOpens   == [open |-> FALSE, offset |-> -1]

\* The rest of evaluate_schedule: the first open day after today.
NextDay(windows, weekday) ==
  LET offsets == {n \in 1 .. DaysInWeek : windows[(weekday + n) % DaysInWeek].isOpen}
  IN IF offsets = {} THEN NeverOpens
     ELSE OpensIn(Min(offsets), windows[(weekday + Min(offsets)) % DaysInWeek])

\* Fault: yesterday's window is asked last.
EvaluateTodayFirst(windows, now) ==
  LET time      == TimeOf(now)
      weekday   == Weekday(Date(now))
      today     == windows[weekday]
      yesterday == windows[(weekday - 1) % DaysInWeek]
  IN IF today.isOpen /\ today.start <= time /\ (CrossesMidnight(today) \/ time < today.end)
     THEN Open(today)
     ELSE IF today.isOpen /\ time < today.start THEN OpensIn(0, today)
     ELSE IF yesterday.isOpen /\ CrossesMidnight(yesterday) /\ time < yesterday.end
     THEN Open(yesterday)
     ELSE NextDay(windows, weekday)

\* Fault: yesterday's window is asked only when today's does not hold.
EvaluateTodayBeforeYesterday(windows, now) ==
  LET time      == TimeOf(now)
      weekday   == Weekday(Date(now))
      today     == windows[weekday]
      yesterday == windows[(weekday - 1) % DaysInWeek]
  IN IF today.isOpen /\ today.start <= time /\ (CrossesMidnight(today) \/ time < today.end)
     THEN Open(today)
     ELSE IF yesterday.isOpen /\ CrossesMidnight(yesterday) /\ time < yesterday.end
     THEN Open(yesterday)
     ELSE IF today.isOpen /\ time < today.start THEN OpensIn(0, today)
     ELSE NextDay(windows, weekday)

\* evaluate_schedule, in its order: the window of yesterday that is still open,
\* then today's, open or to come, then the days after.
EvaluateSchedule(windows, now) ==
  LET time      == TimeOf(now)
      weekday   == Weekday(Date(now))
      today     == windows[weekday]
      yesterday == windows[(weekday - 1) % DaysInWeek]
  IN IF yesterday.isOpen /\ CrossesMidnight(yesterday) /\ time < yesterday.end
     THEN Open(yesterday)
     ELSE IF today.isOpen /\ today.start <= time /\ (CrossesMidnight(today) \/ time < today.end)
     THEN Open(today)
     ELSE IF today.isOpen /\ time < today.start THEN OpensIn(0, today)
     ELSE NextDay(windows, weekday)
=============================================================================
