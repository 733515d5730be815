------------------------------ MODULE VenueClock ------------------------------
(***************************************************************************)
(* A venue as time goes by: the local clock ticks, or is set forward or    *)
(* back by the time zone's rules, under a schedule the host chose. What    *)
(* the list says of itself at each moment is compared with what it does at *)
(* the moments that follow.                                                *)
(***************************************************************************)
EXTENDS Schedule

CONSTANT Horizon   \* bound: days of the run, after a first week

ASSUME HorizonAssumption == Horizon \in Nat \ {0}

VARIABLES windows, now

clockVars == <<windows, now>>

First == Moment(DaysInWeek, 0)
Last  == Moment(DaysInWeek + Horizon, 0)

ClockInit == windows \in [Weekdays -> Windows] /\ now = First

Tick == now < Last /\ now' = now + 1 /\ UNCHANGED windows

\* Daylight saving: an hour is skipped in spring and repeated in autumn.
SpringForward == now + 2 <= Last /\ now' = now + 2 /\ UNCHANGED windows
FallBack      == now > First /\ now' = now - 1 /\ UNCHANGED windows

ClockNext == Tick \/ SpringForward \/ FallBack

ClockSpec == ClockInit /\ [][ClockNext]_clockVars

-----------------------------------------------------------------------------
Status == EvaluateSchedule(windows, now)

\* The definition by containment: some day's window holds the moment.
IsOpenAt(moment) ==
  \E day \in Date(moment) - 1 .. Date(moment) :
    LET w   == windows[Weekday(day)]
        end == Moment(IF CrossesMidnight(w) THEN day + 1 ELSE day, w.end)
    IN w.isOpen /\ Moment(day, w.start) <= moment /\ moment < end

\* The list is open exactly while a window of the week holds the moment, the
\* windows that cross midnight included.
OpenWhileAWindowHolds == Status.open <=> IsOpenAt(now)

\* The window of the day before ends at that moment, and the day's own window has
\* started by then.
RunsInto(moment) ==
  LET before == windows[Weekday(Date(moment) - 1)]
      own    == windows[Weekday(Date(moment))]
  IN /\ before.isOpen /\ CrossesMidnight(before) /\ before.end = TimeOf(moment)
     /\ own.isOpen /\ own.start <= before.end

\* What the list says is true. Open, it stays open until the hour it announces and
\* closes then, unless that hour ends a window that crosses midnight and the next
\* day's has started: the code announces that hour though the list goes on.
\* Closed, it opens at the moment it announces and not before, or never if it
\* announces none.
AnnouncedHourIsTrue ==
  LET midnight == Moment(Date(now), 0)
      closing  == IF Status.closesAt > TimeOf(now) THEN midnight + Status.closesAt
                  ELSE midnight + TicksPerDay + Status.closesAt
      opening  == Moment(Date(now) + Status.offset, Status.time)
      Stays(open, until) == \A moment \in now .. until - 1 : IsOpenAt(moment) = open
  IN \/ /\ Status.open /\ Stays(TRUE, closing)
        /\ IsOpenAt(closing) => RunsInto(closing)
     \/ Status = NeverOpens /\ Stays(FALSE, now + Moment(DaysInWeek, 0))
     \/ /\ ~Status.open /\ Status # NeverOpens
        /\ opening > now /\ Stays(FALSE, opening) /\ IsOpenAt(opening)

\* A join that is accepted has a service date, today's or yesterday's.
OpenListHasAServiceDate ==
  Status.open => ServiceDate(windows, now) \in {Date(now), Date(now) - 1}

\* Tickets restart only when a window starts, never at midnight or at closing
\* time, and an hour that passes does not bring an old service date back.
NumberingRestartsWithAWindow ==
  [][now' = now + 1 /\ ServiceDate(windows, now') # ServiceDate(windows, now) =>
       /\ ServiceDate(windows, now') = Date(now')
       /\ windows[Weekday(Date(now'))].isOpen
       /\ TimeOf(now') = windows[Weekday(Date(now'))].start]_clockVars
=============================================================================
