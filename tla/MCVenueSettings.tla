---------------------------- MODULE MCVenueSettings ----------------------------
(* Hosts who save one of three weeks of two days of three hours. *)
EXTENDS VenueSettings

\* Monday closed and Tuesday from 0 to 2; two hosts then open Monday and move
\* one end each of Tuesday, which leaves it none if both do.
Day(open, start, end) == [isOpen |-> open, start |-> start, end |-> end]
Week(monday, tuesday) == [d \in {0, 1} |-> IF d = 0 THEN monday ELSE tuesday]

Weeks == {Week(ClosedDay, Day(TRUE, 0, 2)),
          Week(Day(TRUE, 0, 1), Day(TRUE, 1, 2)),
          Week(Day(TRUE, 2, 1), Day(TRUE, 0, 1))}
=============================================================================
