----------------------------- MODULE QueueEntry -----------------------------
(***************************************************************************)
(* A queue entry and its status machine: the pure rules every transaction  *)
(* on an entry consults before it writes (app/waitlist/domain), and the    *)
(* table of entries they are kept in.                                      *)
(***************************************************************************)
EXTENDS Naturals

ActiveStatuses == {"waiting", "called"}
FinalStatuses  == {"seated", "cancelled", "no_show", "removed"}
Statuses       == ActiveStatuses \cup FinalStatuses

Actors == {"diner", "host"}

\* Fault: a no-show may be called again.
ReturnTransitions(s) ==
  CASE s = "waiting" -> {"called", "cancelled", "removed"}
    [] s = "called"  -> {"seated", "no_show", "cancelled", "removed"}
    [] s = "no_show" -> {"called"}
    [] OTHER         -> {}

\* Where an entry may go from each status; a final status leads nowhere.
AllowedTransitions(s) ==
  CASE s = "waiting" -> {"called", "cancelled", "removed"}
    [] s = "called"  -> {"seated", "no_show", "cancelled", "removed"}
    [] OTHER         -> {}

\* Who may bring an entry to each status; "waiting" is nobody's target.
AllowedActors(target) ==
  CASE target = "cancelled"                                 -> {"diner"}
    [] target \in {"called", "seated", "no_show", "removed"} -> {"host"}
    [] OTHER                                                -> {}

\* The verdict of decide(): an actor without the right, or an impossible
\* move, is refused with an error; the status it already has is a no-op.
Decide(current, target, actor) ==
  IF actor \notin AllowedActors(target)               THEN "refuse"
  ELSE IF current = target                            THEN "noop"
  ELSE IF target \notin AllowedTransitions(current)   THEN "refuse"
  ELSE "apply"

\* NoTime stands for a timestamp column that is NULL.
NoTime == 0

(***************************************************************************)
(* The columns of an entry that the rules read or write. Name, party size  *)
(* and consent never change after the insert and decide nothing, so a row  *)
(* leaves them out.                                                        *)
(***************************************************************************)
NewEntry(venue, phone, date, ticket, now) ==
  [venue |-> venue, phone |-> phone, date |-> date, ticket |-> ticket,
   status |-> "waiting", joinedAt |-> now,
   calledAt |-> NoTime, onTheWayAt |-> NoTime, endedAt |-> NoTime]

AfterTransition(row, target, now) ==
  IF target = "called"
  THEN [row EXCEPT !.status = target, !.calledAt = now]
  ELSE [row EXCEPT !.status = target, !.endedAt = now]

\* Fault: the notice starts the hold again.
OnTheWayExtendsHold(row, now) == [row EXCEPT !.onTheWayAt = now, !.calledAt = now]

AfterOnTheWay(row, now) == [row EXCEPT !.onTheWayAt = now]

\* The verdict of mark_on_the_way(): only a called entry may say so, and a
\* second notice changes nothing.
DecideOnTheWay(row) ==
  IF row.status # "called"          THEN "refuse"
  ELSE IF row.onTheWayAt # NoTime   THEN "noop"
  ELSE "apply"

\* The entry_event rows of the entity's operations: JoinedEvent, StatusEvent
\* and OnTheWayEvent.
JoinedEvent(now) ==
  [type |-> "joined", from |-> "none", to |-> "waiting", actor |-> "diner", at |-> now]

\* Fault: the event is built after the status was assigned.
StatusEventLate(row, target, actor, now) ==
  [type |-> target, from |-> target, to |-> target, actor |-> actor, at |-> now]

StatusEvent(row, target, actor, now) ==
  [type |-> target, from |-> row.status, to |-> target, actor |-> actor, at |-> now]

OnTheWayEvent(now) ==
  [type |-> "on_the_way", from |-> "called", to |-> "called", actor |-> "diner", at |-> now]
-----------------------------------------------------------------------------
(* A table maps the primary keys it holds to rows. *)

\* The table with row e written: inserted or replaced.
Put(table, e, row) ==
  [x \in DOMAIN table \cup {e} |-> IF x = e THEN row ELSE table[x]]

\* The entries of a phone that wait or are called in a venue.
ActiveOf(table, v, p) ==
  {e \in DOMAIN table : /\ table[e].venue = v
                        /\ table[e].phone = p
                        /\ table[e].status \in ActiveStatuses}
=============================================================================
