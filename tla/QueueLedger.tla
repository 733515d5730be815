----------------------------- MODULE QueueLedger -----------------------------
(***************************************************************************)
(* What the waitlist promises, one operation at a time: a ledger of queue  *)
(* entries in which every operation is a single atomic step on the current *)
(* state. Module Waitlist shows that the interleaved database transactions *)
(* of the program implement it.                                            *)
(***************************************************************************)
EXTENDS QueueEntry, Sequences

CONSTANTS Venues, Phones,
          Ids,         \* primary keys of queue_entry
          Dates,       \* service dates, as day numbers
          Times        \* the clock readings a timestamp may hold

ASSUME LedgerAssumption == Times \subseteq Nat \ {NoTime}

VARIABLES entries,     \* the queue_entry rows, by primary key
          history,     \* the entry_event rows of each entry, in order
          lastTicket   \* the service_day_counter rows, 0 when there is none

vars == <<entries, history, lastTicket>>

OfDay(v, d) == {e \in DOMAIN entries : entries[e].venue = v /\ entries[e].date = d}

Rows == [venue : Venues, phone : Phones, date : Dates, ticket : Nat,
         status : Statuses, joinedAt : Times,
         calledAt : Times \cup {NoTime}, onTheWayAt : Times \cup {NoTime},
         endedAt : Times \cup {NoTime}]

Events == [type : Statuses \cup {"joined", "on_the_way"},
           from : Statuses \cup {"none"}, to : Statuses,
           actor : Actors, at : Times]

Init ==
  /\ entries = [e \in {} |-> 0]
  /\ history = [e \in {} |-> 0]
  /\ lastTicket = [vd \in Venues \X Dates |-> 0]

(***************************************************************************)
(* A diner enters the queue with the next number of the service date.      *)
(***************************************************************************)
Enter(e, v, p, d, now) ==
  /\ e \notin DOMAIN entries
  /\ ActiveOf(entries, v, p) = {}
  /\ lastTicket' = [lastTicket EXCEPT ![<<v, d>>] = @ + 1]
  /\ entries' = Put(entries, e, NewEntry(v, p, d, lastTicket[<<v, d>>] + 1, now))
  /\ history' = Put(history, e, <<JoinedEvent(now)>>)

(***************************************************************************)
(* The host or the diner moves an entry to another status.                 *)
(***************************************************************************)
Change(e, target, actor, now) ==
  /\ e \in DOMAIN entries
  /\ Decide(entries[e].status, target, actor) = "apply"
  /\ entries' = Put(entries, e, AfterTransition(entries[e], target, now))
  /\ history' = Put(history, e,
                    Append(history[e], StatusEvent(entries[e], target, actor, now)))
  /\ UNCHANGED lastTicket

(***************************************************************************)
(* A called diner tells the host that they are on their way.               *)
(***************************************************************************)
OnTheWay(e, now) ==
  /\ e \in DOMAIN entries
  /\ DecideOnTheWay(entries[e]) = "apply"
  /\ entries' = Put(entries, e, AfterOnTheWay(entries[e], now))
  /\ history' = Put(history, e, Append(history[e], OnTheWayEvent(now)))
  /\ UNCHANGED lastTicket

Next ==
  \E e \in Ids, now \in Times :
    \/ \E v \in Venues, p \in Phones, d \in Dates : Enter(e, v, p, d, now)
    \/ \E target \in Statuses, actor \in Actors : Change(e, target, actor, now)
    \/ OnTheWay(e, now)

Spec == Init /\ [][Next]_vars

-----------------------------------------------------------------------------
\* Types: the rows, the events and the counters, and one history per entry.
TypeOK ==
  /\ DOMAIN entries \subseteq Ids
  /\ \A e \in DOMAIN entries : entries[e] \in Rows
  /\ DOMAIN history = DOMAIN entries
  /\ \A e \in DOMAIN history : history[e] \in Seq(Events)
  /\ lastTicket \in [Venues \X Dates -> Nat]

\* The tickets of a venue's service date are 1, 2, ... up to the counter,
\* with no gap: no number is burned by an attempt that failed.
NoGaps ==
  \A v \in Venues, d \in Dates :
    {entries[e].ticket : e \in OfDay(v, d)} = 1 .. lastTicket[<<v, d>>]

\* No two diners of a venue's service date hold the same number.
TicketsUnique ==
  \A e, f \in DOMAIN entries :
    /\ entries[e].venue = entries[f].venue
    /\ entries[e].date = entries[f].date
    /\ entries[e].ticket = entries[f].ticket
    => e = f

\* A phone waits at most once in each venue.
OneActivePerPhone ==
  \A e, f \in DOMAIN entries :
    /\ entries[e].venue = entries[f].venue
    /\ entries[e].phone = entries[f].phone
    /\ entries[e].status \in ActiveStatuses
    /\ entries[f].status \in ActiveStatuses
    => e = f

\* The status and the timestamps of a row agree: only a final row has ended,
\* a called or seated row was called, and who is on the way was called first.
TimesFitStatus ==
  \A e \in DOMAIN entries : LET r == entries[e] IN
    /\ (r.endedAt # NoTime) <=> (r.status \in FinalStatuses)
    /\ r.status = "waiting" => r.calledAt = NoTime
    /\ r.status \in {"called", "seated", "no_show"} => r.calledAt # NoTime
    /\ r.onTheWayAt # NoTime => r.calledAt # NoTime

\* The history of an entry is a walk of the state machine that starts with
\* the join and ends in the status its row has.
HistoryIsAWalk ==
  \A e \in DOMAIN history : LET h == history[e] IN
    /\ h # <<>>
    /\ h[1].type = "joined"
    /\ h[Len(h)].to = entries[e].status
    /\ \A i \in 2 .. Len(h) :
         /\ h[i].from = h[i-1].to
         /\ \/ h[i].type = "on_the_way" /\ h[i].from = "called"
            \/ Decide(h[i].from, h[i].to, h[i].actor) = "apply"
=============================================================================
