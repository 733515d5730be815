------------------------------ MODULE QueueView ------------------------------
(***************************************************************************)
(* What the waitlist answers about itself while the ledger of entries      *)
(* changes: the position and the estimate of a diner, the panel of the     *)
(* host with its summary of the service date, the hold of a called diner   *)
(* and the search of a ticket. The operations are those of QueueLedger at  *)
(* the clock's reading; a join may commit after the clock has moved on, so *)
(* entries do not appear in the order of their joined_at.                  *)
(***************************************************************************)
EXTENDS QueueLedger, Positioning, SequencesExt

CONSTANTS
  MinutesPerPosition,   \* of every venue
  HoldMinutes,          \* clock readings a called diner's place is kept
  MaxLag                \* bound: how late a join may commit

ASSUME ViewAssumption ==
  /\ MinutesPerPosition \in Nat /\ HoldMinutes \in Nat /\ MaxLag \in Nat
  /\ Times # {} /\ Dates \subseteq Int

VARIABLES
  clock,
  serviceDate    \* each venue's service date at each reading of the clock

viewVars == <<entries, history, lastTicket, clock, serviceDate>>

\* By itself the service date never goes back (module VenueClock); a host who
\* edits the schedule, or a clock that is set back, may take it anywhere.
ServiceDays == [Venues -> [Times -> Dates]]

NeverBack(v) ==
  \A s, t \in Times : s <= t => serviceDate[v][s] <= serviceDate[v][t]

ViewInit == Init /\ clock = Min(Times) /\ serviceDate \in ServiceDays

\* A join that read the clock a while ago, and the service date with it. Keys
\* come in the order of the inserts.
Join(v, p) ==
  \E at \in {t \in Times : t <= clock /\ clock <= t + MaxLag} :
    /\ Enter(Cardinality(DOMAIN entries) + 1, v, p, serviceDate[v][at], at)
    /\ UNCHANGED <<clock, serviceDate>>

Move(e) ==
  /\ \/ \E target \in Statuses, actor \in Actors : Change(e, target, actor, clock)
     \/ OnTheWay(e, clock)
  /\ UNCHANGED <<clock, serviceDate>>

Tick ==
  /\ clock + 1 \in Times
  /\ clock' = clock + 1
  /\ UNCHANGED <<entries, history, lastTicket, serviceDate>>

ViewNext ==
  \/ Cardinality(DOMAIN entries) + 1 \in Ids /\ \E v \in Venues, p \in Phones : Join(v, p)
  \/ \E e \in DOMAIN entries : Move(e)
  \/ Tick

ViewSpec == ViewInit /\ [][ViewNext]_viewVars

-----------------------------------------------------------------------------
(* The queries. *)

\* Fault: by ticket, which restarts with the service date.
BeforeByTicket(e, f) ==
  \/ entries[e].ticket < entries[f].ticket
  \/ entries[e].ticket = entries[f].ticket /\ e < f

\* QueueEntry.sort_key: by joined_at, then by primary key.
Before(e, f) ==
  \/ entries[e].joinedAt < entries[f].joinedAt
  \/ entries[e].joinedAt = entries[f].joinedAt /\ e < f

\* A finite set of entries as a list in that order.
Sorted(S) ==
  CHOOSE list \in [1 .. Cardinality(S) -> S] :
    \A i, j \in DOMAIN list : i < j => Before(list[i], list[j])

\* list_active: waiting and called, of every service date of the venue.
ListActive(v) ==
  Sorted({e \in DOMAIN entries : /\ entries[e].venue = v
                                 /\ entries[e].status \in ActiveStatuses})

IsWaiting(e) == entries[e].status = "waiting"

\* Fault: the first one is number 0.
PositionsFromZero(list) ==
  LET waiting == Sorted({e \in ToSet(list) : IsWaiting(e)})
  IN [e \in ToSet(waiting) |-> (CHOOSE i \in DOMAIN waiting : waiting[i] = e) - 1]

\* compute_positions: the waiting ones in their order, numbered from 1.
ComputePositions(list) ==
  LET waiting == Sorted({e \in ToSet(list) : IsWaiting(e)})
  IN [e \in ToSet(waiting) |-> CHOOSE i \in DOMAIN waiting : waiting[i] = e]

Position(e) == ComputePositions(ListActive(entries[e].venue))[e]

\* build_entry_view: position and estimate of an entry that waits.
EntryView(e) ==
  [position |-> Position(e), eta |-> EtaRange(Position(e), MinutesPerPosition)]

\* QueueEntry.is_hold_expired, at the clock's reading.
HoldExpired(e) ==
  /\ entries[e].status = "called"
  /\ clock > entries[e].calledAt + HoldMinutes

\* count_by_status, of one service date.
CountByStatus(v, d, statuses) ==
  Cardinality({e \in OfDay(v, d) : entries[e].status \in statuses})

\* Fault: a removed diner is not counted.
FinishedButRemoved(v, d) ==
  [seated |-> CountByStatus(v, d, {"seated"}),
   left   |-> CountByStatus(v, d, {"cancelled"}),
   noShow |-> CountByStatus(v, d, {"no_show"})]

Finished(v, d) ==
  [seated |-> CountByStatus(v, d, {"seated"}),
   left   |-> CountByStatus(v, d, {"cancelled", "removed"}),
   noShow |-> CountByStatus(v, d, {"no_show"})]

\* GetHostQueueUseCase: the rows the panel lists, how many of them wait, and
\* the summary of the service date.
HostQueue(v) ==
  LET rows    == ListActive(v)
      waiting == Cardinality({i \in DOMAIN rows : IsWaiting(rows[i])})
  IN [rows |-> rows, waiting |-> waiting, called |-> Len(rows) - waiting,
      finished |-> Finished(v, serviceDate[v][clock])]

WithTicket(v, n, p) ==
  {e \in DOMAIN entries : /\ entries[e].venue = v
                          /\ entries[e].ticket = n
                          /\ entries[e].phone = p}

\* Fault: the oldest service date.
LookupOldest(v, n, p) ==
  CHOOSE e \in WithTicket(v, n, p) :
    \A f \in WithTicket(v, n, p) : entries[f].date >= entries[e].date

\* find_for_lookup: by service date, then joined_at, the latest first.
FindForLookup(v, n, p) ==
  CHOOSE e \in WithTicket(v, n, p) :
    \A f \in WithTicket(v, n, p) :
      \/ entries[f].date < entries[e].date
      \/ entries[f].date = entries[e].date /\ entries[f].joinedAt <= entries[e].joinedAt

\* LookupTicketUseCase: the entry found, or none for whatever datum is wrong.
LookupTicket(v, n, p) ==
  IF WithTicket(v, n, p) = {} THEN {} ELSE {FindForLookup(v, n, p)}

-----------------------------------------------------------------------------
(* Properties. *)

\* The ledger's rows, and views that never fail to number who waits.
ViewTypeOK ==
  /\ TypeOK
  /\ clock \in Times
  /\ \A e \in DOMAIN entries : IsWaiting(e) =>
       EntryView(e).position \in 1 .. HostQueue(entries[e].venue).waiting

\* Every number issued for the service date in course is on the panel: in its
\* rows, or counted once in its summary.
EveryTicketIsAccountedFor ==
  \A v \in Venues :
    LET d    == serviceDate[v][clock]
        view == HostQueue(v)
        done == view.finished
    IN lastTicket[<<v, d>>] =
         done.seated + done.left + done.noShow
           + Cardinality({i \in DOMAIN view.rows : entries[view.rows[i]].date = d})

\* A search by ticket and phone answers the entry that joined last among those
\* that carry them, though it orders by service date: the one that may be live.
\* Not so where the service date went back: the entry of the later date hides
\* the one that joined after it.
LookupFindsTheMostRecent ==
  \A e \in DOMAIN entries : NeverBack(entries[e].venue) =>
    \E f \in LookupTicket(entries[e].venue, entries[e].ticket, entries[e].phone) :
      /\ entries[f].joinedAt >= entries[e].joinedAt
      /\ entries[e].status \in ActiveStatuses /\ entries[f].status \in FinalStatuses
           => entries[f].joinedAt > entries[e].joinedAt

\* A diner loses places only to a join that had read the clock before the
\* diner's own and committed after it; any other step keeps or gains places.
NobodyIsOvertaken ==
  [][\A e \in DOMAIN entries :
       IsWaiting(e) /\ entries'[e].status = "waiting" /\ Position(e)' > Position(e)
       => /\ Position(e)' = Position(e) + 1
          /\ \E f \in DOMAIN entries' \ DOMAIN entries :
               entries'[f].joinedAt < entries[e].joinedAt]_viewVars

\* A hold that has expired stays so until the host decides: no notice of the
\* diner extends it.
HoldStaysExpired ==
  [][\A e \in DOMAIN entries :
       HoldExpired(e) /\ entries'[e].status = "called" => HoldExpired(e)']_viewVars
=============================================================================
