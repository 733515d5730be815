------------------------------- MODULE Waitlist -------------------------------
(***************************************************************************)
(* The waitlist as the backend runs it: every HTTP request is one database *)
(* transaction of several awaited statements, and requests interleave at   *)
(* every await. The database is MySQL/InnoDB at REPEATABLE READ: a plain   *)
(* SELECT reads the snapshot taken by the transaction's first one, SELECT  *)
(* ... FOR UPDATE, the upsert of the counter and the unique indexes act on *)
(* the current rows, and locks are held until the commit or the rollback.  *)
(* A row's lock, the counter's lock and the claim on a phone are functions *)
(* of where each transaction is (Holds..., PhoneClaimed), not variables.   *)
(***************************************************************************)
EXTENDS QueueEntry, Sequences, FiniteSets

CONSTANTS Venues, Phones,
          Workers,      \* the requests that may be in progress at once
          Ops,          \* bound: what requests on an entry may ask for
          Nobody,       \* the phone, venue or worker of an idle slot
          MaxId,        \* bound: primary keys the run may allocate
          MaxTime,      \* bound: last reading of the clock
          MaxPauses,    \* bound: times a host pauses a list
          DayLength     \* clock readings in a calendar day

ASSUME WaitlistAssumption ==
  /\ MaxId \in Nat /\ MaxPauses \in Nat
  /\ MaxTime \in Nat \ {0} /\ DayLength \in Nat \ {0}
  /\ Ops \subseteq {"called", "seated", "no_show", "removed", "cancelled", "on_the_way"}
  /\ Nobody \notin Venues \cup Phones
  /\ IsFiniteSet(Workers)

VARIABLES
  entries, history,     \* the committed rows of queue_entry and entry_event
  lastTicket,           \* service_day_counter, uncommitted increments included
  nextId,               \* the AUTO_INCREMENT of queue_entry
  paused,               \* venue.is_paused, committed
  pauses,               \* how many times it was set so far
  clock,                \* the clock's reading
  pc,                   \* where each request is
  req,                  \* what it was asked: operation, venue, phone or entry
  seen,                 \* its snapshot's copy of the entry it is to change
  draft,                \* the row it is to write, then has written
  event                 \* the entry_event it is to write, then has written

db   == <<entries, history, lastTicket, nextId, paused, pauses>>
txn  == <<pc, req, seen, draft, event>>
vars == <<entries, history, lastTicket, nextId, paused, pauses, clock, pc, req, seen, draft, event>>

Ids   == 1 .. MaxId
Times == 1 .. MaxTime
Today == clock \div DayLength
Dates == 0 .. (MaxTime \div DayLength)

\* A join accepted now belongs to today's service date, or to yesterday's
\* when the venue's opening hours cross midnight.
ServiceDates == {d \in Dates : d = Today \/ d + 1 = Today}

HostTargets == {"called", "seated", "no_show", "removed"}
DinerOps    == {"cancelled", "on_the_way"}

NoRequest == [op |-> "none", venue |-> Nobody, phone |-> Nobody, entry |-> 0]
NoRow     == [NewEntry(Nobody, Nobody, 0, 0, NoTime) EXCEPT !.status = "none"]
NoEvent   == [type |-> "none", from |-> "none", to |-> "none", actor |-> "none", at |-> NoTime]

ActorOf(op) == IF op \in HostTargets THEN "host" ELSE "diner"

-----------------------------------------------------------------------------
(* Locks, as InnoDB grants them. *)

Joining(w) == req[w].op = "join"

\* Fault: the row is read without FOR UPDATE.
NoEntryLock(w, e) == FALSE

\* w holds the row lock of entry e, from SELECT ... FOR UPDATE to its end.
HoldsEntry(w, e) ==
  /\ ~Joining(w)
  /\ pc[w] \in {"save", "log", "commit"}
  /\ req[w].entry = e

\* w holds the counter row of venue v and date d, from the upsert to its end.
HoldsCounter(w, v, d) ==
  /\ Joining(w)
  /\ pc[w] \in {"insert", "log", "commit"}
  /\ draft[w].venue = v
  /\ draft[w].date = d

\* Faults: no unique index; a claim that is taken before the insert waits.
NoUniquePhone(w, v, p) == FALSE
EarlyClaim(w, v, p) == pc[w] = "insert" /\ draft[w].venue = v /\ draft[w].phone = p

\* w has an uncommitted change to the unique index (venue, active phone): an
\* inserted row, or a row that has just stopped being active.
ClaimsPhone(w, v, p) ==
  /\ pc[w] \in {"log", "commit"}
  /\ draft[w].venue = v
  /\ draft[w].phone = p
  /\ Joining(w) \/ draft[w].status \in FinalStatuses

-----------------------------------------------------------------------------
Init ==
  /\ entries = [e \in {} |-> NoRow]
  /\ history = [e \in {} |-> <<>>]
  /\ lastTicket = [vd \in Venues \X Dates |-> 0]
  /\ nextId = 1
  /\ paused = [v \in Venues |-> FALSE]
  /\ pauses = 0
  /\ clock = 1
  /\ pc = [w \in Workers |-> "idle"]
  /\ req = [w \in Workers |-> NoRequest]
  /\ seen = [w \in Workers |-> NoRow]
  /\ draft = [w \in Workers |-> NoRow]
  /\ event = [w \in Workers |-> NoEvent]

\* The request ends and its session is closed.
Finish(w) ==
  /\ pc' = [pc EXCEPT ![w] = "idle"]
  /\ req' = [req EXCEPT ![w] = NoRequest]
  /\ seen' = [seen EXCEPT ![w] = NoRow]
  /\ draft' = [draft EXCEPT ![w] = NoRow]
  /\ event' = [event EXCEPT ![w] = NoEvent]

\* Faults: the rollback keeps the number; it gives one back that was not taken.
UndoNothing(w) == UNCHANGED lastTicket
UndoEveryJoin(w) ==
  lastTicket' = IF Joining(w) /\ pc[w] \in {"count", "insert", "log", "commit"}
                THEN [lastTicket EXCEPT ![<<draft[w].venue, draft[w].date>>] = @ - 1]
                ELSE lastTicket

\* What a rollback undoes outside the request: the counter, if w holds it.
UndoTicket(w) ==
  lastTicket' = IF Joining(w) /\ pc[w] \in {"insert", "log", "commit"}
                THEN [lastTicket EXCEPT ![<<draft[w].venue, draft[w].date>>] = @ - 1]
                ELSE lastTicket

-----------------------------------------------------------------------------
(* JoinQueueUseCase *)

\* The joins in progress that may still allocate a key.
Unallocated == {u \in Workers : pc[u] \in {"count", "insert"}}

\* The snapshot of the transaction decides: the venue accepts, and the phone
\* has no active entry.
JoinStart(w, v, p, d) ==
  /\ pc[w] = "idle"
  /\ nextId + Cardinality(Unallocated) <= MaxId
  /\ ~paused[v]
  /\ ActiveOf(entries, v, p) = {}
  /\ d \in ServiceDates
  /\ pc' = [pc EXCEPT ![w] = "count"]
  /\ req' = [req EXCEPT ![w] = [NoRequest EXCEPT !.op = "join", !.venue = v, !.phone = p]]
  /\ draft' = [draft EXCEPT ![w] = NewEntry(v, p, d, 0, clock)]
  /\ UNCHANGED <<db, clock, seen, event>>

\* A list that is paused or outside its opening hours (the schedule is module
\* Schedule's matter), a bad form, or a phone that waits already: the request
\* ends with nothing written.
JoinTurnedAway(w) ==
  /\ pc[w] = "idle"
  /\ UNCHANGED vars

\* TicketCounter.next_ticket: waits for the counter's row, then increments it.
NextTicket(w) ==
  LET v == draft[w].venue
      d == draft[w].date
  IN
  /\ pc[w] = "count"
  /\ \A u \in Workers : ~HoldsCounter(u, v, d)
  /\ lastTicket' = [lastTicket EXCEPT ![<<v, d>>] = @ + 1]
  /\ draft' = [draft EXCEPT ![w].ticket = lastTicket[<<v, d>>] + 1]
  /\ pc' = [pc EXCEPT ![w] = "insert"]
  /\ UNCHANGED <<entries, history, nextId, paused, pauses, clock, req, seen, event>>

\* The INSERT waits while another transaction claims the phone.
InsertReady(w) ==
  /\ pc[w] = "insert"
  /\ \A u \in Workers \ {w} : ~ClaimsPhone(u, draft[w].venue, draft[w].phone)

\* QueueEntryRepository.add succeeds: the row gets its primary key.
InsertEntry(w) ==
  /\ InsertReady(w)
  /\ ActiveOf(entries, draft[w].venue, draft[w].phone) = {}
  /\ nextId' = nextId + 1
  /\ req' = [req EXCEPT ![w].entry = nextId]
  /\ event' = [event EXCEPT ![w] = JoinedEvent(draft[w].joinedAt)]
  /\ pc' = [pc EXCEPT ![w] = "log"]
  /\ UNCHANGED <<entries, history, lastTicket, paused, pauses, clock, seen, draft>>

\* The phone joined meanwhile: the ticket is given back and the key is burned.
InsertDuplicate(w) ==
  /\ InsertReady(w)
  /\ ActiveOf(entries, draft[w].venue, draft[w].phone) # {}
  /\ nextId' = nextId + 1
  /\ UndoTicket(w)
  /\ pc' = [pc EXCEPT ![w] = "reread"]
  /\ draft' = [draft EXCEPT ![w] = NoRow]
  /\ UNCHANGED <<entries, history, paused, pauses, clock, req, seen, event>>

\* After the rollback a new snapshot is read for the entry that won.
JoinReread(w) ==
  /\ pc[w] = "reread"
  /\ ActiveOf(entries, req[w].venue, req[w].phone) # {}
  /\ Finish(w)
  /\ UNCHANGED <<db, clock>>

\* It may have ended meanwhile: the router then fails on a missing entry.
JoinRereadMissing(w) ==
  /\ pc[w] = "reread"
  /\ ActiveOf(entries, req[w].venue, req[w].phone) = {}
  /\ pc' = [pc EXCEPT ![w] = "error"]
  /\ UNCHANGED <<db, clock, req, seen, draft, event>>

RespondError(w) ==
  /\ pc[w] = "error"
  /\ Finish(w)
  /\ UNCHANGED <<db, clock>>

-----------------------------------------------------------------------------
(* ChangeEntryStatusUseCase, LeaveQueueUseCase, NotifyOnTheWayUseCase *)

\* The host's panel of venue v acts on an entry: authentication reads the
\* transaction's snapshot before the entry is locked.
HostStart(w, v, e, target) ==
  /\ pc[w] = "idle"
  /\ e \in DOMAIN entries
  /\ pc' = [pc EXCEPT ![w] = "lock"]
  /\ req' = [req EXCEPT ![w] = [NoRequest EXCEPT !.op = target, !.venue = v, !.entry = e]]
  /\ seen' = [seen EXCEPT ![w] = entries[e]]
  /\ UNCHANGED <<db, clock, draft, event>>

\* The diner's page acts on its own entry: the lock is the first statement.
DinerStart(w, v, e, op) ==
  /\ pc[w] = "idle"
  /\ e \in DOMAIN entries
  /\ pc' = [pc EXCEPT ![w] = "lock"]
  /\ req' = [req EXCEPT ![w] = [NoRequest EXCEPT !.op = op, !.venue = v, !.entry = e]]
  /\ UNCHANGED <<db, clock, seen, draft, event>>

\* What the domain answers to request w on the locked row.
Verdict(w) ==
  LET row == entries[req[w].entry]
      op  == req[w].op
  IN IF row.venue # req[w].venue THEN "refuse"
     ELSE IF op = "on_the_way"   THEN DecideOnTheWay(row)
     ELSE Decide(row.status, op, ActorOf(op))

LockReady(w) ==
  /\ pc[w] = "lock"
  /\ \A u \in Workers \ {w} : ~HoldsEntry(u, req[w].entry)

\* The row is locked, read as it is now, and the domain computes the change.
\* A diner's snapshot is taken now, by the read of the venue.
LockEntry(w) ==
  LET row == entries[req[w].entry]
      op  == req[w].op
  IN
  /\ LockReady(w)
  /\ Verdict(w) = "apply"
  /\ seen' = [seen EXCEPT ![w] = IF op \in DinerOps THEN row ELSE @]
  /\ draft' = [draft EXCEPT ![w] = IF op = "on_the_way" THEN AfterOnTheWay(row, clock)
                                   ELSE AfterTransition(row, op, clock)]
  /\ event' = [event EXCEPT ![w] = IF op = "on_the_way" THEN OnTheWayEvent(clock)
                                   ELSE StatusEvent(row, op, ActorOf(op), clock)]
  /\ pc' = [pc EXCEPT ![w] = "save"]
  /\ UNCHANGED <<db, clock, req>>

\* Not found, an impossible action or a repeated one: nothing is written.
LockRefused(w) ==
  /\ LockReady(w)
  /\ Verdict(w) # "apply"
  /\ Finish(w)
  /\ UNCHANGED <<db, clock>>

(***************************************************************************)
(* QueueEntryRepository.save: session.get loads the row from the snapshot, *)
(* the entity's columns are assigned to it, and the UPDATE names only the  *)
(* columns whose value differs from the loaded one. The others keep what   *)
(* the current row has.                                                    *)
(***************************************************************************)
DirtyColumns(old, new, current) ==
  [current EXCEPT
     !.status     = IF new.status     # old.status     THEN new.status     ELSE @,
     !.calledAt   = IF new.calledAt   # old.calledAt   THEN new.calledAt   ELSE @,
     !.onTheWayAt = IF new.onTheWayAt # old.onTheWayAt THEN new.onTheWayAt ELSE @,
     !.endedAt    = IF new.endedAt    # old.endedAt    THEN new.endedAt    ELSE @]

SaveEntry(w) ==
  /\ pc[w] = "save"
  /\ draft' = [draft EXCEPT ![w] = DirtyColumns(seen[w], @, entries[req[w].entry])]
  /\ seen' = [seen EXCEPT ![w] = NoRow]
  /\ pc' = [pc EXCEPT ![w] = "log"]
  /\ UNCHANGED <<db, clock, req, event>>

-----------------------------------------------------------------------------
(* The end of every writing request. *)

\* EntryEventRepository.add flushes the event of the change.
LogEvent(w) ==
  /\ pc[w] = "log"
  /\ pc' = [pc EXCEPT ![w] = "commit"]
  /\ UNCHANGED <<db, clock, req, seen, draft, event>>

\* What the transaction has flushed becomes visible and its locks go. The
\* announcement that follows writes nothing (module Realtime).
Commit(w) ==
  LET e   == req[w].entry
      old == IF Joining(w) THEN <<>> ELSE history[e]
  IN
  /\ pc[w] = "commit"
  /\ entries' = Put(entries, e, draft[w])
  /\ history' = Put(history, e, Append(old, event[w]))
  /\ Finish(w)
  /\ UNCHANGED <<lastTicket, nextId, paused, pauses, clock>>

\* The request dies before its commit: an exception, a lost connection or the
\* end of the process. The database rolls back.
Abort(w) ==
  /\ pc[w] # "idle"
  /\ UndoTicket(w)
  /\ Finish(w)
  /\ UNCHANGED <<entries, history, nextId, paused, pauses, clock>>

-----------------------------------------------------------------------------
(* Around the requests. *)

\* SetPausedUseCase: one UPDATE of the venue's row pauses or resumes the list.
SetPaused(v) ==
  /\ paused[v] \/ pauses < MaxPauses
  /\ paused' = [paused EXCEPT ![v] = ~@]
  /\ pauses' = IF paused[v] THEN pauses ELSE pauses + 1
  /\ UNCHANGED <<entries, history, lastTicket, nextId, clock, txn>>

Tick ==
  /\ clock < MaxTime
  /\ clock' = clock + 1
  /\ UNCHANGED <<db, txn>>

\* The statements of a request once it has started.
Proceed(w) ==
  \/ NextTicket(w)
  \/ InsertEntry(w)
  \/ InsertDuplicate(w)
  \/ JoinReread(w)
  \/ JoinRereadMissing(w)
  \/ RespondError(w)
  \/ LockEntry(w)
  \/ LockRefused(w)
  \/ SaveEntry(w)
  \/ LogEvent(w)
  \/ Commit(w)

Start(w) ==
  \E v \in Venues :
    \/ \E p \in Phones, d \in Dates : JoinStart(w, v, p, d)
    \/ \E e \in Ids, target \in Ops \cap HostTargets : HostStart(w, v, e, target)
    \/ \E e \in Ids, op \in Ops \cap DinerOps : DinerStart(w, v, e, op)
    \/ JoinTurnedAway(w)

Next ==
  \/ \E w \in Workers : Start(w) \/ Proceed(w) \/ Abort(w)
  \/ \E v \in Venues : SetPaused(v)
  \/ Tick

Spec == Init /\ [][Next]_vars

(***************************************************************************)
(* InnoDB queues the waiters of a lock, so a statement that can run again  *)
(* and again does run; statements that wait for nothing run because the    *)
(* event loop resumes every task that is ready.                            *)
(***************************************************************************)
Fairness == \A w \in Workers : SF_vars(Proceed(w))

FairSpec == Spec /\ Fairness

-----------------------------------------------------------------------------
(* Properties. *)

\* The counter without the increments that are not committed yet.
CommittedTickets ==
  [vd \in Venues \X Dates |->
     IF \E w \in Workers : HoldsCounter(w, vd[1], vd[2])
     THEN lastTicket[vd] - 1 ELSE lastTicket[vd]]

Ledger == INSTANCE QueueLedger WITH lastTicket <- CommittedTickets

Requests == [op : HostTargets \cup DinerOps \cup {"join", "none"},
             venue : Venues \cup {Nobody}, phone : Phones \cup {Nobody},
             entry : Ids \cup {0}]

\* Types: committed rows and events as the ledger has them, and each request at
\* a place where it holds a row and an event of those types or none.
TypeOK ==
  /\ Ledger!TypeOK
  /\ lastTicket \in [Venues \X Dates -> Nat]
  /\ nextId \in 1 .. MaxId + 1
  /\ paused \in [Venues -> BOOLEAN]
  /\ pauses \in 0 .. MaxPauses
  /\ clock \in Times
  /\ pc \in [Workers -> {"idle", "count", "insert", "reread", "error",
                         "lock", "save", "log", "commit"}]
  /\ req \in [Workers -> Requests]
  /\ seen \in [Workers -> Ledger!Rows \cup {NoRow}]
  /\ draft \in [Workers -> Ledger!Rows \cup {NoRow}]
  /\ event \in [Workers -> Ledger!Events \cup {NoEvent}]

\* The interleaved transactions implement the one-step operations of the
\* ledger: every commit is one legal operation on the state it commits to,
\* however old the snapshot the request read was.
ImplementsLedger == Ledger!Spec

\* See QueueLedger: no burned number, no number twice, one place per phone.
NoGaps            == Ledger!NoGaps
TicketsUnique     == Ledger!TicketsUnique
OneActivePerPhone == Ledger!OneActivePerPhone
TimesFitStatus    == Ledger!TimesFitStatus
HistoryIsAWalk    == Ledger!HistoryIsAWalk

\* The UPDATE built from the snapshot's copy stores exactly the row that the
\* domain computed from the locked one.
NoLostColumn ==
  [][\A w \in Workers : pc[w] = "save" /\ pc'[w] = "log" => draft'[w] = draft[w]]_vars

\* Every request ends, whatever lock it waits for.
EveryRequestEnds == \A w \in Workers : pc[w] # "idle" ~> pc[w] = "idle"

\* Who loses the race of two joins gets the entry that won it.
LoserGetsTheWinner == \A w \in Workers : pc[w] # "error"
=============================================================================
