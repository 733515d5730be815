---------------------------- MODULE WaitlistProofs ----------------------------
(***************************************************************************)
(* The transactions of Waitlist implement the ledger, for any number of    *)
(* requests, entries, venues and phones; so what the ledger promises holds *)
(* of the committed state of the program.                                  *)
(***************************************************************************)
EXTENDS Waitlist, FiniteSetTheorems, TLAPS

LP == INSTANCE QueueLedgerProofs WITH lastTicket <- CommittedTickets

-----------------------------------------------------------------------------
(* The inductive invariant: what a request in progress may rely on. *)

EntryOps == HostTargets \cup DinerOps

\* The operation of a request fits where it is.
OpFits(w) ==
  /\ pc[w] \in {"count", "insert", "reread", "error"} => Joining(w)
  /\ pc[w] \in {"lock", "save"} => req[w].op \in EntryOps
  /\ pc[w] \in {"log", "commit"} => req[w].op \in EntryOps \cup {"join"}
  /\ Joining(w) => req[w].venue \in Venues /\ req[w].phone \in Phones

\* A join's row is the new entry of its phone; once it has the ticket, that is
\* the counter's value; once inserted, its key is new and its phone is free.
JoinOK(w) ==
  LET r == draft[w] IN
  Joining(w) /\ pc[w] \in {"count", "insert", "log", "commit"} =>
    /\ r.date \in Dates /\ r.joinedAt \in Times /\ r.ticket \in Nat
    /\ r = NewEntry(req[w].venue, req[w].phone, r.date, r.ticket, r.joinedAt)
    /\ pc[w] # "count" => /\ r.ticket = lastTicket[<<r.venue, r.date>>]
                          /\ r.ticket # 0
    /\ pc[w] \in {"log", "commit"} =>
         /\ event[w] = JoinedEvent(r.joinedAt)
         /\ req[w].entry \in 1 .. (nextId - 1)
         /\ req[w].entry \notin DOMAIN entries
         /\ ActiveOf(entries, r.venue, r.phone) = {}

\* A copy of a row that the row may have moved on from, never back to.
Older(old, row) ==
  /\ row.status = "waiting" => old.status = "waiting" /\ old.calledAt = NoTime
  /\ row.status \in ActiveStatuses => old.status \in ActiveStatuses /\ old.endedAt = NoTime
  /\ row.onTheWayAt = NoTime => old.onTheWayAt = NoTime

\* The row and the event a locked request carries are those of one legal
\* operation on the row as it is.
Computed(w, now) ==
  LET row == entries[req[w].entry]
      op  == req[w].op
  IN IF op = "on_the_way"
     THEN /\ DecideOnTheWay(row) = "apply"
          /\ draft[w] = AfterOnTheWay(row, now)
          /\ event[w] = OnTheWayEvent(now)
     ELSE /\ Decide(row.status, op, ActorOf(op)) = "apply"
          /\ draft[w] = AfterTransition(row, op, now)
          /\ event[w] = StatusEvent(row, op, ActorOf(op), now)

ChangeOK(w) ==
  ~Joining(w) /\ pc[w] \in {"lock", "save", "log", "commit"} =>
    /\ req[w].entry \in DOMAIN entries
    /\ pc[w] = "lock" /\ req[w].op \in HostTargets => Older(seen[w], entries[req[w].entry])
    /\ pc[w] = "save" => Older(seen[w], entries[req[w].entry])
    /\ pc[w] # "lock" => \E now \in Times : Computed(w, now)

\* Locks exclude: on an entry, on a counter, and on the key and the phone of
\* two rows inserted and not committed.
Exclusive ==
  \A u, w \in Workers : u # w =>
    /\ \A e \in Ids : ~(HoldsEntry(u, e) /\ HoldsEntry(w, e))
    /\ \A v \in Venues, d \in Dates : ~(HoldsCounter(u, v, d) /\ HoldsCounter(w, v, d))
    /\ /\ Joining(u) /\ pc[u] \in {"log", "commit"}
       /\ Joining(w) /\ pc[w] \in {"log", "commit"}
       => /\ req[u].entry # req[w].entry
          /\ ~(draft[u].venue = draft[w].venue /\ draft[u].phone = draft[w].phone)

\* Keys are allocated upwards, and enough are left for the joins in progress.
Keys ==
  /\ \A e \in DOMAIN entries : e < nextId
  /\ nextId + Cardinality(Unallocated) <= MaxId + 1

IInv ==
  /\ TypeOK
  /\ LP!Promises
  /\ Keys
  /\ Exclusive
  /\ \A w \in Workers : OpFits(w) /\ JoinOK(w) /\ ChangeOK(w)
-----------------------------------------------------------------------------
(* The definitions of QueueEntry, which the ledger's instance renames. *)

LEMMA SameDefinitions ==
  /\ LP!ActiveStatuses = ActiveStatuses /\ LP!FinalStatuses = FinalStatuses
  /\ LP!Statuses = Statuses /\ LP!Actors = Actors /\ LP!NoTime = NoTime
  /\ LP!Rows = Ledger!Rows /\ LP!Events = Ledger!Events
  /\ \A s, target, actor : LP!Decide(s, target, actor) = Decide(s, target, actor)
  /\ \A row : LP!DecideOnTheWay(row) = DecideOnTheWay(row)
  /\ \A v, p, d, n, now : LP!NewEntry(v, p, d, n, now) = NewEntry(v, p, d, n, now)
  /\ \A row, target, now : LP!AfterTransition(row, target, now) = AfterTransition(row, target, now)
  /\ \A row, now : LP!AfterOnTheWay(row, now) = AfterOnTheWay(row, now)
  /\ \A now : LP!JoinedEvent(now) = JoinedEvent(now) /\ LP!OnTheWayEvent(now) = OnTheWayEvent(now)
  /\ \A row, target, actor, now :
       LP!StatusEvent(row, target, actor, now) = StatusEvent(row, target, actor, now)
  /\ \A table, e, row : LP!Put(table, e, row) = Put(table, e, row)
  /\ \A table, v, p : LP!ActiveOf(table, v, p) = ActiveOf(table, v, p)
<1>1. /\ LP!ActiveStatuses = ActiveStatuses /\ LP!FinalStatuses = FinalStatuses
      /\ LP!Statuses = Statuses /\ LP!Actors = Actors /\ LP!NoTime = NoTime
      /\ LP!Rows = Ledger!Rows /\ LP!Events = Ledger!Events
  BY DEF LP!ActiveStatuses, ActiveStatuses, LP!FinalStatuses, FinalStatuses, LP!Statuses,
     Statuses, LP!Actors, Actors, LP!NoTime, NoTime, LP!Rows, Ledger!Rows, LP!Events,
     Ledger!Events, Ledger!Statuses, Ledger!ActiveStatuses, Ledger!FinalStatuses,
     Ledger!Actors, Ledger!NoTime
<1>2. \A s, target, actor : LP!Decide(s, target, actor) = Decide(s, target, actor)
  BY DEF LP!Decide, Decide, LP!AllowedActors, AllowedActors, LP!AllowedTransitions,
     AllowedTransitions
<1>3. \A row : LP!DecideOnTheWay(row) = DecideOnTheWay(row)
  BY DEF LP!DecideOnTheWay, DecideOnTheWay, LP!NoTime, NoTime
<1>4. /\ \A v, p, d, n, now : LP!NewEntry(v, p, d, n, now) = NewEntry(v, p, d, n, now)
      /\ \A row, target, now : LP!AfterTransition(row, target, now) = AfterTransition(row, target, now)
      /\ \A row, now : LP!AfterOnTheWay(row, now) = AfterOnTheWay(row, now)
  BY DEF LP!NewEntry, NewEntry, LP!AfterTransition, AfterTransition, LP!AfterOnTheWay,
     AfterOnTheWay, LP!NoTime, NoTime
<1>5. /\ \A now : LP!JoinedEvent(now) = JoinedEvent(now) /\ LP!OnTheWayEvent(now) = OnTheWayEvent(now)
      /\ \A row, target, actor, now :
           LP!StatusEvent(row, target, actor, now) = StatusEvent(row, target, actor, now)
  BY DEF LP!JoinedEvent, JoinedEvent, LP!OnTheWayEvent, OnTheWayEvent, LP!StatusEvent,
     StatusEvent
<1>6. /\ \A table, e, row : LP!Put(table, e, row) = Put(table, e, row)
      /\ \A table, v, p : LP!ActiveOf(table, v, p) = ActiveOf(table, v, p)
  BY <1>1 DEF LP!Put, Put, LP!ActiveOf, ActiveOf
<1>. QED
  BY <1>1, <1>2, <1>3, <1>4, <1>5, <1>6

-----------------------------------------------------------------------------
(* A step of request w leaves every other request where it was. *)

Moves(w) == Start(w) \/ Proceed(w) \/ Abort(w)

LocalTypes ==
  /\ lastTicket \in [Venues \X Dates -> Nat]
  /\ pc \in [Workers -> {"idle", "count", "insert", "reread", "error",
                         "lock", "save", "log", "commit"}]
  /\ req \in [Workers -> Requests]
  /\ seen \in [Workers -> Ledger!Rows \cup {NoRow}]
  /\ draft \in [Workers -> Ledger!Rows \cup {NoRow}]
  /\ event \in [Workers -> Ledger!Events \cup {NoEvent}]

LEMMA OthersStay ==
  ASSUME LocalTypes, NEW w \in Workers, Moves(w), NEW u \in Workers, u # w
  PROVE  /\ pc'[u] = pc[u] /\ req'[u] = req[u] /\ seen'[u] = seen[u]
         /\ draft'[u] = draft[u] /\ event'[u] = event[u]
<1>. USE DEF LocalTypes
<1>1. CASE Start(w)
  BY <1>1 DEF Start, JoinStart, HostStart, DinerStart, JoinTurnedAway, vars
<1>2. CASE Abort(w)
  BY <1>2 DEF Abort, Finish
<1>3. CASE Proceed(w)
  BY <1>3 DEF Proceed, NextTicket, InsertEntry, InsertDuplicate, JoinReread,
     JoinRereadMissing, RespondError, LockEntry, LockRefused, SaveEntry, LogEvent,
     Commit, Finish
<1>. QED
  BY <1>1, <1>2, <1>3 DEF Moves
-----------------------------------------------------------------------------
(* The committed counters: what each kind of step does to them. *)

LEMMA CommittedAt ==
  ASSUME NEW v \in Venues, NEW d \in Dates
  PROVE  CommittedTickets[<<v, d>>] =
           IF \E w \in Workers : HoldsCounter(w, v, d)
           THEN lastTicket[<<v, d>>] - 1 ELSE lastTicket[<<v, d>>]
BY DEF CommittedTickets

\* The counters are equal when they are so at every venue and date.
LEMMA CommittedSame ==
  ASSUME \A v \in Venues, d \in Dates :
           CommittedTickets'[<<v, d>>] = CommittedTickets[<<v, d>>]
  PROVE  CommittedTickets' = CommittedTickets
<1>1. \A vd \in Venues \X Dates : \E v \in Venues, d \in Dates : vd = <<v, d>>
  OBVIOUS
<1>2. \A vd \in Venues \X Dates : CommittedTickets'[vd] = CommittedTickets[vd]
  BY <1>1
<1>3. /\ CommittedTickets = [vd \in Venues \X Dates |-> CommittedTickets[vd]]
      /\ CommittedTickets' = [vd \in Venues \X Dates |-> CommittedTickets'[vd]]
  BY DEF CommittedTickets
<1>. HIDE DEF CommittedTickets
<1>. QED
  BY <1>2, <1>3

\* A step that takes and frees no counter keeps them.
LEMMA QuietCounters ==
  ASSUME lastTicket' = lastTicket,
         \A u \in Workers, v \in Venues, d \in Dates :
           HoldsCounter(u, v, d)' = HoldsCounter(u, v, d)
  PROVE  CommittedTickets' = CommittedTickets
<1>1. ASSUME NEW v \in Venues, NEW d \in Dates
      PROVE  CommittedTickets'[<<v, d>>] = CommittedTickets[<<v, d>>]
  <2>1. CommittedTickets'[<<v, d>>] =
          IF \E u \in Workers : HoldsCounter(u, v, d)'
          THEN lastTicket'[<<v, d>>] - 1 ELSE lastTicket'[<<v, d>>]
    BY DEF CommittedTickets
  <2>2. (\E u \in Workers : HoldsCounter(u, v, d)') <=> (\E u \in Workers : HoldsCounter(u, v, d))
    OBVIOUS
  <2>. HIDE DEF HoldsCounter
  <2>. QED
    BY <2>1, <2>2, CommittedAt
<1>. QED
  BY <1>1, CommittedSame

LEMMA QuietMove ==
  ASSUME LocalTypes, NEW w \in Workers, Moves(w), lastTicket' = lastTicket,
         \A v \in Venues, d \in Dates : HoldsCounter(w, v, d)' = HoldsCounter(w, v, d)
  PROVE  CommittedTickets' = CommittedTickets
<1>1. ASSUME NEW u \in Workers, NEW v \in Venues, NEW d \in Dates
      PROVE  HoldsCounter(u, v, d)' = HoldsCounter(u, v, d)
  BY OthersStay DEF HoldsCounter, Joining
<1>. QED
  BY <1>1, QuietCounters

\* The counter a request holds stands one above the committed one.
LEMMA HeldCounter ==
  ASSUME LocalTypes, NEW w \in Workers, NEW v \in Venues, NEW d \in Dates,
         HoldsCounter(w, v, d)
  PROVE  CommittedTickets[<<v, d>>] = lastTicket[<<v, d>>] - 1
BY CommittedAt

\* w gives up the counter of v and d, and nobody has it then.
LEMMA CounterFreed ==
  ASSUME LocalTypes, Exclusive, NEW w \in Workers, Moves(w),
         NEW v \in Venues, NEW d \in Dates, HoldsCounter(w, v, d), pc'[w] \in {"idle", "reread"}
  PROVE  CommittedTickets'[<<v, d>>] = lastTicket'[<<v, d>>]
<1>1. \A u \in Workers : u # w => ~HoldsCounter(u, v, d)
  BY DEF Exclusive
<1>2. \A u \in Workers : u # w => HoldsCounter(u, v, d)' = HoldsCounter(u, v, d)
  BY OthersStay DEF HoldsCounter, Joining
<1>3. ~HoldsCounter(w, v, d)'
  BY DEF HoldsCounter
<1>4. CommittedTickets'[<<v, d>>] =
          IF \E u \in Workers : HoldsCounter(u, v, d)'
          THEN lastTicket'[<<v, d>>] - 1 ELSE lastTicket'[<<v, d>>]
  BY DEF CommittedTickets
<1>5. \A u \in Workers : ~HoldsCounter(u, v, d)'
  BY <1>1, <1>2, <1>3
<1>. QED
  BY <1>4, <1>5

\* The other counters stay as they were.
LEMMA CounterKept ==
  ASSUME LocalTypes, NEW w \in Workers, Moves(w),
         NEW v \in Venues, NEW d \in Dates, HoldsCounter(w, v, d), pc'[w] \in {"idle", "reread"},
         NEW a \in Venues, NEW b \in Dates, ~(a = v /\ b = d),
         lastTicket'[<<a, b>>] = lastTicket[<<a, b>>]
  PROVE  CommittedTickets'[<<a, b>>] = CommittedTickets[<<a, b>>]
<1>1. \A u \in Workers : u # w => HoldsCounter(u, a, b)' = HoldsCounter(u, a, b)
  BY OthersStay DEF HoldsCounter, Joining
<1>2. ~HoldsCounter(w, a, b)'
  BY DEF HoldsCounter
<1>3. ~HoldsCounter(w, a, b)
  BY DEF HoldsCounter
<1>4. (\E u \in Workers : HoldsCounter(u, a, b)') <=> (\E u \in Workers : HoldsCounter(u, a, b))
  BY <1>1, <1>2, <1>3
<1>5. CommittedTickets'[<<a, b>>] =
          IF \E u \in Workers : HoldsCounter(u, a, b)'
          THEN lastTicket'[<<a, b>>] - 1 ELSE lastTicket'[<<a, b>>]
  BY DEF CommittedTickets
<1>6. CommittedTickets[<<a, b>>] =
          IF \E u \in Workers : HoldsCounter(u, a, b)
          THEN lastTicket[<<a, b>>] - 1 ELSE lastTicket[<<a, b>>]
  BY CommittedAt
<1>. QED
  BY <1>4, <1>5, <1>6

LEMMA NextTicketCounters ==
  ASSUME LocalTypes, NEW w \in Workers, OpFits(w), JoinOK(w), NextTicket(w)
  PROVE  CommittedTickets' = CommittedTickets
<1>a. PICK v \in Venues, d \in Dates : v = draft[w].venue /\ d = draft[w].date
  BY DEF OpFits, JoinOK, NextTicket, NewEntry
<1>0. /\ Joining(w) /\ pc[w] = "count" /\ v = draft[w].venue /\ d = draft[w].date
      /\ lastTicket[<<v, d>>] \in Nat /\ Moves(w)
  BY <1>a DEF OpFits, NextTicket, LocalTypes, Moves, Proceed
<1>1. \A u \in Workers : ~HoldsCounter(u, v, d)
  BY <1>0 DEF NextTicket
<1>2. /\ lastTicket'[<<v, d>>] = lastTicket[<<v, d>>] + 1
      /\ \A a \in Venues, b \in Dates :
           ~(a = v /\ b = d) => lastTicket'[<<a, b>>] = lastTicket[<<a, b>>]
  BY <1>0 DEF NextTicket, LocalTypes
<1>3. /\ pc'[w] = "insert" /\ req'[w] = req[w]
      /\ draft'[w].venue = v /\ draft'[w].date = d
  BY <1>0 DEF NextTicket, LocalTypes, JoinOK, NewEntry
<1>4. HoldsCounter(w, v, d)'
  BY <1>0, <1>3 DEF HoldsCounter, Joining
<1>5. \A a \in Venues, b \in Dates : ~(a = v /\ b = d) => ~HoldsCounter(w, a, b)'
  BY <1>3 DEF HoldsCounter
<1>6. \A u \in Workers, a \in Venues, b \in Dates :
        u # w => HoldsCounter(u, a, b)' = HoldsCounter(u, a, b)
  BY <1>0, OthersStay DEF HoldsCounter, Joining
<1>7. \A a \in Venues, b \in Dates : ~HoldsCounter(w, a, b)
  BY <1>0 DEF HoldsCounter
<1>8. \A a \in Venues, b \in Dates : CommittedTickets'[<<a, b>>] =
          IF \E u \in Workers : HoldsCounter(u, a, b)'
          THEN lastTicket'[<<a, b>>] - 1 ELSE lastTicket'[<<a, b>>]
  BY DEF CommittedTickets
<1>9. ASSUME NEW a \in Venues, NEW b \in Dates
      PROVE  CommittedTickets'[<<a, b>>] = CommittedTickets[<<a, b>>]
  <2>1. CASE a = v /\ b = d
    <3>1. CommittedTickets'[<<a, b>>] = lastTicket'[<<a, b>>] - 1
      <4>1. \E u \in Workers : HoldsCounter(u, a, b)'
        BY <1>4, <2>1
      <4>. QED
        BY <1>8, <4>1
    <3>2. CommittedTickets[<<a, b>>] = lastTicket[<<a, b>>]
      BY <1>1, <2>1, CommittedAt
    <3>. QED
      BY <1>0, <1>2, <2>1, <3>1, <3>2
  <2>2. CASE ~(a = v /\ b = d)
    <3>1. (\E u \in Workers : HoldsCounter(u, a, b)') <=> (\E u \in Workers : HoldsCounter(u, a, b))
      BY <1>5, <1>6, <1>7, <2>2
    <3>2. CommittedTickets'[<<a, b>>] =
            IF \E u \in Workers : HoldsCounter(u, a, b)'
            THEN lastTicket'[<<a, b>>] - 1 ELSE lastTicket'[<<a, b>>]
      BY <1>8
    <3>. QED
      BY <1>2, <2>2, <3>1, <3>2, CommittedAt
  <2>. QED
    BY <2>1, <2>2
<1>. QED
  BY <1>9, CommittedSame

LEMMA UndoCounters ==
  ASSUME LocalTypes, Exclusive, NEW w \in Workers, OpFits(w), JoinOK(w), Moves(w),
         UndoTicket(w), pc'[w] \in {"idle", "reread"}
  PROVE  /\ CommittedTickets' = CommittedTickets
         /\ lastTicket' \in [Venues \X Dates -> Nat]
<1>1. CASE Joining(w) /\ pc[w] \in {"insert", "log", "commit"}
  <2>1. PICK v \in Venues, d \in Dates : v = draft[w].venue /\ d = draft[w].date
    BY <1>1 DEF OpFits, JoinOK, NewEntry
  <2>2. HoldsCounter(w, v, d)
    BY <1>1, <2>1 DEF HoldsCounter
  <2>3. lastTicket[<<v, d>>] \in Nat \ {0}
    BY <1>1, <2>1 DEF JoinOK, LocalTypes
  <2>4. lastTicket' = [lastTicket EXCEPT ![<<v, d>>] = lastTicket[<<v, d>>] - 1]
    BY <1>1, <2>1 DEF UndoTicket
  <2>5. /\ lastTicket'[<<v, d>>] = lastTicket[<<v, d>>] - 1
        /\ \A a \in Venues, b \in Dates :
             ~(a = v /\ b = d) => lastTicket'[<<a, b>>] = lastTicket[<<a, b>>]
    BY <2>4 DEF LocalTypes
  <2>6. ASSUME NEW a \in Venues, NEW b \in Dates
        PROVE  CommittedTickets'[<<a, b>>] = CommittedTickets[<<a, b>>]
    <3>1. CASE a = v /\ b = d
      <4>1. CommittedTickets'[<<v, d>>] = lastTicket'[<<v, d>>]
        BY <2>2, CounterFreed
      <4>2. CommittedTickets[<<v, d>>] = lastTicket[<<v, d>>] - 1
        BY <2>2, HeldCounter
      <4>. QED
        BY <2>5, <3>1, <4>1, <4>2
    <3>2. CASE ~(a = v /\ b = d)
      <4>1. lastTicket'[<<a, b>>] = lastTicket[<<a, b>>]
        BY <2>5, <3>2
      <4>. QED
        BY <2>2, <3>2, <4>1, CounterKept
    <3>. QED
      BY <3>1, <3>2
  <2>7. lastTicket' \in [Venues \X Dates -> Nat]
    <3>1. lastTicket[<<v, d>>] - 1 \in Nat
      BY <2>3
    <3>. QED
      BY <2>4, <3>1 DEF LocalTypes
  <2>. QED
    BY <2>6, <2>7, CommittedSame
<1>2. CASE ~(Joining(w) /\ pc[w] \in {"insert", "log", "commit"})
  <2>1. lastTicket' = lastTicket
    BY <1>2 DEF UndoTicket
  <2>2. \A v \in Venues, d \in Dates : HoldsCounter(w, v, d)' = HoldsCounter(w, v, d)
    BY <1>2 DEF HoldsCounter
  <2>. QED
    BY <2>1, <2>2, QuietMove DEF LocalTypes
<1>. QED
  BY <1>1, <1>2

\* The committed counter of v and d goes up by one.
CountedUp(v, d) ==
  CommittedTickets' = [CommittedTickets EXCEPT ![<<v, d>>] = CommittedTickets[<<v, d>>] + 1]

LEMMA CommitJoinCounters ==
  ASSUME LocalTypes, Exclusive, NEW w \in Workers, OpFits(w), JoinOK(w),
         Joining(w), Commit(w), NEW v \in Venues, NEW d \in Dates,
         v = draft[w].venue, d = draft[w].date
  PROVE  /\ CountedUp(v, d)
         /\ draft[w].ticket = CommittedTickets[<<v, d>>] + 1
<1>1. Moves(w) /\ lastTicket' = lastTicket /\ pc'[w] = "idle"
  BY DEF Moves, Proceed, Commit, Finish, LocalTypes
<1>2. HoldsCounter(w, v, d)
  BY DEF HoldsCounter, Commit
<1>3. /\ draft[w].ticket = lastTicket[<<v, d>>]
      /\ lastTicket[<<v, d>>] \in Nat
  BY DEF JoinOK, Commit, LocalTypes
<1>4. CommittedTickets[<<v, d>>] = lastTicket[<<v, d>>] - 1
  BY <1>2, HeldCounter
<1>5. CommittedTickets'[<<v, d>>] = CommittedTickets[<<v, d>>] + 1
  <2>1. CommittedTickets'[<<v, d>>] = lastTicket'[<<v, d>>]
    BY <1>1, <1>2, CounterFreed
  <2>. QED
    BY <1>1, <1>3, <1>4, <2>1
<1>6. ASSUME NEW a \in Venues, NEW b \in Dates, ~(a = v /\ b = d)
      PROVE  CommittedTickets'[<<a, b>>] = CommittedTickets[<<a, b>>]
  <2>1. lastTicket'[<<a, b>>] = lastTicket[<<a, b>>]
    BY <1>1
  <2>. QED
    BY <1>1, <1>2, <1>6, <2>1, CounterKept
<1>7. /\ CommittedTickets = [vd \in Venues \X Dates |-> CommittedTickets[vd]]
      /\ CommittedTickets' = [vd \in Venues \X Dates |-> CommittedTickets'[vd]]
  BY DEF CommittedTickets
<1>8. ASSUME NEW vd \in Venues \X Dates
      PROVE  CommittedTickets'[vd] =
               IF vd = <<v, d>> THEN CommittedTickets[<<v, d>>] + 1 ELSE CommittedTickets[vd]
  <2>1. PICK a \in Venues, b \in Dates : vd = <<a, b>>
    OBVIOUS
  <2>. HIDE DEF CommittedTickets
  <2>. QED
    BY <1>5, <1>6, <2>1
<1>. HIDE DEF CommittedTickets
<1>9. CountedUp(v, d)
  BY <1>7, <1>8 DEF CountedUp
<1>. QED
  BY <1>3, <1>4, <1>9

-----------------------------------------------------------------------------
(* Each commit is one operation of the ledger; every other step is none. *)

LEMMA CommitJoinRefines ==
  ASSUME TypeOK, LocalTypes, Exclusive, NEW w \in Workers, OpFits(w), JoinOK(w),
         Joining(w), Commit(w)
  PROVE  LP!Next
<1> DEFINE e == req[w].entry
           now == draft[w].joinedAt
<1>1. PICK v \in Venues, d \in Dates, p \in Phones :
        /\ v = draft[w].venue /\ d = draft[w].date /\ p = draft[w].phone
        /\ v = req[w].venue /\ p = req[w].phone
  BY DEF OpFits, JoinOK, NewEntry, Commit
<1>2. /\ CountedUp(v, d)
      /\ draft[w].ticket = CommittedTickets[<<v, d>>] + 1
  BY <1>1, CommitJoinCounters
<1>3. /\ now \in Times
      /\ draft[w] = NewEntry(v, p, d, CommittedTickets[<<v, d>>] + 1, now)
      /\ event[w] = JoinedEvent(now)
      /\ e \in Ids /\ e \notin DOMAIN entries
      /\ ActiveOf(entries, v, p) = {}
  <2>1. /\ now \in Times
        /\ draft[w] = NewEntry(v, p, d, draft[w].ticket, now)
        /\ event[w] = JoinedEvent(now)
        /\ e \in 1 .. (nextId - 1) /\ e \notin DOMAIN entries
        /\ ActiveOf(entries, v, p) = {}
    BY <1>1 DEF JoinOK, Commit
  <2>2. e \in Ids
    BY <2>1, WaitlistAssumption DEF TypeOK, Ids
  <2>. QED
    BY <1>2, <2>1, <2>2
<1>4. /\ entries' = Put(entries, e, draft[w])
      /\ history' = Put(history, e, <<event[w]>>)
  BY DEF Commit
<1>5. LP!Enter(e, v, p, d, now)
  BY <1>2, <1>3, <1>4, SameDefinitions DEF LP!Enter, CountedUp
<1>. HIDE DEF e, now
<1>. QED
  BY <1>3, <1>5 DEF LP!Next, e, now

LEMMA CommitChangeRefines ==
  ASSUME TypeOK, LocalTypes, Exclusive, NEW w \in Workers, OpFits(w), ChangeOK(w),
         ~Joining(w), Commit(w)
  PROVE  LP!Next
<1> DEFINE e == req[w].entry
           op == req[w].op
<1>1. CommittedTickets' = CommittedTickets
  <2>1. Moves(w) /\ lastTicket' = lastTicket /\ pc'[w] = "idle"
    BY DEF Moves, Proceed, Commit, Finish, LocalTypes
  <2>2. \A v \in Venues, d \in Dates : HoldsCounter(w, v, d)' = HoldsCounter(w, v, d)
    BY <2>1 DEF HoldsCounter
  <2>. QED
    BY <2>1, <2>2, QuietMove
<1>2. /\ e \in DOMAIN entries /\ e \in Ids
      /\ op \in EntryOps
  BY DEF OpFits, ChangeOK, Commit, TypeOK, Ledger!TypeOK, Joining
<1>3. PICK now \in Times : Computed(w, now)
  BY DEF ChangeOK, Commit
<1>4. /\ entries' = Put(entries, e, draft[w])
      /\ history' = Put(history, e, Append(history[e], event[w]))
  BY DEF Commit
<1>5. CASE op = "on_the_way"
  <2>1. LP!OnTheWay(e, now)
    BY <1>1, <1>2, <1>3, <1>4, <1>5, SameDefinitions DEF LP!OnTheWay, Computed
  <2>. QED
    BY <1>2, <2>1 DEF LP!Next
<1>6. CASE op # "on_the_way"
  <2>1. op \in LP!Statuses /\ ActorOf(op) \in LP!Actors
    BY <1>2, <1>6, SameDefinitions DEF EntryOps, HostTargets, DinerOps, Statuses,
       ActiveStatuses, FinalStatuses, Actors, ActorOf
  <2>2. LP!Change(e, op, ActorOf(op), now)
    BY <1>1, <1>2, <1>3, <1>4, <1>6, SameDefinitions DEF LP!Change, Computed
  <2>. QED
    BY <1>2, <2>1, <2>2 DEF LP!Next
<1>. QED
  BY <1>5, <1>6

\* Starting a request, and the statements that neither take nor free a counter.
LEMMA QuietSteps ==
  ASSUME LocalTypes, NEW w \in Workers, OpFits(w),
         \/ Start(w) \/ InsertEntry(w) \/ JoinReread(w) \/ JoinRereadMissing(w)
         \/ RespondError(w) \/ LockEntry(w) \/ LockRefused(w) \/ SaveEntry(w) \/ LogEvent(w)
  PROVE  /\ CommittedTickets' = CommittedTickets
         /\ entries' = entries /\ history' = history /\ lastTicket' = lastTicket
<1>1. Moves(w)
  BY DEF Moves, Proceed
<1>2. /\ entries' = entries /\ history' = history /\ lastTicket' = lastTicket
  BY DEF Start, JoinStart, HostStart, DinerStart, JoinTurnedAway, InsertEntry, JoinReread,
     JoinRereadMissing, RespondError, LockEntry, LockRefused, SaveEntry, LogEvent, db, vars
<1>3. \A v \in Venues, d \in Dates : HoldsCounter(w, v, d)' = HoldsCounter(w, v, d)
  <2>1. CASE Start(w)
    <3>1. pc[w] = "idle" /\ pc'[w] \in {"idle", "count", "lock"}
      BY <2>1 DEF Start, JoinStart, HostStart, DinerStart, JoinTurnedAway, vars, LocalTypes
    <3>. QED
      BY <3>1 DEF HoldsCounter
  <2>2. CASE \/ JoinReread(w) \/ JoinRereadMissing(w) \/ RespondError(w)
             \/ LockEntry(w) \/ LockRefused(w)
    <3>1. /\ pc[w] \in {"reread", "error", "lock"}
          /\ pc'[w] \in {"idle", "error", "save"}
      BY <2>2 DEF JoinReread, JoinRereadMissing, RespondError, LockEntry, LockRefused,
         LockReady, Finish, LocalTypes
    <3>. QED
      BY <3>1 DEF HoldsCounter
  <2>3. CASE SaveEntry(w)
    <3>1. req'[w] = req[w] /\ ~Joining(w)
      BY <2>3 DEF SaveEntry, OpFits, EntryOps, HostTargets, DinerOps, Joining
    <3>. QED
      BY <3>1 DEF HoldsCounter, Joining
  <2>4. CASE InsertEntry(w) \/ LogEvent(w)
    <3>1. /\ req'[w].op = req[w].op /\ draft'[w] = draft[w]
          /\ pc[w] \in {"insert", "log"} /\ pc'[w] \in {"log", "commit"}
      BY <2>4 DEF InsertEntry, InsertReady, LogEvent, LocalTypes, Requests
    <3>. QED
      BY <3>1 DEF HoldsCounter, Joining
  <2>. QED
    BY <2>1, <2>2, <2>3, <2>4
<1>. QED
  BY <1>1, <1>2, <1>3, QuietMove

LEMMA TypesOf == TypeOK => LocalTypes
BY DEF TypeOK, LocalTypes

LEMMA StepRefines ==
  ASSUME IInv, [Next]_vars
  PROVE  [LP!Next]_(LP!vars)
<1>0. LocalTypes
  BY TypesOf DEF IInv
<1>1. ASSUME NEW w \in Workers, Start(w) \/ Proceed(w) \/ Abort(w)
      PROVE  [LP!Next]_(LP!vars)
  <2>0. TypeOK /\ Exclusive /\ OpFits(w) /\ JoinOK(w) /\ ChangeOK(w) /\ Moves(w)
    BY <1>1 DEF IInv, Moves
  <2>1. CASE Commit(w)
    BY <1>0, <2>0, <2>1, CommitJoinRefines, CommitChangeRefines
  <2>2. CASE NextTicket(w)
    BY <1>0, <2>0, <2>2, NextTicketCounters DEF NextTicket, LP!vars
  <2>3. CASE InsertDuplicate(w)
    <3>1. UndoTicket(w) /\ pc'[w] = "reread" /\ entries' = entries /\ history' = history
      BY <1>0, <2>3 DEF InsertDuplicate, LocalTypes
    <3>. QED
      BY <1>0, <2>0, <3>1, UndoCounters DEF LP!vars
  <2>4. CASE Abort(w)
    <3>1. UndoTicket(w) /\ pc'[w] = "idle" /\ entries' = entries /\ history' = history
      BY <1>0, <2>4 DEF Abort, Finish, LocalTypes
    <3>. QED
      BY <1>0, <2>0, <3>1, UndoCounters DEF LP!vars
  <2>5. CASE \/ Start(w) \/ InsertEntry(w) \/ JoinReread(w) \/ JoinRereadMissing(w)
             \/ RespondError(w) \/ LockEntry(w) \/ LockRefused(w) \/ SaveEntry(w) \/ LogEvent(w)
    BY <1>0, <2>0, <2>5, QuietSteps DEF LP!vars
  <2>. QED
    BY <1>1, <2>1, <2>2, <2>3, <2>4, <2>5 DEF Proceed
<1>2. ASSUME (\E v \in Venues : SetPaused(v)) \/ Tick \/ UNCHANGED vars
      PROVE  [LP!Next]_(LP!vars)
  <2>1. /\ entries' = entries /\ history' = history /\ lastTicket' = lastTicket
        /\ pc' = pc /\ req' = req /\ draft' = draft
    BY <1>2 DEF SetPaused, Tick, vars, db, txn
  <2>2. \A u \in Workers, v \in Venues, d \in Dates :
          HoldsCounter(u, v, d)' = HoldsCounter(u, v, d)
    BY <2>1 DEF HoldsCounter, Joining
  <2>. QED
    BY <2>1, <2>2, QuietCounters DEF LP!vars
<1>. QED
  BY <1>1, <1>2 DEF Next

LEMMA PromisesStep ==
  ASSUME IInv, [Next]_vars
  PROVE  LP!Promises'
<1>1. LP!LedgerAssumption
  BY WaitlistAssumption DEF LP!LedgerAssumption, Times, LP!NoTime
<1>. QED
  BY <1>1, StepRefines, LP!StepPromises DEF IInv

-----------------------------------------------------------------------------
(* What a step of one request leaves true for the others. *)

\* The next row of an entry: the same entry, further along.
Later(new, row) ==
  /\ new.venue = row.venue /\ new.phone = row.phone
  /\ new.status \in ActiveStatuses => row.status \in ActiveStatuses
  /\ new.status = "waiting" => row.status = "waiting"
  /\ new.onTheWayAt = NoTime => row.onTheWayAt = NoTime

LEMMA OlderStill ==
  ASSUME NEW old, NEW row, NEW new, Older(old, row), Later(new, row)
  PROVE  Older(old, new)
BY DEF Older, Later

LEMMA DecideApply ==
  ASSUME NEW s, NEW target, NEW actor, Decide(s, target, actor) = "apply"
  PROVE  /\ s \in ActiveStatuses
         /\ target \in {"called"} \cup FinalStatuses
         /\ target = "called" => s = "waiting"
BY DEF Decide, AllowedTransitions, AllowedActors, ActiveStatuses, FinalStatuses

LEMMA RowsTyped ==
  ASSUME TypeOK, NEW e \in DOMAIN entries
  PROVE  entries[e] \in Ledger!Rows
BY DEF TypeOK, Ledger!TypeOK

LEMMA ComputedLater ==
  ASSUME TypeOK, NEW w \in Workers, req[w].entry \in DOMAIN entries,
         NEW now \in Times, Computed(w, now)
  PROVE  /\ Later(draft[w], entries[req[w].entry])
         /\ draft[w] \in Ledger!Rows
         /\ entries[req[w].entry].status \in ActiveStatuses
<1> DEFINE row == entries[req[w].entry]
<1>1. row \in Ledger!Rows
  BY RowsTyped
<1>. HIDE DEF row
<1>2. CASE req[w].op = "on_the_way"
  <2>1. draft[w] = [row EXCEPT !.onTheWayAt = now] /\ row.status = "called"
    BY <1>2 DEF Computed, AfterOnTheWay, DecideOnTheWay, row
  <2>2. now # NoTime
    BY WaitlistAssumption DEF Times, NoTime
  <2>. QED
    BY <1>1, <2>1, <2>2 DEF Later, Ledger!Rows, row, ActiveStatuses
<1>3. CASE req[w].op # "on_the_way"
  <2>1. /\ Decide(row.status, req[w].op, ActorOf(req[w].op)) = "apply"
        /\ draft[w] = AfterTransition(row, req[w].op, now)
    BY <1>3 DEF Computed, row
  <2>2. /\ row.status \in ActiveStatuses
        /\ req[w].op \in {"called"} \cup FinalStatuses
    BY <2>1, DecideApply
  <2>3. /\ draft[w].venue = row.venue /\ draft[w].phone = row.phone
        /\ draft[w].status = req[w].op /\ draft[w].onTheWayAt = row.onTheWayAt
        /\ draft[w] \in Ledger!Rows
    BY <1>1, <2>1, <2>2 DEF AfterTransition, Ledger!Rows, Ledger!Statuses,
       Ledger!ActiveStatuses, Ledger!FinalStatuses, FinalStatuses
  <2>. QED
    BY <2>2, <2>3 DEF Later, row, ActiveStatuses, FinalStatuses
<1>. QED
  BY <1>2, <1>3

\* Only a commit writes rows, and it writes the one row of its request.
LEMMA CommitRows ==
  ASSUME NEW w \in Workers, Commit(w)
  PROVE  /\ DOMAIN entries' = DOMAIN entries \cup {req[w].entry}
         /\ entries'[req[w].entry] = draft[w]
         /\ \A e \in DOMAIN entries : e # req[w].entry => entries'[e] = entries[e]
BY DEF Commit, Put

LEMMA NoCommitRows ==
  ASSUME NEW w \in Workers, Moves(w), ~Commit(w)
  PROVE  entries' = entries
<1>1. CASE Start(w)
  BY <1>1 DEF Start, JoinStart, HostStart, DinerStart, JoinTurnedAway, vars, db
<1>2. CASE Abort(w)
  BY <1>2 DEF Abort
<1>3. CASE Proceed(w)
  BY <1>3 DEF Proceed, NextTicket, InsertEntry, InsertDuplicate, JoinReread,
     JoinRereadMissing, RespondError, LockEntry, LockRefused, SaveEntry, LogEvent, db
<1>. QED
  BY <1>1, <1>2, <1>3 DEF Moves

\* Rows are never removed, and each only moves on.
LEMMA RowsMoveOn ==
  ASSUME TypeOK, NEW w \in Workers, OpFits(w), JoinOK(w), ChangeOK(w), Moves(w),
         NEW e \in DOMAIN entries
  PROVE  e \in DOMAIN entries' /\ Later(entries'[e], entries[e])
<1>0. Later(entries[e], entries[e])
  BY DEF Later
<1>1. CASE ~Commit(w)
  BY <1>0, <1>1, NoCommitRows
<1>2. CASE Commit(w) /\ e # req[w].entry
  BY <1>0, <1>2, CommitRows
<1>3. CASE Commit(w) /\ e = req[w].entry
  <2>1. pc[w] = "commit" /\ ~Joining(w)
    BY <1>3 DEF Commit, JoinOK
  <2>2. PICK now \in Times : Computed(w, now)
    BY <2>1 DEF ChangeOK
  <2>3. Later(draft[w], entries[req[w].entry])
    BY <1>3, <2>2, ComputedLater
  <2>. QED
    BY <1>3, <2>3, CommitRows
<1>. QED
  BY <1>1, <1>2, <1>3

\* The row that a request has locked stays as it is.
LEMMA LockedRowStays ==
  ASSUME TypeOK, Exclusive, NEW w \in Workers, OpFits(w), JoinOK(w), ChangeOK(w), Moves(w),
         NEW u \in Workers, u # w, HoldsEntry(u, req[u].entry),
         req[u].entry \in DOMAIN entries
  PROVE  entries'[req[u].entry] = entries[req[u].entry]
<1>1. CASE ~Commit(w)
  BY <1>1, NoCommitRows
<1>2. CASE Commit(w)
  <2>1. pc[w] = "commit"
    BY <1>2 DEF Commit
  <2>2. req[u].entry \in Ids
    BY DEF TypeOK, Ledger!TypeOK
  <2>3. CASE Joining(w)
    <3>1. req[w].entry # req[u].entry
      BY <2>1, <2>3 DEF JoinOK
    <3>. QED
      BY <1>2, <3>1, CommitRows
  <2>4. CASE ~Joining(w)
    <3>1. HoldsEntry(w, req[w].entry)
      BY <2>1, <2>4 DEF HoldsEntry
    <3>2. req[w].entry # req[u].entry
      BY <2>2, <3>1 DEF Exclusive
    <3>. QED
      BY <1>2, <3>2, CommitRows
  <2>. QED
    BY <2>3, <2>4
<1>. QED
  BY <1>1, <1>2

\* A counter that a request holds is changed by no other request.
LEMMA HeldCounterStays ==
  ASSUME LocalTypes, Exclusive, NEW w \in Workers, OpFits(w), JoinOK(w), Moves(w),
         NEW u \in Workers, u # w, NEW v \in Venues, NEW d \in Dates, HoldsCounter(u, v, d)
  PROVE  lastTicket'[<<v, d>>] = lastTicket[<<v, d>>]
<1>1. CASE NextTicket(w)
  <2>1. PICK a \in Venues, b \in Dates : a = draft[w].venue /\ b = draft[w].date
    BY <1>1 DEF NextTicket, OpFits, JoinOK, NewEntry
  <2>2. ~(a = v /\ b = d)
    BY <1>1, <2>1 DEF NextTicket
  <2>. QED
    BY <1>1, <2>1, <2>2 DEF NextTicket, LocalTypes
<1>2. CASE UndoTicket(w)
  <2>1. CASE Joining(w) /\ pc[w] \in {"insert", "log", "commit"}
    <3>1. PICK a \in Venues, b \in Dates : a = draft[w].venue /\ b = draft[w].date
      BY <2>1 DEF OpFits, JoinOK, NewEntry
    <3>2. HoldsCounter(w, a, b)
      BY <2>1, <3>1 DEF HoldsCounter
    <3>3. ~(a = v /\ b = d)
      BY <3>2 DEF Exclusive
    <3>. QED
      BY <1>2, <2>1, <3>1, <3>3 DEF UndoTicket, LocalTypes
  <2>2. CASE ~(Joining(w) /\ pc[w] \in {"insert", "log", "commit"})
    BY <1>2, <2>2 DEF UndoTicket
  <2>. QED
    BY <2>1, <2>2
<1>3. CASE lastTicket' = lastTicket
  BY <1>3
<1>4. NextTicket(w) \/ UndoTicket(w) \/ lastTicket' = lastTicket
  <2>1. CASE Start(w)
    BY <2>1 DEF Start, JoinStart, HostStart, DinerStart, JoinTurnedAway, vars, db
  <2>2. CASE Abort(w)
    BY <2>2 DEF Abort
  <2>3. CASE Proceed(w)
    BY <2>3 DEF Proceed, InsertEntry, InsertDuplicate, JoinReread,
       JoinRereadMissing, RespondError, LockEntry, LockRefused, SaveEntry, LogEvent, Commit, db
  <2>. QED
    BY <2>1, <2>2, <2>3 DEF Moves
<1>. QED
  BY <1>1, <1>2, <1>3, <1>4

LEMMA KeysGrow ==
  ASSUME TypeOK, NEW w \in Workers, Moves(w)
  PROVE  nextId' = nextId \/ nextId' = nextId + 1
<1>1. CASE Start(w)
  BY <1>1 DEF Start, JoinStart, HostStart, DinerStart, JoinTurnedAway, vars, db
<1>2. CASE Abort(w)
  BY <1>2 DEF Abort
<1>3. CASE Proceed(w)
  BY <1>3 DEF Proceed, NextTicket, InsertEntry, InsertDuplicate, JoinReread,
     JoinRereadMissing, RespondError, LockEntry, LockRefused, SaveEntry, LogEvent, Commit, db
<1>. QED
  BY <1>1, <1>2, <1>3 DEF Moves

\* The facts of IInv about the step's request and another one.
Pair(w, u) ==
  /\ TypeOK /\ LocalTypes /\ Exclusive /\ Keys
  /\ OpFits(w) /\ JoinOK(w) /\ ChangeOK(w)
  /\ OpFits(u) /\ JoinOK(u) /\ ChangeOK(u)

LEMMA OtherOpFits ==
  ASSUME NEW w \in Workers, NEW u \in Workers, u # w, Pair(w, u), Moves(w)
  PROVE  OpFits(u)'
BY OthersStay DEF Pair, OpFits, Joining

LEMMA OtherJoinOK ==
  ASSUME NEW w \in Workers, NEW u \in Workers, u # w, Pair(w, u), Moves(w)
  PROVE  JoinOK(u)'
<1>. USE DEF Pair
<1>1. /\ pc'[u] = pc[u] /\ req'[u] = req[u] /\ draft'[u] = draft[u] /\ event'[u] = event[u]
  BY OthersStay
<1>2. SUFFICES ASSUME Joining(u), pc[u] \in {"count", "insert", "log", "commit"}
               PROVE  JoinOK(u)'
  BY <1>1 DEF JoinOK, Joining
<1>3. PICK v \in Venues, d \in Dates, p \in Phones :
        v = draft[u].venue /\ d = draft[u].date /\ p = draft[u].phone
  BY <1>2 DEF OpFits, JoinOK, NewEntry
<1>4. pc[u] # "count" => lastTicket'[<<v, d>>] = lastTicket[<<v, d>>]
  <2>1. SUFFICES ASSUME pc[u] # "count" PROVE lastTicket'[<<v, d>>] = lastTicket[<<v, d>>]
    OBVIOUS
  <2>2. HoldsCounter(u, v, d)
    BY <1>2, <1>3, <2>1 DEF HoldsCounter
  <2>. QED
    BY <2>2, HeldCounterStays
<1>5. ASSUME pc[u] \in {"log", "commit"}
      PROVE  /\ req[u].entry \in 1 .. (nextId' - 1)
             /\ req[u].entry \notin DOMAIN entries'
             /\ ActiveOf(entries', v, p) = {}
  <2>1. /\ req[u].entry \in 1 .. (nextId - 1)
        /\ req[u].entry \notin DOMAIN entries
        /\ ActiveOf(entries, v, p) = {}
    BY <1>2, <1>3, <1>5 DEF JoinOK
  <2>2. req[u].entry \in 1 .. (nextId' - 1)
    BY <2>1, KeysGrow, WaitlistAssumption DEF TypeOK
  <2>3. CASE ~Commit(w)
    BY <2>1, <2>2, <2>3, NoCommitRows
  <2>4. CASE Commit(w)
    <3>0. pc[w] = "commit"
      BY <2>4 DEF Commit
    <3>1. CASE ~Joining(w)
      <4>1. DOMAIN entries' = DOMAIN entries
        BY <2>4, <3>0, <3>1, CommitRows DEF ChangeOK
      <4>2. \A e \in DOMAIN entries : Later(entries'[e], entries[e])
        BY RowsMoveOn
      <4>3. ActiveOf(entries', v, p) = {}
        BY <2>1, <4>1, <4>2 DEF ActiveOf, Later
      <4>. QED
        BY <2>1, <2>2, <4>1, <4>3
    <3>2. CASE Joining(w)
      <4>1. /\ req[w].entry # req[u].entry
            /\ ~(draft[w].venue = v /\ draft[w].phone = p)
        BY <1>2, <1>3, <1>5, <3>0, <3>2 DEF Exclusive
      <4>2. ActiveOf(entries', v, p) = {}
        <5>1. ASSUME NEW e \in DOMAIN entries'
              PROVE  ~( /\ entries'[e].venue = v /\ entries'[e].phone = p
                        /\ entries'[e].status \in ActiveStatuses )
          <6>1. CASE e = req[w].entry
            BY <2>4, <4>1, <6>1, CommitRows
          <6>2. CASE e # req[w].entry
            <7>1. DOMAIN entries' = DOMAIN entries \cup {req[w].entry}
              BY <2>4, CommitRows
            <7>2. e \in DOMAIN entries
              BY <5>1, <6>2, <7>1
            <7>3. entries'[e] = entries[e]
              BY <2>4, <6>2, <7>2, CommitRows
            <7>. QED
              BY <2>1, <7>2, <7>3 DEF ActiveOf
          <6>. QED
            BY <6>1, <6>2
        <5>. QED
          BY <5>1 DEF ActiveOf
      <4>. QED
        BY <2>1, <2>2, <2>4, <4>1, <4>2, CommitRows
    <3>. QED
      BY <3>1, <3>2
  <2>. QED
    BY <2>3, <2>4
<1>. QED
  BY <1>1, <1>2, <1>3, <1>4, <1>5 DEF JoinOK, Joining

LEMMA OtherChangeOK ==
  ASSUME NEW w \in Workers, NEW u \in Workers, u # w, Pair(w, u), Moves(w)
  PROVE  ChangeOK(u)'
<1>. USE DEF Pair
<1>1. /\ pc'[u] = pc[u] /\ req'[u] = req[u] /\ seen'[u] = seen[u]
      /\ draft'[u] = draft[u] /\ event'[u] = event[u]
  BY OthersStay
<1>2. SUFFICES ASSUME ~Joining(u), pc[u] \in {"lock", "save", "log", "commit"}
               PROVE  ChangeOK(u)'
  BY <1>1 DEF ChangeOK, Joining
<1>3. req[u].entry \in DOMAIN entries
  BY <1>2 DEF ChangeOK
<1>4. /\ req[u].entry \in DOMAIN entries'
      /\ Later(entries'[req[u].entry], entries[req[u].entry])
  BY <1>3, RowsMoveOn
<1>5. pc[u] # "lock" => entries'[req[u].entry] = entries[req[u].entry]
  BY <1>2, <1>3, LockedRowStays DEF HoldsEntry
<1>6. /\ pc[u] = "lock" /\ req[u].op \in HostTargets => Older(seen[u], entries'[req[u].entry])
      /\ pc[u] = "save" => Older(seen[u], entries'[req[u].entry])
  BY <1>2, <1>4, OlderStill DEF ChangeOK
<1>7. pc[u] # "lock" => \E now \in Times : Computed(u, now)'
  <2>1. SUFFICES ASSUME pc[u] # "lock" PROVE \E now \in Times : Computed(u, now)'
    OBVIOUS
  <2>2. PICK now \in Times : Computed(u, now)
    BY <1>2, <2>1 DEF ChangeOK
  <2>3. Computed(u, now)'
    BY <1>1, <1>5, <2>1, <2>2 DEF Computed
  <2>. QED
    BY <2>3
<1>. QED
  BY <1>1, <1>2, <1>4, <1>6, <1>7 DEF ChangeOK, Joining

-----------------------------------------------------------------------------
(* What a step leaves true for its own request. *)

LEMMA OwnOpFits ==
  ASSUME LocalTypes, NEW w \in Workers, OpFits(w), Moves(w)
  PROVE  OpFits(w)'
<1>. USE DEF OpFits, Joining, LocalTypes, EntryOps
<1>1. CASE Start(w)
  <2>1. CASE \E v \in Venues, p \in Phones, d \in Dates : JoinStart(w, v, p, d)
    BY <2>1 DEF JoinStart, NoRequest
  <2>2. CASE \E v \in Venues, e \in Ids, target \in HostTargets : HostStart(w, v, e, target)
    BY <2>2 DEF HostStart, NoRequest, HostTargets, DinerOps
  <2>3. CASE \E v \in Venues, e \in Ids, op \in DinerOps : DinerStart(w, v, e, op)
    BY <2>3 DEF DinerStart, NoRequest, HostTargets, DinerOps
  <2>4. CASE JoinTurnedAway(w)
    BY <2>4 DEF JoinTurnedAway, vars
  <2>. QED
    BY <1>1, <2>1, <2>2, <2>3, <2>4 DEF Start
<1>2. CASE pc'[w] = "idle" /\ req'[w] = NoRequest
  BY <1>2 DEF NoRequest
<1>3. ASSUME Finish(w)
      PROVE  pc'[w] = "idle" /\ req'[w] = NoRequest
  BY <1>3 DEF Finish
<1>4. CASE Abort(w)
  BY <1>2, <1>3, <1>4 DEF Abort
<1>5. CASE Proceed(w)
  <2>1. CASE JoinReread(w) \/ RespondError(w) \/ LockRefused(w) \/ Commit(w)
    BY <1>2, <1>3, <2>1 DEF JoinReread, RespondError, LockRefused, Commit
  <2>2. CASE NextTicket(w) \/ InsertDuplicate(w) \/ JoinRereadMissing(w)
             \/ LockEntry(w) \/ SaveEntry(w) \/ LogEvent(w)
    BY <2>2 DEF NextTicket, InsertDuplicate, InsertReady, JoinRereadMissing, LockEntry,
       LockReady, SaveEntry, LogEvent, db
  <2>3. CASE InsertEntry(w)
    BY <2>3 DEF InsertEntry, InsertReady, Requests
  <2>. QED
    BY <1>5, <2>1, <2>2, <2>3 DEF Proceed
<1>. QED
  BY <1>1, <1>4, <1>5 DEF Moves

LEMMA NewEntryFields ==
  ASSUME NEW v, NEW p, NEW d, NEW n, NEW now
  PROVE  LET r == NewEntry(v, p, d, n, now) IN
         /\ r.venue = v /\ r.phone = p /\ r.date = d /\ r.ticket = n /\ r.joinedAt = now
         /\ \A m : [r EXCEPT !.ticket = m] = NewEntry(v, p, d, m, now)
BY DEF NewEntry

LEMMA OwnJoinOK ==
  ASSUME TypeOK, LocalTypes, Keys, NEW w \in Workers, OpFits(w), JoinOK(w), Moves(w)
  PROVE  JoinOK(w)'
<1>. USE DEF LocalTypes
<1>0. clock \in Times /\ nextId \in Nat \ {0}
  BY WaitlistAssumption DEF TypeOK
<1>1. ASSUME NEW v \in Venues, NEW p \in Phones, NEW d \in Dates, JoinStart(w, v, p, d)
      PROVE  JoinOK(w)'
  <2>1. /\ pc'[w] = "count" /\ draft'[w] = NewEntry(v, p, d, 0, clock)
        /\ req'[w].venue = v /\ req'[w].phone = p
    BY <1>1 DEF JoinStart, NoRequest
  <2>. QED
    BY <1>0, <2>1, NewEntryFields DEF JoinOK
<1>2. CASE NextTicket(w)
  <2>1. /\ Joining(w) /\ pc[w] = "count" /\ pc'[w] = "insert" /\ req'[w] = req[w]
    BY <1>2 DEF NextTicket, OpFits
  <2>2. PICK v \in Venues, p \in Phones, d \in Dates :
          /\ v = req[w].venue /\ p = req[w].phone /\ d = draft[w].date
          /\ draft[w] = NewEntry(v, p, d, draft[w].ticket, draft[w].joinedAt)
          /\ v = draft[w].venue /\ draft[w].joinedAt \in Times
    BY <2>1 DEF OpFits, JoinOK, NewEntry
  <2>3. /\ lastTicket[<<v, d>>] \in Nat
        /\ lastTicket'[<<v, d>>] = lastTicket[<<v, d>>] + 1
        /\ draft'[w] = [draft[w] EXCEPT !.ticket = lastTicket[<<v, d>>] + 1]
    BY <1>2, <2>2 DEF NextTicket
  <2>4. draft'[w] = NewEntry(v, p, d, lastTicket[<<v, d>>] + 1, draft[w].joinedAt)
    BY <2>2, <2>3, NewEntryFields
  <2>5. /\ draft'[w].venue = v /\ draft'[w].date = d
        /\ draft'[w].ticket = lastTicket'[<<v, d>>] /\ draft'[w].joinedAt = draft[w].joinedAt
    BY <2>3, <2>4 DEF NewEntry
  <2>. QED
    BY <2>1, <2>2, <2>3, <2>4, <2>5 DEF JoinOK
<1>3. CASE InsertEntry(w)
  <2>1. /\ Joining(w) /\ pc[w] = "insert" /\ pc'[w] = "log"
        /\ draft'[w] = draft[w] /\ lastTicket' = lastTicket /\ entries' = entries
        /\ nextId' = nextId + 1
        /\ event'[w] = JoinedEvent(draft[w].joinedAt)
        /\ ActiveOf(entries, draft[w].venue, draft[w].phone) = {}
    BY <1>3 DEF InsertEntry, InsertReady, OpFits
  <2>2. /\ req'[w].entry = nextId /\ req'[w].venue = req[w].venue
        /\ req'[w].phone = req[w].phone
    BY <1>3 DEF InsertEntry, Requests
  <2>3. nextId \notin DOMAIN entries /\ nextId \in 1 .. (nextId' - 1)
    BY <1>0, <2>1, WaitlistAssumption DEF Keys, TypeOK, Ledger!TypeOK, Ids
  <2>. QED
    BY <2>1, <2>2, <2>3 DEF JoinOK
<1>4. CASE LogEvent(w)
  <2>1. /\ pc[w] = "log" /\ pc'[w] = "commit" /\ req' = req /\ draft' = draft /\ event' = event
        /\ lastTicket' = lastTicket /\ entries' = entries /\ nextId' = nextId
    BY <1>4 DEF LogEvent, db
  <2>. QED
    BY <2>1 DEF JoinOK, Joining
<1>5. CASE pc'[w] \in {"idle", "reread", "error", "lock", "save"}
  BY <1>5 DEF JoinOK
<1>6. CASE SaveEntry(w)
  <2>1. ~Joining(w) /\ req' = req
    BY <1>6 DEF SaveEntry, OpFits, EntryOps, HostTargets, DinerOps, Joining
  <2>. QED
    BY <2>1 DEF JoinOK, Joining
<1>7. CASE JoinTurnedAway(w)
  BY <1>7 DEF JoinTurnedAway, vars, JoinOK, Joining
<1>8. ASSUME \/ \E v \in Venues, e \in Ids, target \in HostTargets : HostStart(w, v, e, target)
             \/ \E v \in Venues, e \in Ids, op \in DinerOps : DinerStart(w, v, e, op)
             \/ InsertDuplicate(w) \/ JoinReread(w) \/ JoinRereadMissing(w) \/ RespondError(w)
             \/ LockEntry(w) \/ LockRefused(w) \/ Commit(w) \/ Abort(w)
      PROVE  pc'[w] \in {"idle", "reread", "error", "lock", "save"}
  BY <1>8 DEF HostStart, DinerStart, InsertDuplicate, JoinReread, JoinRereadMissing,
     RespondError, LockEntry, LockRefused, Commit, Abort, Finish
<1>. QED
  BY <1>1, <1>2, <1>3, <1>4, <1>5, <1>6, <1>7, <1>8 DEF Moves, Start, Proceed

\* An entry's own row is a copy of itself that it may have moved on from.
LEMMA OlderSelf ==
  ASSUME LP!Promises, NEW e \in DOMAIN entries
  PROVE  Older(entries[e], entries[e])
<1>1. LP!TimesFitStatus
  BY DEF LP!Promises
<1>2. /\ (entries[e].endedAt # NoTime) <=> (entries[e].status \in FinalStatuses)
      /\ entries[e].status = "waiting" => entries[e].calledAt = NoTime
  BY <1>1, SameDefinitions DEF LP!TimesFitStatus
<1>. QED
  BY <1>2 DEF Older, ActiveStatuses, FinalStatuses

(***************************************************************************)
(* The heart of the argument: the UPDATE built from an old copy stores the *)
(* row that was computed from the locked one, because a row never returns  *)
(* to a status or a NULL it has left.                                      *)
(***************************************************************************)
LEMMA DirtyIsComplete ==
  ASSUME TypeOK, NEW w \in Workers, req[w].entry \in DOMAIN entries,
         NEW now \in Times, Computed(w, now),
         NEW old, Older(old, entries[req[w].entry])
  PROVE  DirtyColumns(old, draft[w], entries[req[w].entry]) = draft[w]
<1> DEFINE row == entries[req[w].entry]
           op  == req[w].op
<1>1. row \in Ledger!Rows /\ now # NoTime
  BY RowsTyped, WaitlistAssumption DEF Times, NoTime
<1>. HIDE DEF row, op
<1>2. CASE op = "on_the_way"
  <2>1. draft[w] = [row EXCEPT !.onTheWayAt = now] /\ row.onTheWayAt = NoTime
    BY <1>2 DEF Computed, AfterOnTheWay, DecideOnTheWay, row, op
  <2>2. old.onTheWayAt = NoTime
    BY <2>1 DEF Older, row
  <2>. QED
    BY <1>1, <2>1, <2>2 DEF DirtyColumns, Ledger!Rows, row
<1>3. CASE op # "on_the_way"
  <2>1. /\ Decide(row.status, op, ActorOf(op)) = "apply"
        /\ draft[w] = AfterTransition(row, op, now)
    BY <1>3 DEF Computed, row, op
  <2>2. /\ row.status \in ActiveStatuses
        /\ op \in {"called"} \cup FinalStatuses
        /\ op = "called" => row.status = "waiting"
    BY <2>1, DecideApply
  <2>3. CASE op = "called"
    <3>1. draft[w] = [row EXCEPT !.status = "called", !.calledAt = now]
      BY <2>1, <2>3 DEF AfterTransition
    <3>2. old.status = "waiting" /\ old.calledAt = NoTime
      BY <2>2, <2>3 DEF Older, row
    <3>. QED
      BY <1>1, <3>1, <3>2 DEF DirtyColumns, Ledger!Rows, row
  <2>4. CASE op # "called"
    <3>1. draft[w] = [row EXCEPT !.status = op, !.endedAt = now]
      BY <2>1, <2>4 DEF AfterTransition
    <3>2. old.status # op /\ old.endedAt = NoTime
      BY <2>2, <2>4 DEF Older, row, ActiveStatuses, FinalStatuses
    <3>. QED
      BY <1>1, <3>1, <3>2 DEF DirtyColumns, Ledger!Rows, row
  <2>. QED
    BY <2>3, <2>4
<1>. QED
  BY <1>2, <1>3

\* The save step leaves the draft as it was: the property NoLostColumn.
LEMMA SaveKeepsDraft ==
  ASSUME TypeOK, LocalTypes, NEW w \in Workers, OpFits(w), ChangeOK(w), SaveEntry(w)
  PROVE  draft'[w] = draft[w]
<1>1. ~Joining(w) /\ pc[w] = "save"
  BY DEF SaveEntry, OpFits, EntryOps, HostTargets, DinerOps, Joining
<1>2. PICK now \in Times : Computed(w, now)
  BY <1>1 DEF ChangeOK
<1>3. req[w].entry \in DOMAIN entries /\ Older(seen[w], entries[req[w].entry])
  BY <1>1 DEF ChangeOK
<1>4. draft'[w] = DirtyColumns(seen[w], draft[w], entries[req[w].entry])
  BY DEF SaveEntry, LocalTypes
<1>. QED
  BY <1>2, <1>3, <1>4, DirtyIsComplete

LEMMA OwnChangeOK ==
  ASSUME TypeOK, LocalTypes, LP!Promises, NEW w \in Workers, OpFits(w), ChangeOK(w), Moves(w)
  PROVE  ChangeOK(w)'
<1>. USE DEF LocalTypes
<1>0. clock \in Times
  BY WaitlistAssumption DEF TypeOK
<1>1. ASSUME NEW v \in Venues, NEW e \in Ids, NEW target \in HostTargets, HostStart(w, v, e, target)
      PROVE  ChangeOK(w)'
  <2>1. /\ e \in DOMAIN entries /\ entries' = entries /\ pc'[w] = "lock"
        /\ req'[w].entry = e /\ seen'[w] = entries[e]
    BY <1>1 DEF HostStart, NoRequest, db
  <2>2. Older(entries[e], entries[e])
    BY <2>1, OlderSelf
  <2>. QED
    BY <2>1, <2>2 DEF ChangeOK
<1>2. ASSUME NEW v \in Venues, NEW e \in Ids, NEW op \in DinerOps, DinerStart(w, v, e, op)
      PROVE  ChangeOK(w)'
  <2>1. /\ e \in DOMAIN entries /\ entries' = entries /\ pc'[w] = "lock"
        /\ req'[w].entry = e /\ req'[w].op \notin HostTargets
    BY <1>2 DEF DinerStart, NoRequest, db, DinerOps, HostTargets
  <2>. QED
    BY <2>1 DEF ChangeOK
<1>3. CASE LockEntry(w)
  <2>1. /\ pc[w] = "lock" /\ ~Joining(w) /\ req[w].op \in EntryOps
        /\ req[w].entry \in DOMAIN entries
    BY <1>3 DEF LockEntry, LockReady, OpFits, ChangeOK, EntryOps, HostTargets, DinerOps, Joining
  <2> DEFINE row == entries[req[w].entry]
             op  == req[w].op
  <2>2. /\ pc'[w] = "save" /\ req' = req /\ entries' = entries
        /\ seen'[w] = IF op \in DinerOps THEN row ELSE seen[w]
        /\ draft'[w] = IF op = "on_the_way" THEN AfterOnTheWay(row, clock)
                       ELSE AfterTransition(row, op, clock)
        /\ event'[w] = IF op = "on_the_way" THEN OnTheWayEvent(clock)
                       ELSE StatusEvent(row, op, ActorOf(op), clock)
    BY <1>3 DEF LockEntry, db
  <2>3. Older(seen'[w], row)
    <3>1. CASE op \in DinerOps
      BY <2>1, <2>2, <3>1, OlderSelf
    <3>2. CASE op \notin DinerOps
      BY <2>1, <2>2, <3>2 DEF ChangeOK, EntryOps
    <3>. QED
      BY <3>1, <3>2
  <2>4. IF op = "on_the_way" THEN DecideOnTheWay(row) = "apply"
                             ELSE Decide(row.status, op, ActorOf(op)) = "apply"
    BY <1>3 DEF LockEntry, Verdict
  <2>5. \E now \in Times : Computed(w, now)'
    <3>1. PICK now \in Times : now = clock
      BY <1>0
    <3>2. Computed(w, now)'
      BY <2>2, <2>4, <3>1 DEF Computed
    <3>. QED
      BY <3>2
  <2>. QED
    BY <2>1, <2>2, <2>3, <2>5 DEF ChangeOK
<1>4. CASE SaveEntry(w)
  <2>1. /\ pc[w] = "save" /\ pc'[w] = "log" /\ req' = req /\ entries' = entries /\ event' = event
    BY <1>4 DEF SaveEntry, db
  <2>2. draft'[w] = draft[w]
    BY <1>4, SaveKeepsDraft
  <2>3. ~Joining(w)
    BY <2>1 DEF OpFits, EntryOps, HostTargets, DinerOps, Joining
  <2>4. PICK now \in Times : Computed(w, now)
    BY <2>1, <2>3 DEF ChangeOK
  <2>5. Computed(w, now)'
    BY <2>1, <2>2, <2>4 DEF Computed
  <2>. QED
    BY <2>1, <2>3, <2>5 DEF ChangeOK
<1>5. CASE LogEvent(w)
  <2>1. /\ pc[w] = "log" /\ pc'[w] = "commit" /\ req' = req /\ entries' = entries
        /\ event' = event /\ draft' = draft
    BY <1>5 DEF LogEvent, db
  <2>2. CASE Joining(w)
    BY <2>1, <2>2 DEF ChangeOK, Joining
  <2>3. CASE ~Joining(w)
    <3>1. PICK now \in Times : Computed(w, now)
      BY <2>1, <2>3 DEF ChangeOK
    <3>2. Computed(w, now)'
      BY <2>1, <3>1 DEF Computed
    <3>. QED
      BY <2>1, <2>3, <3>2 DEF ChangeOK
  <2>. QED
    BY <2>2, <2>3
<1>6. CASE pc'[w] \in {"idle", "count", "insert", "reread", "error"}
  BY <1>6 DEF ChangeOK
<1>7. CASE InsertEntry(w)
  <2>1. Joining(w) /\ req'[w].op = req[w].op
    BY <1>7 DEF InsertEntry, InsertReady, OpFits, Requests
  <2>. QED
    BY <2>1 DEF ChangeOK, Joining
<1>8. CASE JoinTurnedAway(w)
  <2>1. UNCHANGED vars /\ pc[w] = "idle"
    BY <1>8 DEF JoinTurnedAway
  <2>. QED
    BY <2>1 DEF vars, ChangeOK
<1>9. ASSUME \/ \E v \in Venues, p \in Phones, d \in Dates : JoinStart(w, v, p, d)
             \/ NextTicket(w) \/ InsertDuplicate(w) \/ JoinReread(w) \/ JoinRereadMissing(w)
             \/ RespondError(w) \/ LockRefused(w) \/ Commit(w) \/ Abort(w)
      PROVE  pc'[w] \in {"idle", "count", "insert", "reread", "error"}
  BY <1>9 DEF JoinStart, NextTicket, InsertDuplicate, JoinReread, JoinRereadMissing,
     RespondError, LockRefused, Commit, Abort, Finish
<1>. QED
  BY <1>1, <1>2, <1>3, <1>4, <1>5, <1>6, <1>7, <1>8, <1>9 DEF Moves, Start, Proceed
-----------------------------------------------------------------------------
(* Locks exclude after the step as before. *)

Apart(u, w) ==
  /\ \A e \in Ids : ~(HoldsEntry(u, e) /\ HoldsEntry(w, e))
  /\ \A v \in Venues, d \in Dates : ~(HoldsCounter(u, v, d) /\ HoldsCounter(w, v, d))
  /\ /\ Joining(u) /\ pc[u] \in {"log", "commit"}
     /\ Joining(w) /\ pc[w] \in {"log", "commit"}
     => /\ req[u].entry # req[w].entry
        /\ ~(draft[u].venue = draft[w].venue /\ draft[u].phone = draft[w].phone)

\* A lock is held after a step only when it was held before or the step took it.
LEMMA LocksTaken ==
  ASSUME LocalTypes, NEW w \in Workers, OpFits(w), Moves(w)
  PROVE  /\ \A e : HoldsEntry(w, e)' => HoldsEntry(w, e) \/ (LockEntry(w) /\ e = req[w].entry)
         /\ \A v, d : HoldsCounter(w, v, d)' =>
              \/ HoldsCounter(w, v, d)
              \/ NextTicket(w) /\ v = draft[w].venue /\ d = draft[w].date
         /\ Joining(w)' /\ pc'[w] \in {"log", "commit"} =>
              \/ InsertEntry(w)
              \/ /\ Joining(w) /\ pc[w] = "log"
                 /\ req'[w] = req[w] /\ draft'[w] = draft[w]
<1>. USE DEF LocalTypes, OpFits, HoldsEntry, HoldsCounter, Joining, EntryOps, HostTargets, DinerOps
<1>1. CASE pc'[w] \in {"idle", "count", "lock", "reread", "error"}
  BY <1>1
<1>2. CASE LockEntry(w)
  BY <1>2 DEF LockEntry, LockReady
<1>3. CASE NextTicket(w)
  BY <1>3 DEF NextTicket
<1>4. CASE InsertEntry(w)
  BY <1>4 DEF InsertEntry, InsertReady, Requests
<1>5. CASE SaveEntry(w)
  BY <1>5 DEF SaveEntry
<1>6. CASE LogEvent(w)
  BY <1>6 DEF LogEvent
<1>7. ASSUME \/ Start(w) \/ Abort(w) \/ InsertDuplicate(w) \/ JoinReread(w)
             \/ JoinRereadMissing(w) \/ RespondError(w) \/ LockRefused(w) \/ Commit(w)
      PROVE  pc'[w] \in {"idle", "count", "lock", "reread", "error"}
  BY <1>7 DEF Start, JoinStart, HostStart, DinerStart, JoinTurnedAway, vars, Abort,
     InsertDuplicate, JoinReread, JoinRereadMissing, RespondError, LockRefused, Commit, Finish
<1>. QED
  BY <1>1, <1>2, <1>3, <1>4, <1>5, <1>6, <1>7 DEF Moves, Proceed

LEMMA MoverApart ==
  ASSUME NEW w \in Workers, NEW u \in Workers, u # w, Pair(w, u), Moves(w)
  PROVE  Apart(w, u)'
<1>. USE DEF Pair
<1>1. /\ pc'[u] = pc[u] /\ req'[u] = req[u] /\ draft'[u] = draft[u]
  BY OthersStay
<1>2. /\ \A e : HoldsEntry(u, e)' => HoldsEntry(u, e)
      /\ \A v, d : HoldsCounter(u, v, d)' => HoldsCounter(u, v, d)
  BY <1>1 DEF HoldsEntry, HoldsCounter, Joining
<1>3. ASSUME NEW e \in Ids, HoldsEntry(w, e)', HoldsEntry(u, e)'
      PROVE  FALSE
  <2>1. HoldsEntry(u, e)
    BY <1>2, <1>3
  <2>2. HoldsEntry(w, e) \/ (LockEntry(w) /\ e = req[w].entry)
    BY <1>3, LocksTaken
  <2>. HIDE DEF HoldsEntry
  <2>. QED
    BY <2>1, <2>2 DEF Exclusive, LockEntry, LockReady
<1>4. ASSUME NEW v \in Venues, NEW d \in Dates, HoldsCounter(w, v, d)', HoldsCounter(u, v, d)'
      PROVE  FALSE
  <2>1. HoldsCounter(u, v, d)
    BY <1>2, <1>4
  <2>2. HoldsCounter(w, v, d) \/ (NextTicket(w) /\ v = draft[w].venue /\ d = draft[w].date)
    BY <1>4, LocksTaken
  <2>. QED
    BY <2>1, <2>2 DEF Exclusive, NextTicket
<1>5. ASSUME Joining(w)', pc'[w] \in {"log", "commit"}, Joining(u)', pc'[u] \in {"log", "commit"}
      PROVE  /\ req'[w].entry # req'[u].entry
             /\ ~(draft'[w].venue = draft'[u].venue /\ draft'[w].phone = draft'[u].phone)
  <2>1. Joining(u) /\ pc[u] \in {"log", "commit"}
    BY <1>1, <1>5 DEF Joining
  <2>2. CASE InsertEntry(w)
    <3>1. req'[w].entry = nextId /\ draft'[w] = draft[w]
      BY <2>2 DEF InsertEntry, LocalTypes, Requests
    <3>2. req[u].entry # nextId
      BY <2>1 DEF JoinOK, TypeOK
    <3>3. ~(draft[w].venue = draft[u].venue /\ draft[w].phone = draft[u].phone)
      BY <2>1, <2>2 DEF InsertEntry, InsertReady, ClaimsPhone
    <3>. QED
      BY <1>1, <3>1, <3>2, <3>3
  <2>3. CASE Joining(w) /\ pc[w] = "log" /\ req'[w] = req[w] /\ draft'[w] = draft[w]
    BY <1>1, <2>1, <2>3 DEF Exclusive
  <2>. QED
    BY <1>5, <2>2, <2>3, LocksTaken
<1>. QED
  BY <1>3, <1>4, <1>5 DEF Apart, Joining

LEMMA ExclusiveStep ==
  ASSUME IInv, NEW w \in Workers, Moves(w)
  PROVE  Exclusive'
<1>0. LocalTypes
  BY TypesOf DEF IInv
<1>1. ASSUME NEW u \in Workers, u # w
      PROVE  Apart(w, u)'
  <2>1. Pair(w, u)
    BY <1>0 DEF IInv, Pair
  <2>. QED
    BY <1>1, <2>1, MoverApart
<1>2. ASSUME NEW u \in Workers, u # w
      PROVE  Apart(u, w)'
  BY <1>1, <1>2 DEF Apart
<1>3. ASSUME NEW u \in Workers, NEW x \in Workers, u # w, x # w, u # x
      PROVE  Apart(u, x)'
  <2>1. Apart(u, x)
    BY <1>3 DEF IInv, Exclusive, Apart
  <2>2. /\ pc'[u] = pc[u] /\ req'[u] = req[u] /\ draft'[u] = draft[u]
        /\ pc'[x] = pc[x] /\ req'[x] = req[x] /\ draft'[x] = draft[x]
    BY <1>0, <1>3, OthersStay
  <2>. QED
    BY <2>1, <2>2 DEF Apart, HoldsEntry, HoldsCounter, Joining
<1>4. \A u, x \in Workers : u # x => Apart(u, x)'
  BY <1>1, <1>2, <1>3
<1>. QED
  BY <1>4 DEF Exclusive, Apart
-----------------------------------------------------------------------------
(* Keys. *)

\* What a step does to the joins that may still allocate a key.
LEMMA UnallocatedStep ==
  ASSUME LocalTypes, NEW w \in Workers, Moves(w)
  PROVE  \/ /\ Unallocated' = Unallocated \cup {w} /\ nextId' = nextId
            /\ nextId + Cardinality(Unallocated) <= MaxId
         \/ /\ Unallocated' = Unallocated \ {w} /\ w \in Unallocated /\ nextId' = nextId + 1
         \/ /\ Unallocated' \subseteq Unallocated /\ nextId' = nextId
<1>. USE DEF LocalTypes
<1>1. \A u \in Workers : u # w => pc'[u] = pc[u]
  BY OthersStay
<1>2. ASSUME NEW v \in Venues, NEW p \in Phones, NEW d \in Dates, JoinStart(w, v, p, d)
      PROVE  /\ Unallocated' = Unallocated \cup {w} /\ nextId' = nextId
             /\ nextId + Cardinality(Unallocated) <= MaxId
  <2>1. pc'[w] = "count" /\ nextId' = nextId /\ nextId + Cardinality(Unallocated) <= MaxId
    BY <1>2 DEF JoinStart, db
  <2>. QED
    BY <1>1, <2>1 DEF Unallocated
<1>3. CASE InsertEntry(w) \/ InsertDuplicate(w)
  <2>1. pc[w] = "insert" /\ pc'[w] \in {"log", "reread"} /\ nextId' = nextId + 1
    BY <1>3 DEF InsertEntry, InsertDuplicate, InsertReady
  <2>. QED
    BY <1>1, <2>1 DEF Unallocated
<1>4. CASE NextTicket(w)
  <2>1. pc[w] = "count" /\ nextId' = nextId
    BY <1>4 DEF NextTicket
  <2>. QED
    BY <1>1, <2>1 DEF Unallocated
<1>5. CASE pc'[w] \notin {"count", "insert"} /\ nextId' = nextId
  BY <1>1, <1>5 DEF Unallocated
<1>6. CASE JoinTurnedAway(w)
  BY <1>6 DEF JoinTurnedAway, vars, Unallocated
<1>7. ASSUME \/ \E v \in Venues, e \in Ids, target \in HostTargets : HostStart(w, v, e, target)
             \/ \E v \in Venues, e \in Ids, op \in DinerOps : DinerStart(w, v, e, op)
             \/ JoinReread(w) \/ JoinRereadMissing(w) \/ RespondError(w)
             \/ LockEntry(w) \/ LockRefused(w) \/ SaveEntry(w) \/ LogEvent(w) \/ Commit(w)
             \/ Abort(w)
      PROVE  pc'[w] \notin {"count", "insert"} /\ nextId' = nextId
  BY <1>7 DEF HostStart, DinerStart, JoinReread, JoinRereadMissing, RespondError, LockEntry,
     LockRefused, SaveEntry, LogEvent, Commit, Abort, Finish, db
<1>. QED
  BY <1>2, <1>3, <1>4, <1>5, <1>6, <1>7 DEF Moves, Start, Proceed

LEMMA UnallocatedFinite ==
  /\ IsFiniteSet(Unallocated) /\ Cardinality(Unallocated) \in Nat
  /\ IsFiniteSet(Unallocated') /\ Cardinality(Unallocated') \in Nat
<1>1. Unallocated \in SUBSET Workers /\ Unallocated' \in SUBSET Workers
  BY DEF Unallocated
<1>2. IsFiniteSet(Unallocated) /\ IsFiniteSet(Unallocated')
  BY <1>1, FS_Subset, WaitlistAssumption
<1>. QED
  BY <1>2, FS_CardinalityType

LEMMA KeysStep ==
  ASSUME IInv, NEW w \in Workers, Moves(w)
  PROVE  Keys'
<1>0. LocalTypes /\ TypeOK /\ Keys /\ OpFits(w) /\ JoinOK(w) /\ ChangeOK(w)
  BY TypesOf DEF IInv
<1>n. nextId \in Nat /\ MaxId \in Nat
  BY <1>0, WaitlistAssumption DEF TypeOK
<1>1. \A e \in DOMAIN entries' : e < nextId'
  <2>0. /\ nextId' = nextId \/ nextId' = nextId + 1
        /\ \A e \in DOMAIN entries : e < nextId /\ e \in Int
    BY <1>0, KeysGrow DEF Keys, TypeOK, Ledger!TypeOK, Ids
  <2>1. CASE ~Commit(w)
    BY <1>n, <2>0, <2>1, NoCommitRows
  <2>2. CASE Commit(w)
    <3>1. req[w].entry < nextId /\ req[w].entry \in Int
      <4>1. CASE Joining(w)
        BY <1>0, <1>n, <2>2, <4>1 DEF JoinOK, Commit
      <4>2. CASE ~Joining(w)
        BY <1>0, <2>0, <2>2, <4>2 DEF ChangeOK, Commit
      <4>. QED
        BY <4>1, <4>2
    <3>2. DOMAIN entries' = DOMAIN entries \cup {req[w].entry}
      BY <2>2, CommitRows
    <3>3. nextId' = nextId
      BY <2>2 DEF Commit
    <3>. QED
      BY <2>0, <3>1, <3>2, <3>3
  <2>. QED
    BY <2>1, <2>2
<1>2. nextId' + Cardinality(Unallocated') <= MaxId + 1
  <2>0. /\ IsFiniteSet(Unallocated) /\ Cardinality(Unallocated) \in Nat
        /\ Cardinality(Unallocated') \in Nat
        /\ nextId + Cardinality(Unallocated) <= MaxId + 1
    BY <1>0, UnallocatedFinite DEF Keys
  <2>1. CASE /\ Unallocated' = Unallocated \cup {w} /\ nextId' = nextId
             /\ nextId + Cardinality(Unallocated) <= MaxId
    <3>1. Cardinality(Unallocated') \in {Cardinality(Unallocated), Cardinality(Unallocated) + 1}
      BY <2>0, <2>1, FS_AddElement
    <3>. QED
      BY <1>n, <2>0, <2>1, <3>1
  <2>2. CASE Unallocated' = Unallocated \ {w} /\ w \in Unallocated /\ nextId' = nextId + 1
    <3>1. Cardinality(Unallocated') = Cardinality(Unallocated) - 1
      BY <2>0, <2>2, FS_RemoveElement
    <3>. QED
      BY <1>n, <2>0, <2>2, <3>1
  <2>3. CASE Unallocated' \subseteq Unallocated /\ nextId' = nextId
    <3>1. Cardinality(Unallocated') <= Cardinality(Unallocated)
      BY <2>0, <2>3, FS_Subset
    <3>. QED
      BY <1>n, <2>0, <2>3, <3>1
  <2>. QED
    BY <1>0, <2>1, <2>2, <2>3, UnallocatedStep
<1>. QED
  BY <1>1, <1>2 DEF Keys
-----------------------------------------------------------------------------
(* Types. *)

LEMMA SomeRows ==
  /\ \A v \in Venues, p \in Phones, d \in Dates, n \in Nat, now \in Times :
       NewEntry(v, p, d, n, now) \in Ledger!Rows
  /\ \A now \in Times : JoinedEvent(now) \in Ledger!Events /\ OnTheWayEvent(now) \in Ledger!Events
  /\ \A row \in Ledger!Rows, op \in HostTargets \cup {"cancelled"}, now \in Times :
       StatusEvent(row, op, ActorOf(op), now) \in Ledger!Events
<1>. USE SameDefinitions DEF Statuses, ActiveStatuses, FinalStatuses, NoTime, Ledger!Statuses,
       Ledger!ActiveStatuses, Ledger!FinalStatuses, Ledger!NoTime, Ledger!Actors, ActorOf, HostTargets
<1>1. \A v \in Venues, p \in Phones, d \in Dates, n \in Nat, now \in Times :
        NewEntry(v, p, d, n, now) \in Ledger!Rows
  BY DEF NewEntry, Ledger!Rows
<1>2. \A now \in Times : JoinedEvent(now) \in Ledger!Events /\ OnTheWayEvent(now) \in Ledger!Events
  BY DEF JoinedEvent, OnTheWayEvent, Ledger!Events
<1>3. \A row \in Ledger!Rows, op \in HostTargets \cup {"cancelled"}, now \in Times :
        StatusEvent(row, op, ActorOf(op), now) \in Ledger!Events
  BY DEF StatusEvent, Ledger!Rows, Ledger!Events
<1>. QED
  BY <1>1, <1>2, <1>3

LEMMA LocalTypesStep ==
  ASSUME IInv, NEW w \in Workers, Moves(w), lastTicket' \in [Venues \X Dates -> Nat]
  PROVE  LocalTypes'
<1>0. LocalTypes /\ TypeOK /\ OpFits(w) /\ JoinOK(w) /\ ChangeOK(w) /\ clock \in Times
      /\ clock \in Times
  BY TypesOf DEF IInv, TypeOK
<1>. USE DEF LocalTypes
<1>1. ASSUME NEW v \in Venues, NEW p \in Phones, NEW d \in Dates, JoinStart(w, v, p, d)
      PROVE  LocalTypes'
  <2>1. NewEntry(v, p, d, 0, clock) \in Ledger!Rows
    BY <1>0, SomeRows
  <2>2. [NoRequest EXCEPT !.op = "join", !.venue = v, !.phone = p] \in Requests
    BY DEF NoRequest, Requests
  <2>. QED
    BY <1>0, <1>1, <2>1, <2>2 DEF JoinStart
<1>2. ASSUME NEW v \in Venues, NEW e \in Ids, NEW target \in HostTargets, HostStart(w, v, e, target)
      PROVE  LocalTypes'
  <2>1. entries[e] \in Ledger!Rows
    BY <1>0, <1>2, RowsTyped DEF HostStart
  <2>2. [NoRequest EXCEPT !.op = target, !.venue = v, !.entry = e] \in Requests
    BY DEF NoRequest, Requests
  <2>. QED
    BY <1>0, <1>2, <2>1, <2>2 DEF HostStart
<1>3. ASSUME NEW v \in Venues, NEW e \in Ids, NEW op \in DinerOps, DinerStart(w, v, e, op)
      PROVE  LocalTypes'
  <2>1. [NoRequest EXCEPT !.op = op, !.venue = v, !.entry = e] \in Requests
    BY DEF NoRequest, Requests
  <2>. QED
    BY <1>0, <1>3, <2>1 DEF DinerStart
<1>4. CASE JoinTurnedAway(w)
  BY <1>0, <1>4 DEF JoinTurnedAway, vars
<1>5. CASE Finish(w)
  <2>1. NoRequest \in Requests
    BY DEF NoRequest, Requests
  <2>. QED
    BY <1>0, <1>5, <2>1 DEF Finish
<1>6. CASE NextTicket(w)
  <2>1. PICK v \in Venues, p \in Phones, d \in Dates, n \in Nat, now \in Times :
          draft[w] = NewEntry(v, p, d, n, now)
    BY <1>0, <1>6 DEF NextTicket, OpFits, JoinOK
  <2>2. v = draft[w].venue /\ d = draft[w].date
    BY <2>1 DEF NewEntry
  <2>3. [draft[w] EXCEPT !.ticket = lastTicket[<<v, d>>] + 1] \in Ledger!Rows
    <3>1. lastTicket[<<v, d>>] + 1 \in Nat
      BY <1>0
    <3>2. [draft[w] EXCEPT !.ticket = lastTicket[<<v, d>>] + 1]
            = NewEntry(v, p, d, lastTicket[<<v, d>>] + 1, now)
      BY <2>1, NewEntryFields
    <3>. QED
      BY <3>1, <3>2, SomeRows
  <2>. QED
    BY <1>0, <1>6, <2>2, <2>3 DEF NextTicket
<1>7. CASE InsertEntry(w)
  <2>1. Joining(w) /\ draft[w].joinedAt \in Times
    BY <1>0, <1>7 DEF InsertEntry, InsertReady, OpFits, JoinOK
  <2>2. nextId \in Ids
    <3>1. w \in Unallocated
      BY <1>7 DEF InsertEntry, InsertReady, Unallocated
    <3>2. Cardinality(Unallocated) # 0 /\ Cardinality(Unallocated) \in Nat
      BY <3>1, UnallocatedFinite, FS_EmptySet
    <3>3. nextId + Cardinality(Unallocated) <= MaxId + 1
      BY DEF IInv, Keys
    <3>4. nextId \in Nat \ {0} /\ MaxId \in Nat
      BY <1>0, WaitlistAssumption DEF TypeOK
    <3>. QED
      BY <3>2, <3>3, <3>4 DEF Ids
  <2>3. [req[w] EXCEPT !.entry = nextId] \in Requests
    BY <1>0, <2>2 DEF Requests
  <2>4. JoinedEvent(draft[w].joinedAt) \in Ledger!Events
    BY <2>1, SomeRows
  <2>. QED
    BY <1>0, <1>7, <2>3, <2>4 DEF InsertEntry
<1>8. CASE InsertDuplicate(w) \/ JoinRereadMissing(w) \/ LogEvent(w)
  BY <1>0, <1>8 DEF InsertDuplicate, JoinRereadMissing, LogEvent, db
<1>9. CASE LockEntry(w)
  <2> DEFINE row == entries[req[w].entry]
             op  == req[w].op
  <2>1. /\ pc[w] = "lock" /\ op \in EntryOps /\ ~Joining(w) /\ Verdict(w) = "apply"
        /\ req[w].entry \in DOMAIN entries
    BY <1>0, <1>9 DEF LockEntry, LockReady, OpFits, ChangeOK, EntryOps, HostTargets, DinerOps, Joining
  <2>2. row \in Ledger!Rows
    BY <1>0, <2>1, RowsTyped
  <2>3. AfterOnTheWay(row, clock) \in Ledger!Rows
    BY <1>0, <2>2 DEF AfterOnTheWay, Ledger!Rows
  <2>4. op # "on_the_way" => /\ op \in HostTargets \cup {"cancelled"}
                             /\ op \in Ledger!Statuses
    BY <2>1 DEF EntryOps, HostTargets, DinerOps, Ledger!Statuses, Ledger!ActiveStatuses, Ledger!FinalStatuses
  <2>5. op # "on_the_way" => AfterTransition(row, op, clock) \in Ledger!Rows
    <3>. HIDE DEF row, op
    <3>. QED
      BY <1>0, <2>2, <2>4 DEF AfterTransition, Ledger!Rows
  <2>6. OnTheWayEvent(clock) \in Ledger!Events
    BY <1>0, SomeRows
  <2>7. op # "on_the_way" => StatusEvent(row, op, ActorOf(op), clock) \in Ledger!Events
    BY <1>0, <2>2, <2>4, SomeRows
  <2>8. /\ seen' = [seen EXCEPT ![w] = IF op \in DinerOps THEN row ELSE @]
        /\ draft' = [draft EXCEPT ![w] = IF op = "on_the_way" THEN AfterOnTheWay(row, clock)
                                         ELSE AfterTransition(row, op, clock)]
        /\ event' = [event EXCEPT ![w] = IF op = "on_the_way" THEN OnTheWayEvent(clock)
                                         ELSE StatusEvent(row, op, ActorOf(op), clock)]
        /\ pc' = [pc EXCEPT ![w] = "save"] /\ req' = req
    BY <1>9 DEF LockEntry
  <2>. HIDE DEF row, op
  <2>. QED
    BY <1>0, <2>2, <2>3, <2>5, <2>6, <2>7, <2>8
<1>10. CASE SaveEntry(w)
  <2>1. draft'[w] = draft[w]
    BY <1>0, <1>10, SaveKeepsDraft
  <2>2. draft' = draft
    BY <1>0, <1>10, <2>1 DEF SaveEntry
  <2>. QED
    BY <1>0, <1>10, <2>2 DEF SaveEntry
<1>11. ASSUME Abort(w) \/ JoinReread(w) \/ RespondError(w) \/ LockRefused(w) \/ Commit(w)
       PROVE  Finish(w)
  BY <1>11 DEF Abort, JoinReread, RespondError, LockRefused, Commit
<1>. QED
  BY <1>1, <1>2, <1>3, <1>4, <1>5, <1>6, <1>7, <1>8, <1>9, <1>10, <1>11 DEF Moves, Start, Proceed

\* The counter never goes below zero: what is undone was counted.
LEMMA CounterTyped ==
  ASSUME IInv, NEW w \in Workers, Moves(w)
  PROVE  lastTicket' \in [Venues \X Dates -> Nat]
<1>0. LocalTypes /\ OpFits(w) /\ JoinOK(w)
  BY TypesOf DEF IInv
<1>. USE DEF LocalTypes
<1>1. CASE NextTicket(w)
  <2>1. PICK v \in Venues, d \in Dates : v = draft[w].venue /\ d = draft[w].date
    BY <1>0, <1>1 DEF NextTicket, OpFits, JoinOK, NewEntry
  <2>2. /\ lastTicket[<<v, d>>] + 1 \in Nat
        /\ lastTicket' = [lastTicket EXCEPT ![<<v, d>>] = @ + 1]
    BY <1>0, <1>1, <2>1 DEF NextTicket
  <2>. QED
    BY <1>0, <2>2
<1>2. CASE UndoTicket(w)
  <2>1. CASE Joining(w) /\ pc[w] \in {"insert", "log", "commit"}
    <3>1. PICK v \in Venues, d \in Dates : v = draft[w].venue /\ d = draft[w].date
      BY <1>0, <2>1 DEF OpFits, JoinOK, NewEntry
    <3>2. lastTicket[<<v, d>>] \in Nat \ {0}
      BY <1>0, <2>1, <3>1 DEF JoinOK
    <3>3. lastTicket[<<v, d>>] - 1 \in Nat
      BY <3>2
    <3>4. lastTicket' = [lastTicket EXCEPT ![<<v, d>>] = @ - 1]
      BY <1>2, <2>1, <3>1 DEF UndoTicket
    <3>. QED
      BY <1>0, <3>3, <3>4
  <2>2. CASE ~(Joining(w) /\ pc[w] \in {"insert", "log", "commit"})
    BY <1>0, <1>2, <2>2 DEF UndoTicket
  <2>. QED
    BY <2>1, <2>2
<1>3. CASE lastTicket' = lastTicket
  BY <1>0, <1>3
<1>4. ASSUME ~NextTicket(w), ~UndoTicket(w)
      PROVE  lastTicket' = lastTicket
  BY <1>4 DEF Moves, Start, JoinStart, HostStart, DinerStart, JoinTurnedAway, vars, db, Abort,
     Proceed, InsertEntry, InsertDuplicate, JoinReread, JoinRereadMissing, RespondError,
     LockEntry, LockRefused, SaveEntry, LogEvent, Commit
<1>. QED
  BY <1>1, <1>2, <1>3, <1>4

LEMMA MoveSetting ==
  ASSUME NEW w \in Workers, Moves(w)
  PROVE  paused' = paused /\ pauses' = pauses /\ clock' = clock
<1>1. CASE Start(w)
  BY <1>1 DEF Start, JoinStart, HostStart, DinerStart, JoinTurnedAway, vars, db
<1>2. CASE Abort(w)
  BY <1>2 DEF Abort
<1>3. CASE Proceed(w)
  BY <1>3 DEF Proceed, NextTicket, InsertEntry, InsertDuplicate, JoinReread,
     JoinRereadMissing, RespondError, LockEntry, LockRefused, SaveEntry, LogEvent, Commit, db
<1>. QED
  BY <1>1, <1>2, <1>3 DEF Moves

LEMMA TypeOKStep ==
  ASSUME IInv, NEW w \in Workers, Moves(w), LP!Promises', Keys'
  PROVE  TypeOK'
<1>0. TypeOK /\ LocalTypes
  BY TypesOf DEF IInv
<1>1. LocalTypes'
  BY CounterTyped, LocalTypesStep
<1>2. Ledger!TypeOK'
  BY DEF LP!Promises, LP!TypeOK, Ledger!TypeOK, LP!Rows, Ledger!Rows, LP!Events, Ledger!Events,
     LP!Statuses, Ledger!Statuses, LP!ActiveStatuses, Ledger!ActiveStatuses, LP!FinalStatuses,
     Ledger!FinalStatuses, LP!Actors, Ledger!Actors, LP!NoTime, Ledger!NoTime
<1>3. nextId' \in 1 .. MaxId + 1
  <2>1. nextId \in Nat \ {0} /\ MaxId \in Nat /\ (nextId' = nextId \/ nextId' = nextId + 1)
    BY <1>0, KeysGrow, WaitlistAssumption DEF TypeOK
  <2>2. nextId' + Cardinality(Unallocated') <= MaxId + 1 /\ Cardinality(Unallocated') \in Nat
    BY UnallocatedFinite DEF Keys
  <2>. QED
    BY <2>1, <2>2
<1>4. paused' = paused /\ pauses' = pauses /\ clock' = clock
  BY MoveSetting
<1>. QED
  BY <1>0, <1>1, <1>2, <1>3, <1>4 DEF TypeOK, LocalTypes
-----------------------------------------------------------------------------
(* The invariant and what follows from it. *)

LEMMA InitLedger == Init => LP!Init
<1>. SUFFICES ASSUME Init PROVE LP!Init
  OBVIOUS
<1>1. \A w \in Workers : pc[w] = "idle"
  BY DEF Init
<1>2. \A w \in Workers, v \in Venues, d \in Dates : ~HoldsCounter(w, v, d)
  BY <1>1 DEF HoldsCounter
<1>3. CommittedTickets = lastTicket
  BY <1>2 DEF CommittedTickets, Init
<1>. QED
  BY <1>3 DEF Init, LP!Init

LEMMA InitIInv == Init => IInv
<1>. SUFFICES ASSUME Init PROVE IInv
  OBVIOUS
<1>1. /\ DOMAIN entries = {} /\ DOMAIN history = {} /\ nextId = 1
      /\ \A w \in Workers : pc[w] = "idle" /\ req[w] = NoRequest
  BY DEF Init
<1>2. \A w \in Workers, v \in Venues, d \in Dates : ~HoldsCounter(w, v, d)
  BY <1>1 DEF HoldsCounter
<1>3. CommittedTickets = lastTicket
  BY <1>2 DEF CommittedTickets, Init
<1>4. LP!LedgerAssumption
  BY WaitlistAssumption DEF LP!LedgerAssumption, Times, LP!NoTime
<1>5. LP!Init
  BY InitLedger
<1>6. LP!Promises
  BY <1>4, <1>5, LP!InitPromises
<1>7. Keys
  <2>1. Unallocated = {}
    BY <1>1 DEF Unallocated
  <2>2. Cardinality(Unallocated) = 0
    BY <2>1, FS_EmptySet
  <2>. QED
    BY <1>1, <2>2, WaitlistAssumption DEF Keys
<1>8. Exclusive
  BY <1>1 DEF Exclusive, HoldsEntry, HoldsCounter
<1>9. ASSUME NEW w \in Workers
      PROVE  OpFits(w) /\ JoinOK(w) /\ ChangeOK(w)
  BY <1>1 DEF OpFits, JoinOK, ChangeOK, Joining, NoRequest
<1>10. LocalTypes
  BY DEF Init, LocalTypes, Requests, NoRequest
<1>11. Ledger!TypeOK
  BY <1>1, <1>3, <1>10 DEF Ledger!TypeOK, LocalTypes
<1>12. TypeOK
  BY <1>10, <1>11, WaitlistAssumption DEF TypeOK, LocalTypes, Init, Times
<1>. QED
  BY <1>6, <1>7, <1>8, <1>9, <1>12 DEF IInv

\* The host's switch and the clock touch no request and no row.
LEMMA AroundStep ==
  ASSUME IInv, LP!Promises', UNCHANGED <<entries, history, lastTicket, nextId, txn>>,
         paused' \in [Venues -> BOOLEAN], pauses' \in 0 .. MaxPauses, clock' \in Times
  PROVE  IInv'
<1>1. /\ pc' = pc /\ req' = req /\ seen' = seen /\ draft' = draft /\ event' = event
      /\ entries' = entries /\ history' = history /\ lastTicket' = lastTicket /\ nextId' = nextId
  BY DEF txn
<1>2. Keys'
  BY <1>1 DEF IInv, Keys, Unallocated
<1>3. Exclusive'
  <2>1. Exclusive
    BY DEF IInv
  <2>. QED
    BY <1>1, <2>1 DEF Exclusive, HoldsEntry, HoldsCounter, Joining
<1>4. ASSUME NEW w \in Workers
      PROVE  (OpFits(w) /\ JoinOK(w) /\ ChangeOK(w))'
  <2>1. OpFits(w) /\ JoinOK(w) /\ ChangeOK(w)
    BY DEF IInv
  <2>2. OpFits(w)'
    BY <1>1, <2>1 DEF OpFits, Joining
  <2>3. JoinOK(w)'
    BY <1>1, <2>1 DEF JoinOK, Joining
  <2>4. \A now : Computed(w, now)' = Computed(w, now)
    BY <1>1 DEF Computed
  <2>5. ChangeOK(w)'
    <3>. HIDE DEF Computed
    <3>. QED
      BY <1>1, <2>1, <2>4 DEF ChangeOK, Joining
  <2>. QED
    BY <2>2, <2>3, <2>5
<1>5. TypeOK'
  <2>1. TypeOK
    BY DEF IInv
  <2>2. Ledger!TypeOK'
    BY DEF LP!Promises, LP!TypeOK, Ledger!TypeOK, LP!Rows, Ledger!Rows, LP!Events, Ledger!Events,
       LP!Statuses, Ledger!Statuses, LP!ActiveStatuses, Ledger!ActiveStatuses, LP!FinalStatuses,
       Ledger!FinalStatuses, LP!Actors, Ledger!Actors, LP!NoTime, Ledger!NoTime
  <2>. QED
    BY <1>1, <2>1, <2>2 DEF TypeOK
<1>. QED
  BY <1>2, <1>3, <1>4, <1>5 DEF IInv

LEMMA StepIInv == IInv /\ [Next]_vars => IInv'
<1>. SUFFICES ASSUME IInv, [Next]_vars PROVE IInv'
  OBVIOUS
<1>0. LP!Promises'
  BY PromisesStep
<1>t. TypeOK
  BY DEF IInv
<1>1. ASSUME NEW w \in Workers, Start(w) \/ Proceed(w) \/ Abort(w)
      PROVE  IInv'
  <2>0. Moves(w)
    BY <1>1 DEF Moves
  <2>1. Keys' /\ Exclusive'
    BY <2>0, KeysStep, ExclusiveStep
  <2>2. TypeOK'
    BY <1>0, <2>0, <2>1, TypeOKStep
  <2>3. ASSUME NEW u \in Workers
        PROVE  (OpFits(u) /\ JoinOK(u) /\ ChangeOK(u))'
    <3>1. Pair(w, u) /\ TypeOK /\ LocalTypes /\ Keys /\ LP!Promises
      BY TypesOf DEF IInv, Pair
    <3>2. CASE u = w
      BY <2>0, <3>1, <3>2, OwnOpFits, OwnJoinOK, OwnChangeOK DEF Pair
    <3>3. CASE u # w
      BY <2>0, <3>1, <3>3, OtherOpFits, OtherJoinOK, OtherChangeOK
    <3>. QED
      BY <3>2, <3>3
  <2>. QED
    BY <1>0, <2>1, <2>2, <2>3 DEF IInv
<1>2. ASSUME NEW v \in Venues, SetPaused(v)
      PROVE  IInv'
  <2>1. /\ UNCHANGED <<entries, history, lastTicket, nextId, txn>>
        /\ paused' \in [Venues -> BOOLEAN] /\ clock' \in Times
    BY <1>t, <1>2 DEF SetPaused, TypeOK
  <2>2. pauses' \in 0 .. MaxPauses
    BY <1>t, <1>2, WaitlistAssumption DEF SetPaused, TypeOK
  <2>. QED
    BY <1>0, <2>1, <2>2, AroundStep
<1>3. CASE Tick
  <2>1. /\ UNCHANGED <<entries, history, lastTicket, nextId, txn>>
        /\ paused' \in [Venues -> BOOLEAN] /\ pauses' \in 0 .. MaxPauses
    BY <1>t, <1>3 DEF Tick, TypeOK, db
  <2>2. clock' \in Times
    BY <1>t, <1>3, WaitlistAssumption DEF Tick, TypeOK, Times
  <2>. QED
    BY <1>0, <2>1, <2>2, AroundStep
<1>4. CASE UNCHANGED vars
  <2>1. /\ UNCHANGED <<entries, history, lastTicket, nextId, txn>>
        /\ paused' \in [Venues -> BOOLEAN] /\ pauses' \in 0 .. MaxPauses /\ clock' \in Times
    BY <1>t, <1>4 DEF vars, txn, TypeOK
  <2>. QED
    BY <1>0, <2>1, AroundStep
<1>. QED
  BY <1>1, <1>2, <1>3, <1>4 DEF Next

LEMMA Inductive == Spec => []IInv
BY InitIInv, StepIInv, PTL DEF Spec

\* Every variable stays in its type, whatever the requests interleave; for the
\* counters this says that no rollback takes back a number twice.
THEOREM Types == Spec => []TypeOK
<1>1. IInv => TypeOK
  BY DEF IInv
<1>. QED
  BY <1>1, Inductive, PTL

\* The transactions of JoinQueue, ChangeEntryStatus, LeaveQueue and
\* NotifyOnTheWay, interleaved at every await, implement the one-step
\* operations of the ledger.
THEOREM Refinement == Spec => ImplementsLedger
<1>1. Init => LP!Init
  BY InitLedger
<1>2. IInv /\ [Next]_vars => [LP!Next]_(LP!vars)
  BY StepRefines
<1>3. Spec => LP!Spec
  BY <1>1, <1>2, Inductive, PTL DEF Spec, LP!Spec
<1>4. LP!Spec => Ledger!Spec
  <2>1. LP!Init => Ledger!Init
    BY DEF LP!Init, Ledger!Init
  <2>2. [LP!Next]_(LP!vars) => [Ledger!Next]_(Ledger!vars)
    BY DEF LP!Next, Ledger!Next, LP!vars, Ledger!vars, LP!Enter, Ledger!Enter, LP!Change,
       Ledger!Change, LP!OnTheWay, Ledger!OnTheWay,
       LP!Put, Ledger!Put, LP!NewEntry, Ledger!NewEntry, LP!ActiveOf, Ledger!ActiveOf,
       LP!ActiveStatuses, Ledger!ActiveStatuses, LP!FinalStatuses, Ledger!FinalStatuses,
       LP!Statuses, Ledger!Statuses, LP!Actors, Ledger!Actors, LP!Decide, Ledger!Decide,
       LP!AllowedActors, Ledger!AllowedActors, LP!AllowedTransitions,
       Ledger!AllowedTransitions, LP!AfterTransition, Ledger!AfterTransition,
       LP!AfterOnTheWay, Ledger!AfterOnTheWay, LP!DecideOnTheWay, Ledger!DecideOnTheWay,
       LP!JoinedEvent, Ledger!JoinedEvent, LP!StatusEvent, Ledger!StatusEvent,
       LP!OnTheWayEvent, Ledger!OnTheWayEvent, LP!NoTime, Ledger!NoTime
  <2>. QED
    BY <2>1, <2>2, PTL DEF LP!Spec, Ledger!Spec
<1>. QED
  BY <1>3, <1>4 DEF ImplementsLedger

\* The ledger's promises, in the words of Waitlist.
LEMMA IInvPromises ==
  IInv => /\ NoGaps /\ TicketsUnique /\ OneActivePerPhone /\ TimesFitStatus /\ HistoryIsAWalk
<1>. SUFFICES ASSUME IInv
              PROVE  /\ NoGaps /\ TicketsUnique /\ OneActivePerPhone
                     /\ TimesFitStatus /\ HistoryIsAWalk
  OBVIOUS
<1>0. LP!Promises
  BY DEF IInv
<1>1. NoGaps
  BY <1>0 DEF LP!Promises, NoGaps, LP!NoGaps, Ledger!NoGaps, LP!OfDay, Ledger!OfDay
<1>2. TicketsUnique
  BY <1>0 DEF LP!Promises, TicketsUnique, LP!TicketsUnique, Ledger!TicketsUnique
<1>3. OneActivePerPhone
  BY <1>0 DEF LP!Promises, OneActivePerPhone, LP!OneActivePerPhone, Ledger!OneActivePerPhone,
     LP!ActiveStatuses, Ledger!ActiveStatuses
<1>4. TimesFitStatus
  BY <1>0 DEF LP!Promises, TimesFitStatus, LP!TimesFitStatus, Ledger!TimesFitStatus,
     LP!FinalStatuses, Ledger!FinalStatuses, LP!NoTime, Ledger!NoTime
<1>5. HistoryIsAWalk
  BY <1>0 DEF LP!Promises, HistoryIsAWalk, LP!HistoryIsAWalk, Ledger!HistoryIsAWalk,
     LP!Decide, Ledger!Decide, LP!AllowedActors, Ledger!AllowedActors,
     LP!AllowedTransitions, Ledger!AllowedTransitions
<1>. QED
  BY <1>1, <1>2, <1>3, <1>4, <1>5

\* The numbers of a service date are 1, 2, 3, ... whatever joins fail, race or
\* roll back: next_ticket burns none.
THEOREM NoNumberIsBurned == Spec => []NoGaps
BY IInvPromises, Inductive, PTL

\* Two requests never hand out one number: the counter's lock is enough.
THEOREM NumbersAreUnique == Spec => []TicketsUnique
BY IInvPromises, Inductive, PTL

\* A phone never waits twice in a venue, however many joins race.
THEOREM OnePlacePerPhone == Spec => []OneActivePerPhone
BY IInvPromises, Inductive, PTL

\* The timestamps a row collected fit the status it has.
THEOREM TimestampsFit == Spec => []TimesFitStatus
BY IInvPromises, Inductive, PTL

\* The events of an entry tell how it came to its status, with no step missing.
THEOREM HistoryTells == Spec => []HistoryIsAWalk
BY IInvPromises, Inductive, PTL

\* The UPDATE that save() builds from the snapshot's copy writes every column
\* the domain changed on the locked row.
THEOREM NoColumnIsLost == Spec => NoLostColumn
<1>1. IInv /\ [Next]_vars =>
        [\A w \in Workers : pc[w] = "save" /\ pc'[w] = "log" => draft'[w] = draft[w]]_vars
  <2>1. SUFFICES ASSUME IInv, Next, NEW w \in Workers, pc[w] = "save", pc'[w] = "log"
                 PROVE  draft'[w] = draft[w]
    OBVIOUS
  <2>2. LocalTypes /\ TypeOK /\ OpFits(w) /\ ChangeOK(w)
    BY <2>1, TypesOf DEF IInv
  <2>3. CASE \E u \in Workers : u # w /\ Moves(u)
    BY <2>2, <2>3, OthersStay
  <2>4. CASE Moves(w)
    <3>1. SaveEntry(w)
      <4>1. /\ ~Start(w)
            /\ ~(\/ NextTicket(w) \/ InsertEntry(w) \/ InsertDuplicate(w) \/ JoinReread(w)
                 \/ JoinRereadMissing(w) \/ RespondError(w) \/ LockEntry(w) \/ LockRefused(w)
                 \/ LogEvent(w) \/ Commit(w))
        BY <2>1 DEF Start, JoinStart, HostStart, DinerStart, JoinTurnedAway, NextTicket,
           InsertEntry, InsertDuplicate, InsertReady, JoinReread, JoinRereadMissing,
           RespondError, LockEntry, LockRefused, LockReady, LogEvent, Commit
      <4>2. ~Abort(w)
        BY <2>1, <2>2 DEF Abort, Finish, LocalTypes
      <4>. QED
        BY <2>4, <4>1, <4>2 DEF Moves, Proceed
    <3>. QED
      BY <2>2, <3>1, SaveKeepsDraft
  <2>5. CASE (\E v \in Venues : SetPaused(v)) \/ Tick
    BY <2>1, <2>5 DEF SetPaused, Tick, txn
  <2>. QED
    BY <2>1, <2>3, <2>4, <2>5 DEF Next, Moves
<1>. QED
  BY <1>1, Inductive, PTL DEF Spec, NoLostColumn
=============================================================================
