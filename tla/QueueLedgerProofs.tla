-------------------------- MODULE QueueLedgerProofs --------------------------
(* What the ledger keeps, for any number of entries, venues and phones. *)
EXTENDS QueueLedger, TLAPS

\* Writing one row of a table changes that row and no other.
LEMMA PutRow ==
  ASSUME NEW table, NEW e, NEW row
  PROVE  /\ DOMAIN Put(table, e, row) = DOMAIN table \cup {e}
         /\ Put(table, e, row)[e] = row
         /\ \A x \in DOMAIN table : x # e => Put(table, e, row)[x] = table[x]
BY DEF Put

\* A table stays within a set when the row written is in it.
LEMMA PutIn ==
  ASSUME NEW table, NEW e, NEW row, NEW S,
         \A x \in DOMAIN table : table[x] \in S, row \in S
  PROVE  \A x \in DOMAIN Put(table, e, row) : Put(table, e, row)[x] \in S
BY DEF Put

\* What decide() lets through starts from an active status, and only a
\* waiting entry is called.
LEMMA ApplyStartsActive ==
  ASSUME NEW s, NEW target, NEW actor, Decide(s, target, actor) = "apply"
  PROVE  /\ s \in ActiveStatuses
         /\ target \in {"called"} \cup FinalStatuses
         /\ target = "called" => s = "waiting"
         /\ target \in {"seated", "no_show"} => s = "called"
BY DEF Decide, AllowedTransitions, AllowedActors, ActiveStatuses, FinalStatuses

\* A transition keeps the identity of the row and its ticket.
LEMMA TransitionRow ==
  ASSUME NEW row \in Rows, NEW target \in Statuses, NEW now \in Times
  PROVE  LET new == AfterTransition(row, target, now) IN
         /\ new \in Rows
         /\ new.venue = row.venue /\ new.phone = row.phone
         /\ new.date = row.date /\ new.ticket = row.ticket
         /\ new.status = target /\ new.onTheWayAt = row.onTheWayAt
         /\ new.calledAt = IF target = "called" THEN now ELSE row.calledAt
         /\ new.endedAt = IF target = "called" THEN row.endedAt ELSE now
BY DEF AfterTransition, Rows

LEMMA OnTheWayRow ==
  ASSUME NEW row \in Rows, NEW now \in Times
  PROVE  LET new == AfterOnTheWay(row, now) IN
         /\ new \in Rows
         /\ new.venue = row.venue /\ new.phone = row.phone
         /\ new.date = row.date /\ new.ticket = row.ticket
         /\ new.status = row.status /\ new.onTheWayAt = now
         /\ new.calledAt = row.calledAt /\ new.endedAt = row.endedAt
BY DEF AfterOnTheWay, Rows

LEMMA NewRow ==
  ASSUME NEW v \in Venues, NEW p \in Phones, NEW d \in Dates,
         NEW n \in Nat, NEW now \in Times
  PROVE  NewEntry(v, p, d, n, now) \in Rows
BY DEF NewEntry, Rows, Statuses, ActiveStatuses

LEMMA EventTypes ==
  ASSUME NEW row \in Rows, NEW target \in Statuses, NEW actor \in Actors,
         NEW now \in Times
  PROVE  /\ JoinedEvent(now) \in Events
         /\ StatusEvent(row, target, actor, now) \in Events
         /\ OnTheWayEvent(now) \in Events
BY DEF JoinedEvent, StatusEvent, OnTheWayEvent, Events, Rows, Statuses,
       ActiveStatuses, FinalStatuses, Actors

-----------------------------------------------------------------------------
\* Writing a row and its history keeps both tables typed.
LEMMA PutTyped ==
  ASSUME TypeOK, NEW e \in Ids, NEW row \in Rows, NEW h \in Seq(Events),
         entries' = Put(entries, e, row), history' = Put(history, e, h)
  PROVE  /\ DOMAIN entries' \subseteq Ids
         /\ \A x \in DOMAIN entries' : entries'[x] \in Rows
         /\ DOMAIN history' = DOMAIN entries'
         /\ \A x \in DOMAIN history' : history'[x] \in Seq(Events)
<1>1. /\ DOMAIN entries' = DOMAIN entries \cup {e}
      /\ DOMAIN history' = DOMAIN history \cup {e}
  BY PutRow
<1>2. \A x \in DOMAIN entries' : entries'[x] \in Rows
  BY PutIn DEF TypeOK
<1>3. \A x \in DOMAIN history' : history'[x] \in Seq(Events)
  BY PutIn DEF TypeOK
<1>. QED
  BY <1>1, <1>2, <1>3 DEF TypeOK

LEMMA TypeStep == TypeOK /\ [Next]_vars => TypeOK'
<1> SUFFICES ASSUME TypeOK, [Next]_vars PROVE TypeOK'
  OBVIOUS
<1>1. ASSUME NEW e \in Ids, NEW now \in Times, NEW v \in Venues, NEW p \in Phones,
             NEW d \in Dates, Enter(e, v, p, d, now)
      PROVE  TypeOK'
  <2>0. lastTicket[<<v, d>>] + 1 \in Nat
    BY DEF TypeOK
  <2>1. NewEntry(v, p, d, lastTicket[<<v, d>>] + 1, now) \in Rows
    BY <2>0, NewRow
  <2>2. <<JoinedEvent(now)>> \in Seq(Events)
    BY DEF JoinedEvent, Events, Statuses, ActiveStatuses, Actors
  <2>3. lastTicket' \in [Venues \X Dates -> Nat]
    BY <1>1 DEF Enter, TypeOK
  <2>. QED
    BY <1>1, <2>1, <2>2, <2>3, PutTyped DEF Enter, TypeOK
<1>2. ASSUME NEW e \in Ids, NEW now \in Times, NEW target \in Statuses,
             NEW actor \in Actors, Change(e, target, actor, now)
      PROVE  TypeOK'
  <2>0. entries[e] \in Rows /\ history[e] \in Seq(Events)
    BY <1>2 DEF Change, TypeOK
  <2>1. AfterTransition(entries[e], target, now) \in Rows
    BY <2>0, TransitionRow
  <2>2. Append(history[e], StatusEvent(entries[e], target, actor, now)) \in Seq(Events)
    BY <2>0, EventTypes
  <2>3. lastTicket' \in [Venues \X Dates -> Nat]
    BY <1>2 DEF Change, TypeOK
  <2>. QED
    BY <1>2, <2>1, <2>2, <2>3, PutTyped DEF Change, TypeOK
<1>3. ASSUME NEW e \in Ids, NEW now \in Times, OnTheWay(e, now)
      PROVE  TypeOK'
  <2>0. entries[e] \in Rows /\ history[e] \in Seq(Events)
    BY <1>3 DEF OnTheWay, TypeOK
  <2>1. AfterOnTheWay(entries[e], now) \in Rows
    BY <2>0, OnTheWayRow
  <2>2. Append(history[e], OnTheWayEvent(now)) \in Seq(Events)
    BY <2>0 DEF OnTheWayEvent, Events, Statuses, ActiveStatuses, Actors
  <2>3. lastTicket' \in [Venues \X Dates -> Nat]
    BY <1>3 DEF OnTheWay, TypeOK
  <2>. QED
    BY <1>3, <2>1, <2>2, <2>3, PutTyped DEF OnTheWay, TypeOK
<1>4. CASE UNCHANGED vars
  BY <1>4 DEF vars, TypeOK
<1>. QED
  BY <1>1, <1>2, <1>3, <1>4 DEF Next

-----------------------------------------------------------------------------
(* A step writes the row of one entry: a new one, or the next row of an old *)
(* one. Each invariant below is shown for these two kinds of step.          *)

\* Row e is written with row, and every other row stays.
Writes(e, row) == entries' = Put(entries, e, row)

\* The new row of an entry that moves on.
Successor(e, row) ==
  /\ e \in DOMAIN entries
  /\ row \in Rows
  /\ row.venue = entries[e].venue /\ row.phone = entries[e].phone
  /\ row.date = entries[e].date /\ row.ticket = entries[e].ticket
  /\ row.status \in ActiveStatuses => entries[e].status \in ActiveStatuses
  /\ lastTicket' = lastTicket

LEMMA ChangeWrites ==
  ASSUME TypeOK, NEW e \in Ids, NEW target \in Statuses, NEW actor \in Actors,
         NEW now \in Times, Change(e, target, actor, now)
  PROVE  /\ Writes(e, AfterTransition(entries[e], target, now))
         /\ Successor(e, AfterTransition(entries[e], target, now))
<1>1. entries[e] \in Rows
  BY DEF Change, TypeOK
<1>2. entries[e].status \in ActiveStatuses
  BY ApplyStartsActive DEF Change
<1>. QED
  BY <1>1, <1>2, TransitionRow DEF Change, Writes, Successor

LEMMA OnTheWayWrites ==
  ASSUME TypeOK, NEW e \in Ids, NEW now \in Times, OnTheWay(e, now)
  PROVE  /\ Writes(e, AfterOnTheWay(entries[e], now))
         /\ Successor(e, AfterOnTheWay(entries[e], now))
<1>1. entries[e] \in Rows
  BY DEF OnTheWay, TypeOK
<1>. QED
  BY <1>1, OnTheWayRow DEF OnTheWay, Writes, Successor

LEMMA EnterRows ==
  ASSUME NEW e, NEW v, NEW p, NEW d, NEW now, Enter(e, v, p, d, now)
  PROVE  /\ DOMAIN entries' = DOMAIN entries \cup {e}
         /\ entries'[e] = NewEntry(v, p, d, lastTicket[<<v, d>>] + 1, now)
         /\ e \notin DOMAIN entries
         /\ \A x \in DOMAIN entries : entries'[x] = entries[x]
<1>1. entries' = Put(entries, e, NewEntry(v, p, d, lastTicket[<<v, d>>] + 1, now))
  BY DEF Enter
<1>2. e \notin DOMAIN entries
  BY DEF Enter
<1>. QED
  BY <1>1, <1>2 DEF Put

LEMMA SuccessorRows ==
  ASSUME NEW e, NEW row, Writes(e, row), Successor(e, row)
  PROVE  /\ DOMAIN entries' = DOMAIN entries
         /\ entries'[e] = row
         /\ \A x \in DOMAIN entries : x # e => entries'[x] = entries[x]
         /\ \A x \in DOMAIN entries :
              /\ entries'[x].venue = entries[x].venue
              /\ entries'[x].phone = entries[x].phone
              /\ entries'[x].date = entries[x].date
              /\ entries'[x].ticket = entries[x].ticket
              /\ entries'[x].status \in ActiveStatuses => entries[x].status \in ActiveStatuses
<1>1. /\ DOMAIN entries' = DOMAIN entries
      /\ entries'[e] = row
      /\ \A x \in DOMAIN entries : x # e => entries'[x] = entries[x]
  BY DEF Writes, Put, Successor
<1>. QED
  BY <1>1 DEF Successor

\* Every step of the ledger is a join, a step of one entry, or a stutter.
LEMMA StepKinds ==
  ASSUME TypeOK, [Next]_vars
  PROVE  \/ \E e \in Ids, now \in Times, v \in Venues, p \in Phones, d \in Dates :
              Enter(e, v, p, d, now)
         \/ \E e \in Ids, row \in Rows : Writes(e, row) /\ Successor(e, row)
         \/ entries' = entries /\ lastTicket' = lastTicket
<1>1. ASSUME NEW e \in Ids, NEW now \in Times, NEW target \in Statuses,
             NEW actor \in Actors, Change(e, target, actor, now)
      PROVE  \E row \in Rows : Writes(e, row) /\ Successor(e, row)
  BY <1>1, ChangeWrites DEF Successor
<1>2. ASSUME NEW e \in Ids, NEW now \in Times, OnTheWay(e, now)
      PROVE  \E row \in Rows : Writes(e, row) /\ Successor(e, row)
  BY <1>2, OnTheWayWrites DEF Successor
<1>3. CASE UNCHANGED vars
  BY <1>3 DEF vars
<1>. QED
  BY <1>1, <1>2, <1>3 DEF Next

-----------------------------------------------------------------------------
LEMMA NoGapsStep == TypeOK /\ NoGaps /\ [Next]_vars => NoGaps'
<1> SUFFICES ASSUME TypeOK, NoGaps, [Next]_vars,
                    NEW v \in Venues, NEW d \in Dates
             PROVE  {entries[x].ticket : x \in OfDay(v, d)}' = 1 .. (lastTicket[<<v, d>>])'
  BY DEF NoGaps
<1>0. /\ {entries[x].ticket : x \in OfDay(v, d)} = 1 .. lastTicket[<<v, d>>]
      /\ lastTicket[<<v, d>>] \in Nat
  BY DEF NoGaps, TypeOK
<1>1. ASSUME NEW e \in Ids, NEW now \in Times, NEW u \in Venues, NEW p \in Phones,
             NEW c \in Dates, Enter(e, u, p, c, now)
      PROVE  {entries[x].ticket : x \in OfDay(v, d)}' = 1 .. (lastTicket[<<v, d>>])'
  <2> DEFINE n == lastTicket[<<u, c>>] + 1
             row == NewEntry(u, p, c, n, now)
  <2>1. /\ DOMAIN entries' = DOMAIN entries \cup {e}
        /\ entries'[e] = row
        /\ e \notin DOMAIN entries
        /\ \A x \in DOMAIN entries : entries'[x] = entries[x]
    BY <1>1, EnterRows
  <2>2. row.venue = u /\ row.date = c /\ row.ticket = n
    BY DEF NewEntry
  <2>3. CASE u = v /\ c = d
    <3>1. OfDay(v, d)' = OfDay(v, d) \cup {e}
      BY <2>1, <2>2, <2>3 DEF OfDay
    <3>2. {entries[x].ticket : x \in OfDay(v, d)}'
            = {entries[x].ticket : x \in OfDay(v, d)} \cup {n}
      BY <2>1, <2>2, <3>1 DEF OfDay
    <3>3. lastTicket'[<<v, d>>] = n
      BY <1>1, <2>3 DEF Enter, TypeOK
    <3>. QED
      BY <1>0, <2>3, <3>2, <3>3
  <2>4. CASE ~(u = v /\ c = d)
    <3>1. OfDay(v, d)' = OfDay(v, d)
      BY <2>1, <2>2, <2>4 DEF OfDay
    <3>2. {entries[x].ticket : x \in OfDay(v, d)}' = {entries[x].ticket : x \in OfDay(v, d)}
      BY <2>1, <3>1 DEF OfDay
    <3>3. lastTicket'[<<v, d>>] = lastTicket[<<v, d>>]
      BY <1>1, <2>4 DEF Enter, TypeOK
    <3>. QED
      BY <1>0, <3>2, <3>3
  <2>. QED
    BY <2>3, <2>4
<1>2. ASSUME NEW e \in Ids, NEW row \in Rows, Writes(e, row), Successor(e, row)
      PROVE  {entries[x].ticket : x \in OfDay(v, d)}' = 1 .. (lastTicket[<<v, d>>])'
  <2>1. /\ DOMAIN entries' = DOMAIN entries
        /\ \A x \in DOMAIN entries : /\ entries'[x].venue = entries[x].venue
                                     /\ entries'[x].date = entries[x].date
                                     /\ entries'[x].ticket = entries[x].ticket
    BY <1>2, SuccessorRows
  <2>2. OfDay(v, d)' = OfDay(v, d)
    BY <2>1 DEF OfDay
  <2>3. {entries[x].ticket : x \in OfDay(v, d)}' = {entries[x].ticket : x \in OfDay(v, d)}
    BY <2>1, <2>2 DEF OfDay
  <2>. QED
    BY <1>0, <1>2, <2>3 DEF Successor
<1>3. CASE entries' = entries /\ lastTicket' = lastTicket
  BY <1>0, <1>3 DEF OfDay
<1>. QED
  BY <1>1, <1>2, <1>3, StepKinds

\* A new ticket is above every ticket of its service date, so it is nobody's.
LEMMA TicketsUniqueStep ==
  TypeOK /\ NoGaps /\ TicketsUnique /\ [Next]_vars => TicketsUnique'
<1> SUFFICES ASSUME TypeOK, NoGaps, TicketsUnique, [Next]_vars
             PROVE  TicketsUnique'
  OBVIOUS
<1>1. ASSUME NEW e \in Ids, NEW now \in Times, NEW u \in Venues, NEW p \in Phones,
             NEW c \in Dates, Enter(e, u, p, c, now)
      PROVE  TicketsUnique'
  <2> DEFINE n == lastTicket[<<u, c>>] + 1
             row == NewEntry(u, p, c, n, now)
  <2>1. /\ DOMAIN entries' = DOMAIN entries \cup {e}
        /\ entries'[e] = row
        /\ \A x \in DOMAIN entries : entries'[x] = entries[x]
    BY <1>1, EnterRows
  <2>2. row.venue = u /\ row.date = c /\ row.ticket = n
    BY DEF NewEntry
  <2>3. ASSUME NEW x \in DOMAIN entries, entries[x].venue = u, entries[x].date = c
        PROVE  entries[x].ticket # n
    <3>1. entries[x].ticket \in 1 .. lastTicket[<<u, c>>]
      BY <2>3 DEF NoGaps, OfDay
    <3>2. lastTicket[<<u, c>>] \in Nat
      BY DEF TypeOK
    <3>. QED
      BY <3>1, <3>2
  <2>. QED
    BY <2>1, <2>2, <2>3 DEF TicketsUnique
<1>2. ASSUME NEW e \in Ids, NEW row \in Rows, Writes(e, row), Successor(e, row)
      PROVE  TicketsUnique'
  <2>1. /\ DOMAIN entries' = DOMAIN entries
        /\ \A x \in DOMAIN entries : /\ entries'[x].venue = entries[x].venue
                                     /\ entries'[x].date = entries[x].date
                                     /\ entries'[x].ticket = entries[x].ticket
    BY <1>2, SuccessorRows
  <2>. QED
    BY <2>1 DEF TicketsUnique
<1>3. CASE entries' = entries /\ lastTicket' = lastTicket
  BY <1>3 DEF TicketsUnique
<1>. QED
  BY <1>1, <1>2, <1>3, StepKinds

\* Nothing becomes active except by joining, and a join finds nobody active.
LEMMA OneActiveStep ==
  TypeOK /\ OneActivePerPhone /\ [Next]_vars => OneActivePerPhone'
<1> SUFFICES ASSUME TypeOK, OneActivePerPhone, [Next]_vars
             PROVE  OneActivePerPhone'
  OBVIOUS
<1>1. ASSUME NEW e \in Ids, NEW now \in Times, NEW u \in Venues, NEW p \in Phones,
             NEW c \in Dates, Enter(e, u, p, c, now)
      PROVE  OneActivePerPhone'
  <2> DEFINE row == NewEntry(u, p, c, lastTicket[<<u, c>>] + 1, now)
  <2>1. /\ DOMAIN entries' = DOMAIN entries \cup {e}
        /\ entries'[e] = row
        /\ \A x \in DOMAIN entries : entries'[x] = entries[x]
    BY <1>1, EnterRows
  <2>2. row.venue = u /\ row.phone = p
    BY DEF NewEntry
  <2>3. \A x \in DOMAIN entries : ~( /\ entries[x].venue = u /\ entries[x].phone = p
                                    /\ entries[x].status \in ActiveStatuses )
    BY <1>1 DEF Enter, ActiveOf
  <2>. QED
    BY <2>1, <2>2, <2>3 DEF OneActivePerPhone
<1>2. ASSUME NEW e \in Ids, NEW row \in Rows, Writes(e, row), Successor(e, row)
      PROVE  OneActivePerPhone'
  <2>1. /\ DOMAIN entries' = DOMAIN entries
        /\ \A x \in DOMAIN entries :
             /\ entries'[x].venue = entries[x].venue
             /\ entries'[x].phone = entries[x].phone
             /\ entries'[x].status \in ActiveStatuses => entries[x].status \in ActiveStatuses
    BY <1>2, SuccessorRows
  <2>. QED
    BY <2>1 DEF OneActivePerPhone
<1>3. CASE entries' = entries /\ lastTicket' = lastTicket
  BY <1>3 DEF OneActivePerPhone
<1>. QED
  BY <1>1, <1>2, <1>3, StepKinds

LEMMA TimesFitStep ==
  TypeOK /\ TimesFitStatus /\ [Next]_vars => TimesFitStatus'
<1> SUFFICES ASSUME TypeOK, TimesFitStatus, [Next]_vars
             PROVE  TimesFitStatus'
  OBVIOUS
<1> DEFINE Fits(r) ==
             /\ (r.endedAt # NoTime) <=> (r.status \in FinalStatuses)
             /\ r.status = "waiting" => r.calledAt = NoTime
             /\ r.status \in {"called", "seated", "no_show"} => r.calledAt # NoTime
             /\ r.onTheWayAt # NoTime => r.calledAt # NoTime
<1>0. \A x \in DOMAIN entries : Fits(entries[x])
  BY DEF TimesFitStatus
<1>1. ASSUME NEW e \in Ids, NEW now \in Times, NEW u \in Venues, NEW p \in Phones,
             NEW c \in Dates, Enter(e, u, p, c, now)
      PROVE  \A x \in DOMAIN entries' : Fits(entries'[x])
  <2> DEFINE row == NewEntry(u, p, c, lastTicket[<<u, c>>] + 1, now)
  <2>1. Fits(row)
    BY DEF NewEntry, FinalStatuses
  <2>. HIDE DEF row, Fits
  <2>2. entries'[e] = row
    BY <1>1, EnterRows DEF row
  <2>. QED
    BY <1>0, <1>1, <2>1, <2>2, EnterRows
<1>2. ASSUME NEW e \in Ids, NEW now \in Times, NEW target \in Statuses,
             NEW actor \in Actors, Change(e, target, actor, now)
      PROVE  \A x \in DOMAIN entries' : Fits(entries'[x])
  <2> DEFINE row == AfterTransition(entries[e], target, now)
  <2>0. e \in DOMAIN entries /\ entries[e] \in Rows /\ now # NoTime
    BY <1>2, LedgerAssumption DEF Change, TypeOK
  <2>1. /\ entries[e].status \in ActiveStatuses
        /\ target \in {"called"} \cup FinalStatuses
        /\ target = "called" => entries[e].status = "waiting"
        /\ target \in {"seated", "no_show"} => entries[e].status = "called"
    BY <1>2, ApplyStartsActive DEF Change
  <2>2. /\ row.status = target /\ row.onTheWayAt = entries[e].onTheWayAt
        /\ row.calledAt = IF target = "called" THEN now ELSE entries[e].calledAt
        /\ row.endedAt = IF target = "called" THEN entries[e].endedAt ELSE now
    BY <2>0, TransitionRow
  <2>3. Fits(entries[e])
    BY <1>0, <2>0
  <2>4. Fits(row)
    BY <2>0, <2>1, <2>2, <2>3 DEF ActiveStatuses, FinalStatuses
  <2>5. Writes(e, row) /\ Successor(e, row)
    BY <1>2, ChangeWrites
  <2>. HIDE DEF row, Fits
  <2>. QED
    BY <1>0, <2>4, <2>5, SuccessorRows
<1>3. ASSUME NEW e \in Ids, NEW now \in Times, OnTheWay(e, now)
      PROVE  \A x \in DOMAIN entries' : Fits(entries'[x])
  <2> DEFINE row == AfterOnTheWay(entries[e], now)
  <2>0. /\ e \in DOMAIN entries /\ entries[e] \in Rows
        /\ entries[e].status = "called"
    BY <1>3 DEF OnTheWay, TypeOK, DecideOnTheWay
  <2>1. /\ row.status = entries[e].status /\ row.calledAt = entries[e].calledAt
        /\ row.endedAt = entries[e].endedAt
    BY <2>0, OnTheWayRow
  <2>2. Fits(entries[e])
    BY <1>0, <2>0
  <2>3. Fits(row)
    BY <2>0, <2>1, <2>2
  <2>4. Writes(e, row) /\ Successor(e, row)
    BY <1>3, OnTheWayWrites
  <2>. HIDE DEF row, Fits
  <2>. QED
    BY <1>0, <2>3, <2>4, SuccessorRows
<1>. HIDE DEF Fits
<1>4. ASSUME UNCHANGED vars
      PROVE  \A x \in DOMAIN entries' : Fits(entries'[x])
  BY <1>0, <1>4 DEF vars
<1>5. \A x \in DOMAIN entries' : Fits(entries'[x])
  BY <1>1, <1>2, <1>3, <1>4 DEF Next
<1>. QED
  BY <1>5 DEF TimesFitStatus, Fits

\* Appending to a walk an event that continues it gives a walk.
LEMMA WalkGoesOn ==
  ASSUME NEW h \in Seq(Events), NEW ev \in Events,
         h # <<>>, h[1].type = "joined",
         \A i \in 2 .. Len(h) :
           /\ h[i].from = h[i-1].to
           /\ \/ h[i].type = "on_the_way" /\ h[i].from = "called"
              \/ Decide(h[i].from, h[i].to, h[i].actor) = "apply",
         ev.from = h[Len(h)].to,
         \/ ev.type = "on_the_way" /\ ev.from = "called"
         \/ Decide(ev.from, ev.to, ev.actor) = "apply"
  PROVE  LET g == Append(h, ev) IN
         /\ g # <<>>
         /\ g[1].type = "joined"
         /\ g[Len(g)].to = ev.to
         /\ \A i \in 2 .. Len(g) :
              /\ g[i].from = g[i-1].to
              /\ \/ g[i].type = "on_the_way" /\ g[i].from = "called"
                 \/ Decide(g[i].from, g[i].to, g[i].actor) = "apply"
<1> DEFINE g == Append(h, ev)
<1>1. /\ Len(g) = Len(h) + 1 /\ Len(h) \in Nat \ {0}
      /\ g[Len(h) + 1] = ev
      /\ \A i \in 1 .. Len(h) : g[i] = h[i]
  OBVIOUS
<1>2. \A i \in 2 .. Len(g) : i = Len(h) + 1 \/ i \in 2 .. Len(h)
  BY <1>1
<1>3. \A i \in 2 .. Len(h) : g[i] = h[i] /\ g[i-1] = h[i-1]
  BY <1>1
<1>4. g[Len(h)] = h[Len(h)] /\ g[1] = h[1] /\ g # <<>>
  BY <1>1
<1>. HIDE DEF g
<1>5. \A i \in 2 .. Len(g) :
        /\ g[i].from = g[i-1].to
        /\ \/ g[i].type = "on_the_way" /\ g[i].from = "called"
           \/ Decide(g[i].from, g[i].to, g[i].actor) = "apply"
  BY <1>1, <1>2, <1>3, <1>4
<1>. QED
  BY <1>1, <1>4, <1>5 DEF g

LEMMA HistoryStep ==
  TypeOK /\ HistoryIsAWalk /\ [Next]_vars => HistoryIsAWalk'
<1> SUFFICES ASSUME TypeOK, HistoryIsAWalk, [Next]_vars
             PROVE  HistoryIsAWalk'
  OBVIOUS
<1> DEFINE Walk(h, row) ==
             /\ h # <<>>
             /\ h[1].type = "joined"
             /\ h[Len(h)].to = row.status
             /\ \A i \in 2 .. Len(h) :
                  /\ h[i].from = h[i-1].to
                  /\ \/ h[i].type = "on_the_way" /\ h[i].from = "called"
                     \/ Decide(h[i].from, h[i].to, h[i].actor) = "apply"
<1>0. \A x \in DOMAIN history : Walk(history[x], entries[x])
  BY DEF HistoryIsAWalk
<1>1. ASSUME NEW e \in Ids, NEW row, NEW h, Walk(h, row),
             entries' = Put(entries, e, row), history' = Put(history, e, h)
      PROVE  \A x \in DOMAIN history' : Walk(history'[x], entries'[x])
  <2>1. DOMAIN history = DOMAIN entries
    BY DEF TypeOK
  <2>2. /\ DOMAIN history' = DOMAIN history \cup {e}
        /\ \A x \in DOMAIN history' :
             /\ history'[x] = IF x = e THEN h ELSE history[x]
             /\ entries'[x] = IF x = e THEN row ELSE entries[x]
    BY <1>1, <2>1 DEF Put
  <2>. HIDE DEF Walk
  <2>. QED
    BY <1>0, <1>1, <2>2
<1>2. ASSUME NEW e \in Ids, NEW now \in Times, NEW u \in Venues, NEW p \in Phones,
             NEW c \in Dates, Enter(e, u, p, c, now)
      PROVE  \A x \in DOMAIN history' : Walk(history'[x], entries'[x])
  <2>1. Walk(<<JoinedEvent(now)>>, NewEntry(u, p, c, lastTicket[<<u, c>>] + 1, now))
    BY DEF JoinedEvent, NewEntry
  <2>. HIDE DEF Walk
  <2>. QED
    BY <1>1, <1>2, <2>1 DEF Enter
<1>3. ASSUME NEW e \in Ids, NEW now \in Times, NEW target \in Statuses,
             NEW actor \in Actors, Change(e, target, actor, now)
      PROVE  \A x \in DOMAIN history' : Walk(history'[x], entries'[x])
  <2> DEFINE ev == StatusEvent(entries[e], target, actor, now)
             row == AfterTransition(entries[e], target, now)
  <2>1. /\ entries[e] \in Rows /\ history[e] \in Seq(Events)
        /\ Walk(history[e], entries[e])
    BY <1>0, <1>3 DEF Change, TypeOK
  <2>2. /\ ev \in Events /\ ev.from = entries[e].status /\ ev.to = target
        /\ ev.actor = actor
    BY <2>1, EventTypes DEF StatusEvent
  <2>3. row.status = target
    BY <2>1, TransitionRow
  <2>4. Decide(ev.from, ev.to, ev.actor) = "apply"
    BY <1>3, <2>2 DEF Change
  <2>. HIDE DEF ev, row
  <2>5. Walk(Append(history[e], ev), row)
    BY <2>1, <2>2, <2>3, <2>4, WalkGoesOn
  <2>. HIDE DEF Walk
  <2>. QED
    BY <1>1, <1>3, <2>5 DEF Change, ev, row
<1>4. ASSUME NEW e \in Ids, NEW now \in Times, OnTheWay(e, now)
      PROVE  \A x \in DOMAIN history' : Walk(history'[x], entries'[x])
  <2> DEFINE ev == OnTheWayEvent(now)
             row == AfterOnTheWay(entries[e], now)
  <2>1. /\ entries[e] \in Rows /\ history[e] \in Seq(Events)
        /\ Walk(history[e], entries[e]) /\ entries[e].status = "called"
    BY <1>0, <1>4 DEF OnTheWay, TypeOK, DecideOnTheWay
  <2>2. /\ ev \in Events /\ ev.from = "called" /\ ev.to = "called"
        /\ ev.type = "on_the_way"
    BY DEF OnTheWayEvent, Events, Statuses, ActiveStatuses, Actors
  <2>3. row.status = entries[e].status
    BY <2>1, OnTheWayRow
  <2>. HIDE DEF ev, row
  <2>4. Walk(Append(history[e], ev), row)
    BY <2>1, <2>2, <2>3, WalkGoesOn
  <2>. HIDE DEF Walk
  <2>. QED
    BY <1>1, <1>4, <2>4 DEF OnTheWay, ev, row
<1>. HIDE DEF Walk
<1>5. ASSUME UNCHANGED vars
      PROVE  \A x \in DOMAIN history' : Walk(history'[x], entries'[x])
  BY <1>0, <1>5 DEF vars
<1>6. \A x \in DOMAIN history' : Walk(history'[x], entries'[x])
  BY <1>2, <1>3, <1>4, <1>5 DEF Next
<1>. QED
  BY <1>6 DEF HistoryIsAWalk, Walk

-----------------------------------------------------------------------------
(* Everything the ledger promises, as one inductive invariant. *)
Promises ==
  /\ TypeOK
  /\ NoGaps
  /\ TicketsUnique
  /\ OneActivePerPhone
  /\ TimesFitStatus
  /\ HistoryIsAWalk

LEMMA InitPromises == Init => Promises
<1> SUFFICES ASSUME Init PROVE Promises
  OBVIOUS
<1>1. DOMAIN entries = {} /\ DOMAIN history = {}
  BY DEF Init
<1>2. \A v \in Venues, d \in Dates : OfDay(v, d) = {} /\ lastTicket[<<v, d>>] = 0
  BY <1>1 DEF Init, OfDay
<1>3. ASSUME NEW v \in Venues, NEW d \in Dates
      PROVE  {entries[e].ticket : e \in OfDay(v, d)} = 1 .. lastTicket[<<v, d>>]
  <2>1. OfDay(v, d) = {} /\ lastTicket[<<v, d>>] = 0
    BY <1>2
  <2>2. {entries[e].ticket : e \in OfDay(v, d)} = {}
    BY <2>1
  <2>3. 1 .. lastTicket[<<v, d>>] = {}
    BY <2>1
  <2>. QED
    BY <2>2, <2>3
<1>4. NoGaps
  BY <1>3 DEF NoGaps
<1>. QED
  BY <1>1, <1>4 DEF Init, Promises, TypeOK, TicketsUnique, OneActivePerPhone,
     TimesFitStatus, HistoryIsAWalk

LEMMA StepPromises == Promises /\ [Next]_vars => Promises'
BY TypeStep, NoGapsStep, TicketsUniqueStep, OneActiveStep, TimesFitStep, HistoryStep
   DEF Promises

\* What the ledger promises holds at every moment: the tickets of a service
\* date have no gap and no duplicate, a phone has one place, and each row
\* agrees with its own timestamps and its own history.
THEOREM LedgerKeepsPromises == Spec => []Promises
BY InitPromises, StepPromises, PTL DEF Spec
=============================================================================
