---------------------------- MODULE QueueViewProofs ----------------------------
(***************************************************************************)
(* What holds of the answers of the waitlist for any number of diners, any *)
(* service dates and any clock: the estimate of a position, the list the   *)
(* panel shows, the search of a ticket and the hold of a called diner. The *)
(* ledger under the queries keeps what module QueueLedgerProofs shows.     *)
(***************************************************************************)
EXTENDS QueueView, QueueLedgerProofs, FiniteSetTheorems, WellFoundedInduction, TLAPS

-----------------------------------------------------------------------------
(* The estimate. *)

LEMMA RoundedEta ==
  ASSUME NEW n \in Nat
  PROVE  /\ Round5(n) \in Nat
         /\ Round5(n) % 5 = 0
BY DEF Round5

LEMMA RoundingIsMonotone ==
  ASSUME NEW m \in Nat, NEW n \in Nat, m <= n
  PROVE  Round5(m) <= Round5(n)
BY DEF Round5

\* For every position and every venue, the estimate of eta_range starts at five
\* minutes or more, spans five or more, and both its ends are multiples of five.
THEOREM EtaIsARange ==
  ASSUME NEW position \in Nat, NEW minutes \in Nat
  PROVE  LET eta == EtaRange(position, minutes) IN
         /\ 5 <= eta.low
         /\ eta.low + 5 <= eta.high
         /\ eta.low % 5 = 0 /\ eta.high % 5 = 0
<1> DEFINE eta == position * minutes
<1>1. eta \in Nat
  OBVIOUS
<1>2. 85 * eta \in Nat /\ 125 * eta \in Nat
  BY <1>1
<1>3. /\ Round5(85 * eta) \in Nat /\ Round5(85 * eta) % 5 = 0
      /\ Round5(125 * eta) \in Nat /\ Round5(125 * eta) % 5 = 0
  BY <1>2, RoundedEta
<1> HIDE DEF eta
<1>4. /\ EtaLow(eta) \in Nat /\ 5 <= EtaLow(eta) /\ EtaLow(eta) % 5 = 0
  BY <1>3 DEF EtaLow
<1>5. /\ EtaHigh(eta) \in Nat /\ EtaLow(eta) + 5 <= EtaHigh(eta) /\ EtaHigh(eta) % 5 = 0
  BY <1>3, <1>4 DEF EtaHigh
<1>6. EtaRange(position, minutes) = [low |-> EtaLow(eta), high |-> EtaHigh(eta)]
  BY DEF EtaRange, eta
<1> QED
  BY <1>4, <1>5, <1>6

\* A diner farther back in a venue's queue never reads a shorter estimate, at
\* either end of the range.
THEOREM FartherNeverReadsLess ==
  ASSUME NEW near \in Nat, NEW far \in Nat, near <= far, NEW minutes \in Nat
  PROVE  /\ EtaRange(near, minutes).low <= EtaRange(far, minutes).low
         /\ EtaRange(near, minutes).high <= EtaRange(far, minutes).high
<1> DEFINE a == near * minutes
           b == far * minutes
<1>1. a \in Nat /\ b \in Nat
  OBVIOUS
<1>2. a <= b
  OBVIOUS
<1> HIDE DEF a, b
<1>3. /\ 85 * a \in Nat /\ 85 * b \in Nat /\ 85 * a <= 85 * b
      /\ 125 * a \in Nat /\ 125 * b \in Nat /\ 125 * a <= 125 * b
  BY <1>1, <1>2
<1>4. /\ Round5(85 * a) <= Round5(85 * b)
      /\ Round5(125 * a) <= Round5(125 * b)
  BY <1>3, RoundingIsMonotone
<1>5. /\ Round5(85 * a) \in Nat /\ Round5(85 * a) % 5 = 0
      /\ Round5(85 * b) \in Nat /\ Round5(85 * b) % 5 = 0
      /\ Round5(125 * a) \in Nat /\ Round5(125 * a) % 5 = 0
      /\ Round5(125 * b) \in Nat /\ Round5(125 * b) % 5 = 0
  BY <1>3, RoundedEta
<1>6. /\ EtaLow(a) \in Nat /\ EtaLow(b) \in Nat
      /\ EtaLow(a) % 5 = 0 /\ EtaLow(b) % 5 = 0
      /\ EtaLow(a) <= EtaLow(b)
  BY <1>4, <1>5 DEF EtaLow
<1>7. EtaHigh(a) <= EtaHigh(b)
  BY <1>4, <1>5, <1>6 DEF EtaHigh
<1>8. /\ EtaRange(near, minutes) = [low |-> EtaLow(a), high |-> EtaHigh(a)]
      /\ EtaRange(far, minutes) = [low |-> EtaLow(b), high |-> EtaHigh(b)]
  BY DEF EtaRange, a, b
<1> QED
  BY <1>6, <1>7, <1>8

-----------------------------------------------------------------------------
(* Finite sets in order. *)

LEMMA LeastNat ==
  ASSUME NEW T, T \subseteq Nat, T # {}
  PROVE  Min(T) \in T /\ \A n \in T : Min(T) <= n
<1> DEFINE less == {p \in Nat \X Nat : p[1] < p[2]}
<1>1. IsWellFoundedOn(less, Nat)
  BY NatLessThanWellFounded DEF OpToRel
<1> HIDE DEF less
<1>2. \E n \in T : \A m \in T : ~(<<m, n>> \in less)
  BY <1>1, WFMin
<1>3. \A m, n \in Nat : ~(<<m, n>> \in less) => n <= m
  <2> TAKE m, n \in Nat
  <2>1. <<m, n>> \in Nat \X Nat /\ <<m, n>>[1] = m /\ <<m, n>>[2] = n
    OBVIOUS
  <2> QED
    BY <2>1 DEF less
<1>4. \E n \in T : \A m \in T : n <= m
  BY <1>2, <1>3
<1> QED
  BY <1>4 DEF Min

\* A relation that orders the elements of a set one after another.
Orders(less, S) ==
  /\ \A a \in S : <<a, a>> \notin less
  /\ \A a, b \in S : a # b => <<a, b>> \in less \/ <<b, a>> \in less
  /\ \A a, b, c \in S : <<a, b>> \in less /\ <<b, c>> \in less => <<a, c>> \in less

\* A list of a set in that order.
Lists(less, S, list) ==
  /\ list \in [1 .. Cardinality(S) -> S]
  /\ \A i, j \in 1 .. Cardinality(S) : i < j => <<list[i], list[j]>> \in less

\* A list that is in order has every element once.
LEMMA ListHasEach ==
  ASSUME NEW S, IsFiniteSet(S), NEW less, Orders(less, S), NEW list, Lists(less, S, list)
  PROVE  /\ Cardinality(S) \in Nat
         /\ \A i, j \in 1 .. Cardinality(S) : list[i] = list[j] => i = j
         /\ \A a \in S : \E i \in 1 .. Cardinality(S) : list[i] = a
<1> DEFINE n == Cardinality(S)
<1>1. n \in Nat
  BY FS_CardinalityType
<1>2. /\ list \in [1 .. n -> S]
      /\ \A i, j \in 1 .. n : i < j => <<list[i], list[j]>> \in less
  BY DEF Lists
<1>3. IsFiniteSet(1 .. n) /\ Cardinality(1 .. n) = n
  BY <1>1, FS_Interval
<1>4. \A i, j \in 1 .. n : list[i] = list[j] => i = j
  <2> SUFFICES ASSUME NEW i \in 1 .. n, NEW j \in 1 .. n, list[i] = list[j], i # j
               PROVE  FALSE
    OBVIOUS
  <2>1. i < j \/ j < i
    BY <1>1
  <2>2. <<list[i], list[j]>> \in less \/ <<list[j], list[i]>> \in less
    BY <1>2, <2>1
  <2>3. list[i] \in S
    BY <1>2
  <2> QED
    BY <2>2, <2>3 DEF Orders
<1> HIDE DEF n
<1>5. list \in Injection(1 .. n, S)
  BY <1>2, <1>4 DEF Injection, IsInjective
<1>6. list \in Surjection(1 .. n, S)
  <2>1. Cardinality(1 .. n) = Cardinality(S)
    BY <1>3 DEF n
  <2> QED
    BY <1>5, <2>1, FS_Injection
<1>7. \A a \in S : \E i \in 1 .. n : list[i] = a
  BY <1>6 DEF Surjection
<1> QED
  BY <1>1, <1>4, <1>7 DEF n

\* A finite set has such a list: each element at the place after those below.
LEMMA ListExists ==
  ASSUME NEW S, IsFiniteSet(S), NEW less, Orders(less, S)
  PROVE  \E list : Lists(less, S, list)
<1> DEFINE n == Cardinality(S)
           Below(a) == {b \in S : <<b, a>> \in less}
           rank == [a \in S |-> Cardinality(Below(a)) + 1]
<1>1. n \in Nat
  BY FS_CardinalityType
<1>2. ASSUME NEW a \in S
      PROVE  /\ IsFiniteSet(Below(a)) /\ Cardinality(Below(a)) \in Nat
             /\ a \notin Below(a) /\ Below(a) \subseteq S
             /\ Cardinality(Below(a)) < n
  <2>1. Below(a) \subseteq S /\ a \notin Below(a)
    BY DEF Orders
  <2> HIDE DEF Below
  <2>2. IsFiniteSet(Below(a)) /\ Cardinality(Below(a)) \in Nat /\ Cardinality(Below(a)) <= n
    BY <2>1, FS_Subset, FS_CardinalityType
  <2>3. Cardinality(Below(a)) # n
    BY <2>1, FS_Subset
  <2> QED
    BY <1>1, <2>1, <2>2, <2>3
<1>3. ASSUME NEW a \in S, NEW b \in S, <<a, b>> \in less
      PROVE  rank[a] < rank[b]
  <2>1. Below(a) \cup {a} \subseteq Below(b)
    BY <1>3 DEF Orders
  <2> HIDE DEF Below
  <2>2. Cardinality(Below(a) \cup {a}) = Cardinality(Below(a)) + 1
    BY <1>2, FS_AddElement
  <2>3. Cardinality(Below(a) \cup {a}) <= Cardinality(Below(b))
    BY <1>2, <2>1, FS_Subset
  <2> QED
    BY <1>2, <2>2, <2>3
<1>4. rank \in [S -> 1 .. n]
  <2> HIDE DEF Below, n
  <2>1. \A a \in S : Cardinality(Below(a)) + 1 \in 1 .. n
    BY <1>1, <1>2
  <2> QED
    BY <2>1
<1> HIDE DEF rank, Below
<1>5. rank \in Injection(S, 1 .. n)
  <2>1. ASSUME NEW a \in S, NEW b \in S, rank[a] = rank[b]
        PROVE  a = b
    <3> SUFFICES ASSUME a # b PROVE FALSE
      OBVIOUS
    <3>1. rank[a] < rank[b] \/ rank[b] < rank[a]
      BY <1>3 DEF Orders
    <3>2. rank[a] \in Int /\ rank[b] \in Int
      BY <1>4
    <3> QED
      BY <2>1, <3>1, <3>2
  <2> QED
    BY <1>4, <2>1 DEF Injection, IsInjective
<1>6. rank \in Surjection(S, 1 .. n)
  <2>1. IsFiniteSet(1 .. n) /\ Cardinality(1 .. n) = n
    BY <1>1, FS_Interval
  <2>2. Cardinality(S) = Cardinality(1 .. n)
    BY <2>1
  <2> HIDE DEF n
  <2> QED
    BY <1>5, <2>1, <2>2, FS_Injection
<1> DEFINE list == [i \in 1 .. n |-> CHOOSE a \in S : rank[a] = i]
<1>7. \A i \in 1 .. n : list[i] \in S /\ rank[list[i]] = i
  <2> HIDE DEF n
  <2> QED
    BY <1>6 DEF Surjection
<1>8. list \in [1 .. n -> S]
  <2>1. \A i \in 1 .. n : (CHOOSE a \in S : rank[a] = i) \in S
    BY <1>7
  <2> HIDE DEF n
  <2> QED
    BY <2>1
<1> HIDE DEF list
<1>9. ASSUME NEW i \in 1 .. n, NEW j \in 1 .. n, i < j
      PROVE  <<list[i], list[j]>> \in less
  <2>1. /\ list[i] \in S /\ list[j] \in S
        /\ rank[list[i]] = i /\ rank[list[j]] = j
    BY <1>7
  <2>2. i \in Int /\ j \in Int /\ i # j /\ ~(j < i)
    BY <1>1, <1>9
  <2>3. <<list[j], list[i]>> \notin less
    BY <1>3, <2>1, <2>2
  <2>4. list[i] # list[j]
    BY <2>1, <2>2
  <2> QED
    BY <2>1, <2>3, <2>4 DEF Orders
<1> QED
  BY <1>8, <1>9 DEF Lists

\* As many places of the list as elements, for any part of the set.
LEMMA PlacesOfPart ==
  ASSUME NEW S, IsFiniteSet(S), NEW less, Orders(less, S), NEW list, Lists(less, S, list),
         NEW P, P \subseteq S
  PROVE  Cardinality({i \in 1 .. Cardinality(S) : list[i] \in P}) = Cardinality(P)
<1> DEFINE I == {i \in 1 .. Cardinality(S) : list[i] \in P}
           f == [i \in I |-> list[i]]
<1>1. /\ \A i, j \in 1 .. Cardinality(S) : list[i] = list[j] => i = j
      /\ \A a \in S : \E i \in 1 .. Cardinality(S) : list[i] = a
      /\ Cardinality(S) \in Nat
  BY ListHasEach
<1>2. f \in [I -> P]
  OBVIOUS
<1>3. IsInjective(f)
  BY <1>1 DEF IsInjective
<1>4. \A a \in P : \E i \in I : f[i] = a
  BY <1>1
<1> HIDE DEF f
<1>5. f \in Injection(I, P) /\ f \in Surjection(I, P)
  BY <1>2, <1>3, <1>4 DEF Injection, Surjection
<1>6. IsFiniteSet(P)
  BY FS_Subset
<1> HIDE DEF I
<1>7. Cardinality(I) = Cardinality(P)
  BY <1>5, <1>6, FS_Injection
<1> QED
  BY <1>7 DEF I

-----------------------------------------------------------------------------
(* The inductive invariant. *)

\* The keys are 1, 2, ... as the inserts gave them.
Keys == \E n \in Nat : DOMAIN entries = 1 .. n

ViewTyped == clock \in Times /\ serviceDate \in ServiceDays /\ Keys

\* An entry has the service date of the moment at which it joined.
DatedByJoin ==
  \A e \in DOMAIN entries :
    entries[e].date = serviceDate[entries[e].venue][entries[e].joinedAt]

ViewInv == Promises /\ ViewTyped /\ DatedByJoin

LEMMA KeysAreFinite ==
  ASSUME ViewTyped
  PROVE  /\ IsFiniteSet(DOMAIN entries) /\ Cardinality(DOMAIN entries) \in Nat
         /\ DOMAIN entries = 1 .. Cardinality(DOMAIN entries)
<1>1. PICK n \in Nat : DOMAIN entries = 1 .. n
  BY DEF ViewTyped, Keys
<1>2. IsFiniteSet(1 .. n) /\ Cardinality(1 .. n) = n
  BY FS_Interval
<1> QED
  BY <1>1, <1>2

LEMMA RowTypes ==
  ASSUME TypeOK, NEW e \in DOMAIN entries
  PROVE  /\ entries[e].venue \in Venues /\ entries[e].date \in Dates
         /\ entries[e].date \in Int /\ entries[e].ticket \in Nat
         /\ entries[e].status \in Statuses
         /\ entries[e].joinedAt \in Times /\ entries[e].joinedAt \in Nat
         /\ entries[e].calledAt \in Nat
<1>1. entries[e] \in Rows
  BY DEF TypeOK
<1>2. /\ entries[e].venue \in Venues /\ entries[e].date \in Dates
      /\ entries[e].ticket \in Nat /\ entries[e].status \in Statuses
      /\ entries[e].joinedAt \in Times /\ entries[e].calledAt \in Times \cup {NoTime}
  BY <1>1 DEF Rows
<1>3. Times \subseteq Nat /\ Dates \subseteq Int /\ NoTime \in Nat
  BY LedgerAssumption, ViewAssumption DEF NoTime
<1> QED
  BY <1>2, <1>3

\* A step of the queue is a join at a reading of the clock, or it leaves the
\* joins as they are and makes nobody wait again.
Joins(e, v, p, at) ==
  /\ e = Cardinality(DOMAIN entries) + 1 /\ e \in Ids
  /\ v \in Venues /\ p \in Phones /\ at \in Times
  /\ Enter(e, v, p, serviceDate[v][at], at)

\* The calls and notices of an entry do not move it in the queue.
KeepsPlaces ==
  /\ DOMAIN entries' = DOMAIN entries
  /\ \A e \in DOMAIN entries :
       /\ entries'[e].venue = entries[e].venue /\ entries'[e].phone = entries[e].phone
       /\ entries'[e].date = entries[e].date /\ entries'[e].joinedAt = entries[e].joinedAt
       /\ entries'[e].ticket = entries[e].ticket
       /\ entries'[e].status = "waiting" => entries[e].status = "waiting"
       /\ entries[e].status = "called" /\ entries'[e].status = "called" =>
            entries'[e].calledAt = entries[e].calledAt

LEMMA ChangeKeepsPlaces ==
  ASSUME TypeOK, NEW e \in Ids, NEW target \in Statuses, NEW actor \in Actors,
         NEW at \in Times, Change(e, target, actor, at)
  PROVE  KeepsPlaces
<1> DEFINE row == AfterTransition(entries[e], target, at)
<1>1. /\ DOMAIN entries' = DOMAIN entries /\ e \in DOMAIN entries
      /\ entries'[e] = row
      /\ \A x \in DOMAIN entries : x # e => entries'[x] = entries[x]
  BY ChangeWrites, SuccessorRows DEF Change
<1>2. entries[e] \in Rows
  BY <1>1 DEF TypeOK
<1>3. /\ target \in {"called"} \cup FinalStatuses
      /\ target = "called" => entries[e].status = "waiting"
  BY ApplyStartsActive DEF Change
<1>4. /\ row.venue = entries[e].venue /\ row.phone = entries[e].phone
      /\ row.date = entries[e].date /\ row.ticket = entries[e].ticket
      /\ row.status = target
  BY <1>2, TransitionRow
<1>5. row.joinedAt = entries[e].joinedAt
  BY <1>2 DEF AfterTransition, Rows
<1>6. target # "waiting"
  BY <1>3 DEF FinalStatuses
<1> HIDE DEF row
<1> QED
  BY <1>1, <1>3, <1>4, <1>5, <1>6 DEF KeepsPlaces

LEMMA NoticeKeepsPlaces ==
  ASSUME TypeOK, NEW e \in Ids, NEW at \in Times, OnTheWay(e, at)
  PROVE  KeepsPlaces
<1> DEFINE row == AfterOnTheWay(entries[e], at)
<1>1. /\ DOMAIN entries' = DOMAIN entries /\ e \in DOMAIN entries
      /\ entries'[e] = row
      /\ \A x \in DOMAIN entries : x # e => entries'[x] = entries[x]
  BY OnTheWayWrites, SuccessorRows DEF OnTheWay
<1>2. entries[e] \in Rows
  BY <1>1 DEF TypeOK
<1>3. /\ row.venue = entries[e].venue /\ row.phone = entries[e].phone
      /\ row.date = entries[e].date /\ row.ticket = entries[e].ticket
      /\ row.status = entries[e].status /\ row.calledAt = entries[e].calledAt
  BY <1>2, OnTheWayRow
<1>4. row.joinedAt = entries[e].joinedAt
  BY <1>2 DEF AfterOnTheWay, Rows
<1> HIDE DEF row
<1> QED
  BY <1>1, <1>3, <1>4 DEF KeepsPlaces

LEMMA JoinedRow ==
  ASSUME NEW e, NEW v, NEW p, NEW at, Joins(e, v, p, at)
  PROVE  /\ DOMAIN entries' = DOMAIN entries \cup {e} /\ e \notin DOMAIN entries
         /\ \A x \in DOMAIN entries : entries'[x] = entries[x]
         /\ entries'[e].venue = v /\ entries'[e].joinedAt = at
         /\ entries'[e].date = serviceDate[v][at] /\ entries'[e].status = "waiting"
<1>1. Enter(e, v, p, serviceDate[v][at], at)
  BY DEF Joins
<1> DEFINE n == lastTicket[<<v, serviceDate[v][at]>>] + 1
           row == NewEntry(v, p, serviceDate[v][at], n, at)
<1>2. /\ DOMAIN entries' = DOMAIN entries \cup {e} /\ e \notin DOMAIN entries
      /\ \A x \in DOMAIN entries : entries'[x] = entries[x]
      /\ entries'[e] = row
  BY <1>1, EnterRows
<1>3. /\ row.venue = v /\ row.joinedAt = at
      /\ row.date = serviceDate[v][at] /\ row.status = "waiting"
  BY DEF NewEntry
<1> HIDE DEF row
<1> QED
  BY <1>2, <1>3

LEMMA ViewSteps ==
  ASSUME TypeOK, ViewTyped, [ViewNext]_viewVars
  PROVE  /\ [Next]_vars
         /\ serviceDate' = serviceDate
         /\ clock' \in Times /\ clock <= clock'
         /\ \/ KeepsPlaces
            \/ \E e, v, p, at : Joins(e, v, p, at)
<1>0. clock \in Times /\ clock \in Nat /\ Times \subseteq Nat
  BY LedgerAssumption DEF ViewTyped
<1>s. ASSUME entries' = entries PROVE KeepsPlaces
  BY <1>s DEF KeepsPlaces
<1>1. ASSUME Cardinality(DOMAIN entries) + 1 \in Ids, NEW v \in Venues, NEW p \in Phones,
             Join(v, p)
      PROVE  /\ Next /\ serviceDate' = serviceDate /\ clock' = clock
             /\ \E e, u, q, at : Joins(e, u, q, at)
  <2> DEFINE e == Cardinality(DOMAIN entries) + 1
  <2>1. PICK at \in Times : /\ Enter(e, v, p, serviceDate[v][at], at)
                            /\ UNCHANGED <<clock, serviceDate>>
    BY <1>1 DEF Join
  <2>2. serviceDate[v][at] \in Dates
    BY DEF ViewTyped, ServiceDays
  <2>3. e \in Ids
    BY <1>1
  <2>4. Joins(e, v, p, at)
    BY <2>1, <2>3 DEF Joins
  <2> HIDE DEF e
  <2>5. Next
    BY <2>1, <2>2, <2>3 DEF Next
  <2> QED
    BY <2>1, <2>4, <2>5
<1>2. ASSUME NEW e \in DOMAIN entries, Move(e)
      PROVE  Next /\ serviceDate' = serviceDate /\ clock' = clock /\ KeepsPlaces
  <2>1. e \in Ids
    BY DEF TypeOK
  <2>2. CASE \E target \in Statuses, actor \in Actors : Change(e, target, actor, clock)
    <3>1. PICK target \in Statuses, actor \in Actors : Change(e, target, actor, clock)
      BY <2>2
    <3>2. KeepsPlaces
      BY <1>0, <2>1, <3>1, ChangeKeepsPlaces
    <3>3. Next
      BY <1>0, <2>1, <3>1 DEF Next
    <3> QED
      BY <1>2, <3>2, <3>3 DEF Move
  <2>3. CASE OnTheWay(e, clock)
    <3>1. KeepsPlaces
      BY <1>0, <2>1, <2>3, NoticeKeepsPlaces
    <3>2. Next
      BY <1>0, <2>1, <2>3 DEF Next
    <3> QED
      BY <1>2, <3>1, <3>2 DEF Move
  <2> QED
    BY <1>2, <2>2, <2>3 DEF Move
<1>3. CASE Tick
  BY <1>0, <1>3, <1>s DEF Tick, vars
<1>4. CASE UNCHANGED viewVars
  BY <1>0, <1>4, <1>s DEF viewVars, vars
<1> QED
  BY <1>0, <1>1, <1>2, <1>3, <1>4 DEF ViewNext

LEMMA ViewStarts == ViewInit => ViewInv
<1> SUFFICES ASSUME ViewInit PROVE ViewInv
  OBVIOUS
<1>1. Promises
  BY InitPromises DEF ViewInit
<1>2. DOMAIN entries = {}
  BY DEF ViewInit, Init
<1>3. Keys
  <2>1. DOMAIN entries = 1 .. 0
    BY <1>2
  <2> QED
    BY <2>1 DEF Keys
<1>4. clock \in Times
  BY LeastNat, LedgerAssumption, ViewAssumption DEF ViewInit
<1>5. ViewTyped
  BY <1>3, <1>4 DEF ViewInit, ViewTyped
<1>6. DatedByJoin
  BY <1>2 DEF DatedByJoin
<1> QED
  BY <1>1, <1>5, <1>6 DEF ViewInv

LEMMA ViewInvStep == ViewInv /\ [ViewNext]_viewVars => ViewInv'
<1> SUFFICES ASSUME ViewInv, [ViewNext]_viewVars PROVE ViewInv'
  OBVIOUS
<1>0. TypeOK /\ ViewTyped
  BY DEF ViewInv, Promises
<1>1. /\ [Next]_vars /\ serviceDate' = serviceDate /\ clock' \in Times
      /\ KeepsPlaces \/ \E e, v, p, at : Joins(e, v, p, at)
  BY <1>0, ViewSteps
<1>2. Promises'
  BY <1>1, StepPromises DEF ViewInv
<1>3. ASSUME KeepsPlaces PROVE Keys' /\ DatedByJoin'
  <2>1. Keys'
    BY <1>0, <1>3 DEF Keys, KeepsPlaces, ViewTyped
  <2>2. DatedByJoin'
    BY <1>1, <1>3 DEF KeepsPlaces, DatedByJoin, ViewInv
  <2> QED
    BY <2>1, <2>2
<1>4. ASSUME NEW e, NEW v, NEW p, NEW at, Joins(e, v, p, at) PROVE Keys' /\ DatedByJoin'
  <2>1. /\ DOMAIN entries' = DOMAIN entries \cup {e}
        /\ \A x \in DOMAIN entries : entries'[x] = entries[x]
        /\ entries'[e].venue = v /\ entries'[e].joinedAt = at
        /\ entries'[e].date = serviceDate[v][at]
    BY <1>4, JoinedRow
  <2>2. Keys'
    <3>1. PICK n \in Nat : n = Cardinality(DOMAIN entries) /\ DOMAIN entries = 1 .. n
      BY <1>0, KeysAreFinite
    <3>2. e = n + 1
      BY <1>4, <3>1 DEF Joins
    <3>3. DOMAIN entries' = 1 .. (n + 1) /\ n + 1 \in Nat
      <4>1. (1 .. n) \cup {n + 1} = 1 .. (n + 1)
        OBVIOUS
      <4>2. DOMAIN entries' = (1 .. n) \cup {n + 1}
        BY <2>1, <3>1, <3>2
      <4>3. n + 1 \in Nat
        OBVIOUS
      <4> QED
        BY <4>1, <4>2, <4>3, Zenon
    <3> QED
      BY <3>3 DEF Keys
  <2>3. DatedByJoin'
    BY <1>1, <2>1 DEF DatedByJoin, ViewInv
  <2> QED
    BY <2>2, <2>3
<1>5. Keys' /\ DatedByJoin'
  BY <1>1, <1>3, <1>4
<1>6. ViewTyped'
  BY <1>0, <1>1, <1>5 DEF ViewTyped
<1> QED
  BY <1>2, <1>5, <1>6 DEF ViewInv

LEMMA ViewInvariance == ViewSpec => []ViewInv
BY ViewStarts, ViewInvStep, PTL DEF ViewSpec

-----------------------------------------------------------------------------
(* The queries: lists and positions. *)

\* QueueEntry.sort_key as a relation.
Earlier == {p \in (DOMAIN entries) \X (DOMAIN entries) : Before(p[1], p[2])}

Active(v) == {e \in DOMAIN entries : /\ entries[e].venue = v
                                     /\ entries[e].status \in ActiveStatuses}

Waiting(v) == {e \in DOMAIN entries : entries[e].venue = v /\ IsWaiting(e)}

\* Those who wait in the same venue and come first.
Ahead(e) == {f \in Waiting(entries[e].venue) : Before(f, e)}

LEMMA EarlierIsBefore ==
  \A e, f \in DOMAIN entries : <<e, f>> \in Earlier <=> Before(e, f)
<1> TAKE e, f \in DOMAIN entries
<1>1. <<e, f>> \in (DOMAIN entries) \X (DOMAIN entries) /\ <<e, f>>[1] = e /\ <<e, f>>[2] = f
  OBVIOUS
<1> QED
  BY <1>1 DEF Earlier

LEMMA SortKeyOrders ==
  ASSUME ViewInv, NEW S, S \subseteq DOMAIN entries
  PROVE  Orders(Earlier, S)
<1>1. \A e \in DOMAIN entries : e \in Nat /\ entries[e].joinedAt \in Nat
  BY RowTypes DEF ViewInv, Promises, ViewTyped, Keys
<1>2. \A e \in S : ~Before(e, e)
  BY <1>1 DEF Before
<1>3. \A e, f \in S : e # f => Before(e, f) \/ Before(f, e)
  BY <1>1 DEF Before
<1>4. \A e, f, g \in S : Before(e, f) /\ Before(f, g) => Before(e, g)
  BY <1>1 DEF Before
<1> QED
  BY <1>2, <1>3, <1>4, EarlierIsBefore DEF Orders

\* The sorted list of some entries has each of them once, in order.
LEMMA SortedIsAList ==
  ASSUME ViewInv, NEW S, S \subseteq DOMAIN entries
  PROVE  /\ IsFiniteSet(S) /\ Orders(Earlier, S) /\ Lists(Earlier, S, Sorted(S))
         /\ DOMAIN Sorted(S) = 1 .. Cardinality(S)
         /\ ToSet(Sorted(S)) = S
<1>1. IsFiniteSet(S)
  BY KeysAreFinite, FS_Subset DEF ViewInv
<1>2. Orders(Earlier, S)
  BY SortKeyOrders
<1>3. PICK l : Lists(Earlier, S, l)
  BY <1>1, <1>2, ListExists
<1>4. ASSUME NEW list \in [1 .. Cardinality(S) -> S]
      PROVE  Lists(Earlier, S, list) <=>
               \A i, j \in DOMAIN list : i < j => Before(list[i], list[j])
  <2>1. DOMAIN list = 1 .. Cardinality(S)
    OBVIOUS
  <2>2. \A i \in 1 .. Cardinality(S) : list[i] \in DOMAIN entries
    OBVIOUS
  <2> QED
    BY <2>1, <2>2, EarlierIsBefore DEF Lists
<1>5. /\ Sorted(S) \in [1 .. Cardinality(S) -> S]
      /\ \A i, j \in DOMAIN Sorted(S) : i < j => Before(Sorted(S)[i], Sorted(S)[j])
  <2>1. /\ l \in [1 .. Cardinality(S) -> S]
        /\ \A i, j \in DOMAIN l : i < j => Before(l[i], l[j])
    BY <1>3, <1>4 DEF Lists
  <2> QED
    BY <2>1 DEF Sorted
<1>6. Lists(Earlier, S, Sorted(S))
  BY <1>4, <1>5
<1>7. ToSet(Sorted(S)) = S
  <2>1. DOMAIN Sorted(S) = 1 .. Cardinality(S)
        /\ \A i \in DOMAIN Sorted(S) : Sorted(S)[i] \in S
    BY <1>5
  <2>2. \A a \in S : \E i \in 1 .. Cardinality(S) : Sorted(S)[i] = a
    BY <1>1, <1>2, <1>6, ListHasEach
  <2> QED
    BY <2>1, <2>2 DEF ToSet
<1> QED
  BY <1>1, <1>2, <1>5, <1>6, <1>7

\* compute_positions: one more than those who wait and come first.
PositionsCountWhoIsAhead ==
  \A e \in DOMAIN entries : IsWaiting(e) =>
    /\ Position(e) = Cardinality(Ahead(e)) + 1
    /\ Position(e) \in 1 .. Cardinality(Waiting(entries[e].venue))

LEMMA PositionsCount == ViewInv => PositionsCountWhoIsAhead
<1> SUFFICES ASSUME ViewInv, NEW e \in DOMAIN entries, IsWaiting(e)
             PROVE  /\ Position(e) = Cardinality(Ahead(e)) + 1
                    /\ Position(e) \in 1 .. Cardinality(Waiting(entries[e].venue))
  BY DEF PositionsCountWhoIsAhead
<1> DEFINE v == entries[e].venue
           Q == Waiting(v)
           w == Sorted(Q)
           n == Cardinality(Q)
<1>0. n = Cardinality(Q)
  OBVIOUS
<1>1. Q \subseteq DOMAIN entries /\ Active(v) \subseteq DOMAIN entries /\ e \in Q
  BY DEF Waiting, Active
<1>2. ListActive(v) = Sorted(Active(v))
  BY DEF ListActive, Active
<1>3. {x \in ToSet(ListActive(v)) : IsWaiting(x)} = Q
  <2>1. ToSet(ListActive(v)) = Active(v)
    BY <1>1, <1>2, SortedIsAList
  <2>2. \A x \in DOMAIN entries : IsWaiting(x) => entries[x].status \in ActiveStatuses
    BY DEF IsWaiting, ActiveStatuses
  <2> QED
    BY <2>1, <2>2 DEF Active, Waiting
<1>4. /\ IsFiniteSet(Q) /\ Orders(Earlier, Q) /\ Lists(Earlier, Q, w)
      /\ DOMAIN w = 1 .. n /\ ToSet(w) = Q
  BY <1>1, SortedIsAList
<1>5. Position(e) = CHOOSE i \in DOMAIN w : w[i] = e
  <2>1. ComputePositions(ListActive(v)) = [x \in ToSet(w) |-> CHOOSE i \in DOMAIN w : w[i] = x]
    BY <1>3 DEF ComputePositions
  <2> QED
    BY <1>1, <1>4, <2>1 DEF Position
<1> HIDE DEF w, Q, n
<1>6. /\ n \in Nat
      /\ \A i, j \in 1 .. n : w[i] = w[j] => i = j
      /\ \A a \in Q : \E i \in 1 .. n : w[i] = a
      /\ \A i \in 1 .. n : w[i] \in Q
      /\ \A i, j \in 1 .. n : i < j => <<w[i], w[j]>> \in Earlier
  <2>1. /\ IsFiniteSet(Q) /\ Orders(Earlier, Q) /\ Lists(Earlier, Q, w)
    BY <1>4
  <2>2. /\ Cardinality(Q) \in Nat
        /\ \A i, j \in 1 .. Cardinality(Q) : w[i] = w[j] => i = j
        /\ \A a \in Q : \E i \in 1 .. Cardinality(Q) : w[i] = a
    BY <2>1, ListHasEach
  <2>3. /\ w \in [1 .. Cardinality(Q) -> Q]
        /\ \A i, j \in 1 .. Cardinality(Q) : i < j => <<w[i], w[j]>> \in Earlier
    BY <2>1 DEF Lists
  <2> QED
    BY <1>0, <2>2, <2>3
<1>7. PICK k \in 1 .. n : w[k] = e /\ Position(e) = k
  BY <1>1, <1>4, <1>5, <1>6
<1> DEFINE f == [i \in 1 .. k - 1 |-> w[i]]
<1>8. Ahead(e) = {x \in Q : <<x, e>> \in Earlier}
  <2>1. \A x \in Q : <<x, e>> \in Earlier <=> Before(x, e)
    BY <1>1, EarlierIsBefore
  <2> QED
    BY <2>1 DEF Ahead, Q
<1>9. k \in Nat /\ k >= 1 /\ k - 1 \in Nat /\ \A i \in 1 .. k - 1 : i \in 1 .. n /\ i < k
  BY <1>6
<1>10. f \in [1 .. k - 1 -> Ahead(e)]
  <2>1. \A i \in 1 .. k - 1 : w[i] \in Ahead(e)
    BY <1>6, <1>7, <1>8, <1>9
  <2> QED
    BY <2>1
<1>11. IsInjective(f)
  BY <1>6, <1>9 DEF IsInjective
<1>12. ASSUME NEW a \in Ahead(e) PROVE \E i \in 1 .. k - 1 : f[i] = a
  <2>1. PICK i \in 1 .. n : w[i] = a
    BY <1>6, <1>8
  <2>2. ~(k <= i)
    <3> SUFFICES ASSUME k <= i PROVE FALSE
      OBVIOUS
    <3>1. CASE k = i
      BY <1>1, <1>4, <1>7, <1>8, <2>1, <3>1 DEF Orders
    <3>2. CASE k < i
      <4>1. <<e, a>> \in Earlier /\ <<a, e>> \in Earlier
        BY <1>6, <1>7, <1>8, <2>1, <3>2
      <4>2. a \in Q
        BY <1>8
      <4> QED
        BY <1>1, <1>4, <4>1, <4>2 DEF Orders
    <3> QED
      BY <1>9, <3>1, <3>2
  <2>3. i \in 1 .. k - 1
    BY <1>9, <2>2
  <2> QED
    BY <2>1, <2>3
<1> HIDE DEF f
<1>13. f \in Injection(1 .. k - 1, Ahead(e)) /\ f \in Surjection(1 .. k - 1, Ahead(e))
  BY <1>10, <1>11, <1>12 DEF Injection, Surjection
<1>14. IsFiniteSet(1 .. k - 1) /\ Cardinality(1 .. k - 1) = k - 1
  <2>1. Cardinality(1 .. k - 1) = IF 1 > k - 1 THEN 0 ELSE (k - 1) - 1 + 1
    BY <1>9, FS_Interval
  <2> QED
    BY <1>9, <2>1, FS_Interval
<1>15. Cardinality(Ahead(e)) = k - 1
  BY <1>13, <1>14, FS_Surjection
<1> QED
  BY <1>7, <1>9, <1>15 DEF n, Q

\* The part of the list of active entries that is in a set of them.
LEMMA RowsOfPart ==
  ASSUME ViewInv, NEW v, NEW P, P \subseteq Active(v)
  PROVE  /\ DOMAIN ListActive(v) = 1 .. Cardinality(Active(v))
         /\ \A i \in DOMAIN ListActive(v) : ListActive(v)[i] \in Active(v)
         /\ Cardinality({i \in DOMAIN ListActive(v) : ListActive(v)[i] \in P}) = Cardinality(P)
<1>1. Active(v) \subseteq DOMAIN entries
  BY DEF Active
<1>2. ListActive(v) = Sorted(Active(v))
  BY DEF ListActive, Active
<1>3. /\ IsFiniteSet(Active(v)) /\ Orders(Earlier, Active(v))
      /\ Lists(Earlier, Active(v), ListActive(v))
      /\ DOMAIN ListActive(v) = 1 .. Cardinality(Active(v))
  BY <1>1, <1>2, SortedIsAList
<1>4. \A i \in DOMAIN ListActive(v) : ListActive(v)[i] \in Active(v)
  BY <1>3 DEF Lists
<1>5. Cardinality({i \in 1 .. Cardinality(Active(v)) : ListActive(v)[i] \in P}) = Cardinality(P)
  <2> DEFINE S == Active(v)
             list == ListActive(v)
  <2>1. /\ IsFiniteSet(S) /\ Orders(Earlier, S) /\ Lists(Earlier, S, list) /\ P \subseteq S
    BY <1>3
  <2> HIDE DEF S, list
  <2>2. Cardinality({i \in 1 .. Cardinality(S) : list[i] \in P}) = Cardinality(P)
    BY <2>1, PlacesOfPart
  <2> QED
    BY <2>2 DEF S, list
<1> QED
  BY <1>3, <1>4, <1>5

LEMMA ViewTypes == ViewInv => ViewTypeOK
<1> SUFFICES ASSUME ViewInv PROVE ViewTypeOK
  OBVIOUS
<1>1. ASSUME NEW e \in DOMAIN entries, IsWaiting(e)
      PROVE  EntryView(e).position \in 1 .. HostQueue(entries[e].venue).waiting
  <2> DEFINE v == entries[e].venue
             rows == ListActive(v)
  <2>1. EntryView(e).position = Position(e)
    BY DEF EntryView
  <2>2. Position(e) \in 1 .. Cardinality(Waiting(v))
    BY <1>1, PositionsCount DEF PositionsCountWhoIsAhead
  <2>3. HostQueue(v).waiting = Cardinality({i \in DOMAIN rows : IsWaiting(rows[i])})
    BY DEF HostQueue
  <2>4. Waiting(v) \subseteq Active(v)
    BY DEF Waiting, Active, IsWaiting, ActiveStatuses
  <2>5. /\ \A i \in DOMAIN rows : rows[i] \in Active(v)
        /\ Cardinality({i \in DOMAIN rows : rows[i] \in Waiting(v)}) = Cardinality(Waiting(v))
    BY <2>4, RowsOfPart
  <2>6. \A x \in Active(v) : x \in Waiting(v) <=> IsWaiting(x)
    BY DEF Active, Waiting
  <2> HIDE DEF rows
  <2>7. {i \in DOMAIN rows : IsWaiting(rows[i])} = {i \in DOMAIN rows : rows[i] \in Waiting(v)}
    BY <2>5, <2>6
  <2> QED
    BY <2>1, <2>2, <2>3, <2>5, <2>7 DEF rows
<1> QED
  BY <1>1 DEF ViewTypeOK, ViewInv, Promises, ViewTyped

-----------------------------------------------------------------------------
(* The summary of the service date. *)

\* The numbers issued are as many as the diners of the service date.
LEMMA TicketsOfTheDay ==
  ASSUME ViewInv, NEW v \in Venues, NEW d \in Dates
  PROVE  /\ IsFiniteSet(OfDay(v, d))
         /\ Cardinality(OfDay(v, d)) = lastTicket[<<v, d>>]
<1> DEFINE D == OfDay(v, d)
           n == lastTicket[<<v, d>>]
           f == [e \in D |-> entries[e].ticket]
<1>1. D \subseteq DOMAIN entries
  BY DEF OfDay
<1>2. IsFiniteSet(D)
  BY <1>1, KeysAreFinite, FS_Subset DEF ViewInv
<1>3. n \in Nat
  BY DEF ViewInv, Promises, TypeOK
<1>4. {entries[e].ticket : e \in D} = 1 .. n
  BY DEF ViewInv, Promises, NoGaps
<1>5. f \in [D -> 1 .. n] /\ \A i \in 1 .. n : \E e \in D : f[e] = i
  BY <1>4
<1>6. IsInjective(f)
  BY DEF IsInjective, ViewInv, Promises, TicketsUnique, OfDay
<1> HIDE DEF f, D, n
<1>7. f \in Injection(D, 1 .. n) /\ f \in Surjection(D, 1 .. n)
  BY <1>5, <1>6 DEF Injection, Surjection
<1>8. IsFiniteSet(1 .. n) /\ Cardinality(1 .. n) = n
  BY <1>3, FS_Interval
<1>9. Cardinality(D) = n
  BY <1>7, <1>8, FS_Injection
<1> QED
  BY <1>2, <1>9 DEF D, n

LEMMA DisjointSum ==
  ASSUME NEW S, NEW T, IsFiniteSet(S), IsFiniteSet(T), S \cap T = {}
  PROVE  /\ IsFiniteSet(S \cup T)
         /\ Cardinality(S \cup T) = Cardinality(S) + Cardinality(T)
         /\ Cardinality(S) \in Nat /\ Cardinality(T) \in Nat
<1>1. Cardinality(S \cap T) = 0
  BY FS_EmptySet
<1>2. Cardinality(S) \in Nat /\ Cardinality(T) \in Nat
  BY FS_CardinalityType
<1>3. /\ IsFiniteSet(S \cup T)
      /\ Cardinality(S \cup T) = Cardinality(S) + Cardinality(T) - Cardinality(S \cap T)
  BY FS_Union
<1> QED
  BY <1>1, <1>2, <1>3

LEMMA TicketsAdd == ViewInv => EveryTicketIsAccountedFor
<1> SUFFICES ASSUME ViewInv, NEW v \in Venues
             PROVE  LET d    == serviceDate[v][clock]
                        view == HostQueue(v)
                        done == view.finished
                    IN lastTicket[<<v, d>>] =
                         done.seated + done.left + done.noShow
                           + Cardinality({i \in DOMAIN view.rows :
                                            entries[view.rows[i]].date = d})
  BY DEF EveryTicketIsAccountedFor
<1> DEFINE d == serviceDate[v][clock]
           D == OfDay(v, d)
           With(statuses) == {e \in D : entries[e].status \in statuses}
           seated == With({"seated"})
           left == With({"cancelled", "removed"})
           noShow == With({"no_show"})
           inCourse == With(ActiveStatuses)
           rows == ListActive(v)
           shown == {i \in DOMAIN rows : entries[rows[i]].date = d}
<1>1. d \in Dates
  BY DEF ViewInv, ViewTyped, ServiceDays
<1>2. IsFiniteSet(D) /\ Cardinality(D) = lastTicket[<<v, d>>]
  BY <1>1, TicketsOfTheDay
<1>3. /\ HostQueue(v).rows = rows
      /\ HostQueue(v).finished.seated = Cardinality(seated)
      /\ HostQueue(v).finished.left = Cardinality(left)
      /\ HostQueue(v).finished.noShow = Cardinality(noShow)
  BY DEF HostQueue, Finished, CountByStatus
<1>4. Cardinality(shown) = Cardinality(inCourse)
  <2>1. inCourse \subseteq Active(v)
    BY DEF OfDay, Active
  <2>2. /\ \A i \in DOMAIN rows : rows[i] \in Active(v)
        /\ Cardinality({i \in DOMAIN rows : rows[i] \in inCourse}) = Cardinality(inCourse)
    BY <2>1, RowsOfPart
  <2>3. \A x \in Active(v) : x \in inCourse <=> entries[x].date = d
    BY DEF OfDay, Active
  <2> HIDE DEF rows, inCourse, d
  <2>4. shown = {i \in DOMAIN rows : rows[i] \in inCourse}
    BY <2>2, <2>3
  <2> QED
    BY <2>2, <2>4
<1>5. /\ D = ((seated \cup left) \cup noShow) \cup inCourse
      /\ seated \cap left = {} /\ (seated \cup left) \cap noShow = {}
      /\ ((seated \cup left) \cup noShow) \cap inCourse = {}
  <2>1. \A e \in D : entries[e].status \in Statuses
    BY RowTypes DEF OfDay, ViewInv, Promises
  <2> HIDE DEF D
  <2>2. D = ((seated \cup left) \cup noShow) \cup inCourse
    BY <2>1 DEF Statuses, ActiveStatuses, FinalStatuses
  <2> QED
    BY <2>2 DEF ActiveStatuses
<1>6. IsFiniteSet(seated) /\ IsFiniteSet(left) /\ IsFiniteSet(noShow) /\ IsFiniteSet(inCourse)
  BY <1>2, FS_Subset
<1> HIDE DEF seated, left, noShow, inCourse, D, shown, d, rows
<1>7. /\ IsFiniteSet(seated \cup left)
      /\ Cardinality(seated \cup left) = Cardinality(seated) + Cardinality(left)
  BY <1>5, <1>6, DisjointSum
<1>8. /\ IsFiniteSet((seated \cup left) \cup noShow)
      /\ Cardinality((seated \cup left) \cup noShow)
           = Cardinality(seated \cup left) + Cardinality(noShow)
  BY <1>5, <1>6, <1>7, DisjointSum
<1>9. Cardinality(D)
        = Cardinality((seated \cup left) \cup noShow) + Cardinality(inCourse)
  BY <1>5, <1>6, <1>8, DisjointSum
<1>10. Cardinality(D) = Cardinality(seated) + Cardinality(left) + Cardinality(noShow)
                          + Cardinality(shown)
  BY <1>4, <1>7, <1>8, <1>9
<1> QED
  BY <1>2, <1>3, <1>10 DEF d, shown

-----------------------------------------------------------------------------
(* The search of a ticket. *)

LEMMA SearchFinds == ViewInv => LookupFindsTheMostRecent
<1> SUFFICES ASSUME ViewInv, NEW e \in DOMAIN entries, NeverBack(entries[e].venue)
             PROVE  \E f \in LookupTicket(entries[e].venue, entries[e].ticket,
                                          entries[e].phone) :
                      /\ entries[f].joinedAt >= entries[e].joinedAt
                      /\ entries[e].status \in ActiveStatuses
                           /\ entries[f].status \in FinalStatuses
                           => entries[f].joinedAt > entries[e].joinedAt
  BY DEF LookupFindsTheMostRecent
<1> DEFINE v == entries[e].venue
           W == WithTicket(v, entries[e].ticket, entries[e].phone)
           older == {p \in W \X W : entries[p[1]].date < entries[p[2]].date}
           found == FindForLookup(v, entries[e].ticket, entries[e].phone)
<1>1. e \in W /\ W \subseteq DOMAIN entries
  BY DEF WithTicket
<1>2. \A f \in W : /\ f \in DOMAIN entries /\ entries[f].venue = v
                   /\ entries[f].date \in Int /\ entries[f].joinedAt \in Nat
                   /\ entries[f].joinedAt \in Times
  <2>1. TypeOK
    BY DEF ViewInv, Promises
  <2> QED
    BY <2>1, RowTypes DEF WithTicket
<1>3. \A f, g \in W : entries[f].date = entries[g].date => f = g
  BY DEF WithTicket, ViewInv, Promises, TicketsUnique
<1>4. IsFiniteSet(W)
  BY <1>1, KeysAreFinite, FS_Subset DEF ViewInv
<1> HIDE DEF W
<1>5. \A f, g \in W : <<f, g>> \in older <=> entries[f].date < entries[g].date
  <2> TAKE f, g \in W
  <2>1. <<f, g>> \in W \X W /\ <<f, g>>[1] = f /\ <<f, g>>[2] = g
    OBVIOUS
  <2> QED
    BY <2>1
<1> HIDE DEF older
<1>6. Orders(older, W)
  BY <1>2, <1>3, <1>5 DEF Orders
<1>7. PICK list : Lists(older, W, list)
  BY <1>4, <1>6, ListExists
<1> DEFINE n == Cardinality(W)
<1>8. /\ n \in Nat
      /\ \A g \in W : \E i \in 1 .. n : list[i] = g
      /\ \A i \in 1 .. n : list[i] \in W
      /\ \A i, j \in 1 .. n : i < j => <<list[i], list[j]>> \in older
  <2>1. /\ n \in Nat
        /\ \A g \in W : \E i \in 1 .. n : list[i] = g
    BY <1>4, <1>6, <1>7, ListHasEach
  <2>2. /\ list \in [1 .. n -> W]
        /\ \A i, j \in 1 .. n : i < j => <<list[i], list[j]>> \in older
    BY <1>7 DEF Lists
  <2> HIDE DEF n
  <2> QED
    BY <2>1, <2>2
<1> HIDE DEF n
<1>9. n \in 1 .. n
  BY <1>1, <1>8
<1>10. \A g \in W : \/ entries[g].date < entries[list[n]].date
                    \/ g = list[n]
  <2> TAKE g \in W
  <2>1. PICK i \in 1 .. n : list[i] = g
    BY <1>8
  <2>2. i = n \/ i < n
    BY <1>8
  <2>3. CASE i < n
    <3>1. <<g, list[n]>> \in older
      BY <1>8, <1>9, <2>1, <2>3
    <3> QED
      BY <1>5, <1>8, <1>9, <3>1
  <2> QED
    BY <2>1, <2>2, <2>3
<1>11. list[n] \in W
  BY <1>8, <1>9
<1>12. \A g \in W : \/ entries[g].date < entries[list[n]].date
                    \/ /\ entries[g].date = entries[list[n]].date
                       /\ entries[g].joinedAt <= entries[list[n]].joinedAt
  <2> TAKE g \in W
  <2>1. CASE g = list[n]
    BY <1>2, <1>11, <2>1
  <2> QED
    BY <1>10, <2>1
<1>13. /\ found \in W
       /\ \A g \in W : \/ entries[g].date < entries[found].date
                       \/ /\ entries[g].date = entries[found].date
                          /\ entries[g].joinedAt <= entries[found].joinedAt
  BY <1>11, <1>12 DEF FindForLookup, W
<1>14. found \in LookupTicket(v, entries[e].ticket, entries[e].phone)
  BY <1>1 DEF LookupTicket, W
<1> HIDE DEF found
<1>15. CASE entries[e].date < entries[found].date
  <2>1. /\ entries[e].date = serviceDate[v][entries[e].joinedAt]
        /\ entries[found].date = serviceDate[v][entries[found].joinedAt]
    BY <1>1, <1>2, <1>13 DEF DatedByJoin, ViewInv
  <2>2. ~(entries[found].joinedAt <= entries[e].joinedAt)
    <3> SUFFICES ASSUME entries[found].joinedAt <= entries[e].joinedAt PROVE FALSE
      OBVIOUS
    <3>1. entries[found].date <= entries[e].date
      BY <1>1, <1>2, <1>13, <2>1 DEF NeverBack
    <3> QED
      BY <1>1, <1>2, <1>13, <1>15, <3>1
  <2>3. entries[e].joinedAt < entries[found].joinedAt
    BY <1>1, <1>2, <1>13, <2>2
  <2> QED
    BY <1>1, <1>2, <1>13, <1>14, <2>3
<1>16. CASE entries[e].date = entries[found].date
  <2>1. found = e
    BY <1>1, <1>3, <1>13, <1>16
  <2>2. ~(entries[e].status \in ActiveStatuses /\ entries[e].status \in FinalStatuses)
    BY DEF ActiveStatuses, FinalStatuses
  <2>3. entries[e].joinedAt >= entries[e].joinedAt
    BY <1>1, <1>2
  <2> QED
    BY <1>14, <2>1, <2>2, <2>3
<1> QED
  BY <1>1, <1>13, <1>15, <1>16

-----------------------------------------------------------------------------
(* What a step may do to the places and the holds. *)

\* The action of HoldStaysExpired.
HoldStays ==
  \A e \in DOMAIN entries :
    HoldExpired(e) /\ entries'[e].status = "called" => HoldExpired(e)'

LEMMA HoldStep == ViewInv /\ [ViewNext]_viewVars => HoldStays
<1> SUFFICES ASSUME ViewInv, [ViewNext]_viewVars, NEW e \in DOMAIN entries,
                    HoldExpired(e), entries'[e].status = "called"
             PROVE  HoldExpired(e)'
  BY DEF HoldStays
<1>1. TypeOK /\ ViewTyped
  BY DEF ViewInv, Promises
<1>2. /\ clock' \in Times /\ clock <= clock'
      /\ KeepsPlaces \/ \E k, v, p, at : Joins(k, v, p, at)
  BY <1>1, ViewSteps
<1>3. entries[e].status = "called" /\ clock > entries[e].calledAt + HoldMinutes
  BY DEF HoldExpired
<1>4. entries'[e].calledAt = entries[e].calledAt
  <2>1. CASE KeepsPlaces
    BY <1>3, <2>1 DEF KeepsPlaces
  <2>2. ASSUME NEW k, NEW v, NEW p, NEW at, Joins(k, v, p, at)
        PROVE  entries'[e].calledAt = entries[e].calledAt
    BY <2>2, JoinedRow
  <2> QED
    BY <1>2, <2>1, <2>2
<1>5. /\ clock \in Nat /\ clock' \in Nat /\ HoldMinutes \in Nat
      /\ entries[e].calledAt \in Nat
  BY <1>1, <1>2, RowTypes, LedgerAssumption, ViewAssumption DEF ViewTyped
<1>6. clock' > entries'[e].calledAt + HoldMinutes
  BY <1>2, <1>3, <1>4, <1>5
<1> QED
  BY <1>6 DEF HoldExpired

\* The action of NobodyIsOvertaken.
NobodyOvertaken ==
  \A e \in DOMAIN entries :
    IsWaiting(e) /\ entries'[e].status = "waiting" /\ Position(e)' > Position(e)
    => /\ Position(e)' = Position(e) + 1
       /\ \E f \in DOMAIN entries' \ DOMAIN entries :
            entries'[f].joinedAt < entries[e].joinedAt

LEMMA PositionsCountNext == ViewInv' => PositionsCountWhoIsAhead'
BY PositionsCount, PTL

LEMMA AheadIsFinite ==
  ASSUME ViewInv, NEW e
  PROVE  IsFiniteSet(Ahead(e)) /\ Cardinality(Ahead(e)) \in Nat
<1>1. Ahead(e) \subseteq DOMAIN entries
  BY DEF Ahead, Waiting
<1> QED
  BY <1>1, KeysAreFinite, FS_Subset, FS_CardinalityType DEF ViewInv

\* Who is ahead after a step.
LEMMA AheadAfter ==
  ASSUME NEW e
  PROVE  /\ Ahead(e) = {f \in DOMAIN entries :
                          /\ entries[f].venue = entries[e].venue
                          /\ entries[f].status = "waiting"
                          /\ \/ entries[f].joinedAt < entries[e].joinedAt
                             \/ entries[f].joinedAt = entries[e].joinedAt /\ f < e}
         /\ Ahead(e)' = {f \in DOMAIN entries' :
                           /\ entries'[f].venue = entries'[e].venue
                           /\ entries'[f].status = "waiting"
                           /\ \/ entries'[f].joinedAt < entries'[e].joinedAt
                              \/ entries'[f].joinedAt = entries'[e].joinedAt /\ f < e}
BY DEF Ahead, Waiting, IsWaiting, Before

LEMMA OvertakingStep == ViewInv /\ [ViewNext]_viewVars => NobodyOvertaken
<1> SUFFICES ASSUME ViewInv, [ViewNext]_viewVars, NEW e \in DOMAIN entries,
                    IsWaiting(e), entries'[e].status = "waiting",
                    Position(e)' > Position(e)
             PROVE  /\ Position(e)' = Position(e) + 1
                    /\ \E f \in DOMAIN entries' \ DOMAIN entries :
                         entries'[f].joinedAt < entries[e].joinedAt
  BY DEF NobodyOvertaken
<1>1. TypeOK /\ ViewTyped
  BY DEF ViewInv, Promises
<1>2. KeepsPlaces \/ \E k, v, p, at : Joins(k, v, p, at)
  BY <1>1, ViewSteps
<1>3. ViewInv'
  BY ViewInvStep
<1>4. e \in DOMAIN entries'
  <2>1. CASE KeepsPlaces
    BY <2>1 DEF KeepsPlaces
  <2>2. ASSUME NEW k, NEW v, NEW p, NEW at, Joins(k, v, p, at)
        PROVE  e \in DOMAIN entries'
    BY <2>2, JoinedRow
  <2> QED
    BY <1>2, <2>1, <2>2
<1>5. Position(e) = Cardinality(Ahead(e)) + 1
  BY PositionsCount DEF PositionsCountWhoIsAhead
<1>6. Position(e)' = Cardinality(Ahead(e)') + 1
  <2>1. IsWaiting(e)'
    BY DEF IsWaiting
  <2> QED
    BY <1>3, <1>4, <2>1, PositionsCountNext DEF PositionsCountWhoIsAhead
<1>7. /\ IsFiniteSet(Ahead(e)) /\ Cardinality(Ahead(e)) \in Nat
  BY AheadIsFinite
<1>8. ~(Ahead(e)' \subseteq Ahead(e))
  <2> SUFFICES ASSUME Ahead(e)' \subseteq Ahead(e) PROVE FALSE
    OBVIOUS
  <2>1. Cardinality(Ahead(e)') <= Cardinality(Ahead(e)) /\ Cardinality(Ahead(e)') \in Nat
    BY <1>7, FS_Subset, FS_CardinalityType
  <2> QED
    BY <1>5, <1>6, <1>7, <2>1
<1>9. CASE KeepsPlaces
  <2>1. Ahead(e)' \subseteq Ahead(e)
    BY <1>9, AheadAfter DEF KeepsPlaces
  <2> QED
    BY <1>8, <2>1
<1>10. ASSUME NEW k, NEW v, NEW p, NEW at, Joins(k, v, p, at)
       PROVE  /\ Position(e)' = Position(e) + 1
              /\ \E f \in DOMAIN entries' \ DOMAIN entries :
                   entries'[f].joinedAt < entries[e].joinedAt
  <2>1. /\ DOMAIN entries' = DOMAIN entries \cup {k} /\ k \notin DOMAIN entries
        /\ \A x \in DOMAIN entries : entries'[x] = entries[x]
        /\ entries'[k].venue = v /\ entries'[k].joinedAt = at
    BY <1>10, JoinedRow
  <2>2. ~(k < e)
    <3>1. PICK n \in Nat : n = Cardinality(DOMAIN entries) /\ DOMAIN entries = 1 .. n
      BY <1>1, KeysAreFinite
    <3>2. k = n + 1
      BY <1>10, <3>1 DEF Joins
    <3>3. e \in 1 .. n /\ n \in Nat
      BY <3>1
    <3> QED
      BY <3>2, <3>3
  <2>3. Ahead(e) \subseteq Ahead(e)' /\ Ahead(e)' \subseteq Ahead(e) \cup {k}
    BY <2>1, AheadAfter
  <2>4. k \in Ahead(e)' /\ k \notin Ahead(e)
    BY <1>8, <2>1, <2>3, AheadAfter
  <2>5. Cardinality(Ahead(e)') = Cardinality(Ahead(e)) + 1
    <3>1. Ahead(e)' = Ahead(e) \cup {k}
      BY <2>3, <2>4
    <3> QED
      BY <1>7, <2>4, <3>1, FS_AddElement
  <2>6. entries'[k].joinedAt < entries[e].joinedAt
    BY <2>1, <2>2, <2>4, AheadAfter
  <2> QED
    BY <1>5, <1>6, <2>1, <2>5, <2>6
<1> QED
  BY <1>2, <1>9, <1>10

-----------------------------------------------------------------------------
(* What holds throughout. *)

\* Each step of the queue that the queries read is a step of the ledger or none
\* of its business: whatever the ledger promises holds under the queries.
THEOREM QueueFollowsTheLedger == ViewSpec => Spec
<1>1. ViewInit => Init
  BY DEF ViewInit
<1>2. ViewInv /\ [ViewNext]_viewVars => [Next]_vars
  BY ViewSteps DEF ViewInv, Promises
<1> QED
  BY <1>1, <1>2, ViewInvariance, PTL DEF ViewSpec, Spec

\* The rows keep their types, and everyone who waits has a position between 1
\* and the number of those the panel counts as waiting.
THEOREM EveryoneHasAPosition == ViewSpec => []ViewTypeOK
BY ViewInvariance, ViewTypes, PTL

\* The position compute_positions gives is one more than the diners of the venue
\* who wait and come before by joined_at and key.
THEOREM PositionIsThePlace == ViewSpec => []PositionsCountWhoIsAhead
BY ViewInvariance, PositionsCount, PTL

\* The rows of the panel and its summary add up to the numbers issued for the
\* service date.
THEOREM NoTicketIsLost == ViewSpec => []EveryTicketIsAccountedFor
BY ViewInvariance, TicketsAdd, PTL

\* As long as the venue's service date has not gone back, find_for_lookup answers
\* the last join among the entries that share a ticket and a phone.
THEOREM SearchAnswersTheLatest == ViewSpec => []LookupFindsTheMostRecent
BY ViewInvariance, SearchFinds, PTL

\* Only a join that read the clock before and committed after takes a place from
\* a diner who waits, and it takes one.
THEOREM PlacesAreKept == ViewSpec => NobodyIsOvertaken
<1>1. ViewInv /\ [ViewNext]_viewVars => [NobodyOvertaken]_viewVars
  BY OvertakingStep
<1>2. ViewSpec => [][NobodyOvertaken]_viewVars
  BY <1>1, ViewInvariance, PTL DEF ViewSpec
<1> QED
  BY <1>2 DEF NobodyIsOvertaken, NobodyOvertaken

\* A hold past its minutes is not started again by any later event of the entry.
THEOREM HoldsAreNotExtended == ViewSpec => HoldStaysExpired
<1>1. ViewInv /\ [ViewNext]_viewVars => [HoldStays]_viewVars
  BY HoldStep
<1>2. ViewSpec => [][HoldStays]_viewVars
  BY <1>1, ViewInvariance, PTL DEF ViewSpec
<1> QED
  BY <1>2 DEF HoldStaysExpired, HoldStays
=============================================================================
