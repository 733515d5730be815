---------------------------- MODULE RealtimeProofs ----------------------------
(***************************************************************************)
(* What the screens may rely on, for any number of diners, hosts and       *)
(* requests and any size of the queues.                                    *)
(***************************************************************************)
EXTENDS Realtime, FiniteSetTheorems, SequenceTheorems, WellFoundedInduction, TLAPS

-----------------------------------------------------------------------------
(* Induction over sets of naturals, and what the recursion of Details gives. *)

LEMMA LeastNat ==
  ASSUME NEW T, T \subseteq Nat, T # {}
  PROVE  \E n \in T : \A m \in T : n <= m
<1> DEFINE less == {p \in Nat \X Nat : p[1] < p[2]}
<1>1. IsWellFoundedOn(less, Nat)
  BY NatLessThanWellFounded DEF OpToRel
<1> HIDE DEF less
<1>2. \E n \in T : \A m \in T : ~(<<m, n>> \in less)
  BY <1>1, WFMin
<1>3. \A m, n \in Nat : ~(<<m, n>> \in less) => n <= m
  <2> TAKE m, n \in Nat
  <2>1. <<m, n>> \in Nat \X Nat /\ <<m, n>>[1] = m /\ <<m, n>>[2] = n
    OBVIOUS
  <2> QED
    BY <2>1 DEF less
<1> QED
  BY <1>2, <1>3

LEMMA SetInduction ==
  ASSUME NEW T, 0 \in T, \A n \in Nat : n \in T => n + 1 \in T
  PROVE  Nat \subseteq T
<1> SUFFICES ASSUME Nat \ T # {} PROVE FALSE
  OBVIOUS
<1>1. PICK n \in Nat \ T : \A m \in Nat \ T : n <= m
  BY LeastNat
<1>2. n # 0 /\ n - 1 \in Nat /\ n - 1 \in T
  BY <1>1
<1> QED
  BY <1>1, <1>2

\* The details of a queue are events of it, none of them a signal, and there
\* are no more of them than there were events.
LEMMA DetailsOfEvents ==
  ASSUME NEW S, NEW events \in Seq(S)
  PROVE  /\ Details(events) \in Seq(S \ {Signal})
         /\ Len(Details(events)) <= Len(events)
<1> DEFINE N == Len(events)
           After(t, n) == IF n = 0 THEN <<>>
                          ELSE IF events[n] = Signal THEN t[n - 1]
                          ELSE Append(t[n - 1], events[n])
           Among(t, k) == t = [n \in 0 .. k |-> After(t, n)]
<1>0. N \in Nat
  BY LenProperties
<1>1. \E t : Among(t, N)
  <2> DEFINE T == {k \in Nat : \E t : Among(t, k)}
  <2>1. 0 \in T
    <3>1. Among([n \in 0 .. 0 |-> <<>>], 0)
      OBVIOUS
    <3> QED
      BY <3>1
  <2>2. ASSUME NEW k \in Nat, k \in T
        PROVE  k + 1 \in T
    <3>1. PICK t : Among(t, k)
      BY <2>2
    <3> DEFINE u == [n \in 0 .. k + 1 |-> IF n = k + 1 THEN After(t, n) ELSE t[n]]
    <3>2. /\ u = [n \in 0 .. k + 1 |-> u[n]]
          /\ \A n \in 0 .. k : u[n] = t[n]
          /\ u[k + 1] = After(t, k + 1)
      <4> HIDE DEF After
      <4> QED
        OBVIOUS
    <3> HIDE DEF u
    <3>3. \A n \in 0 .. k + 1 : u[n] = After(t, n)
      <4> HIDE DEF After
      <4>1. \A n \in 0 .. k : t[n] = After(t, n)
        BY <3>1
      <4>2. ASSUME NEW n \in 0 .. k + 1
            PROVE  n \in 0 .. k \/ n = k + 1
        OBVIOUS
      <4> QED
        BY <3>2, <4>1, <4>2
    <3>4. \A n \in 0 .. k + 1 : After(t, n) = After(u, n)
      <4> SUFFICES ASSUME NEW n \in 0 .. k + 1, n # 0 PROVE t[n - 1] = u[n - 1]
        OBVIOUS
      <4>1. n - 1 \in 0 .. k
        OBVIOUS
      <4> QED
        BY <3>2, <4>1
    <3>5. Among(u, k + 1)
      <4> HIDE DEF After
      <4> QED
        BY <3>2, <3>3, <3>4
    <3> QED
      <4> HIDE DEF Among
      <4> QED
        BY <3>5
  <2> QED
    BY <1>0, <2>1, <2>2, SetInduction
<1> DEFINE F == CHOOSE t : Among(t, N)
<1>2. Among(F, N)
  BY <1>1
<1>3. Details(events) = F[N]
  BY DEF Details
<1> HIDE DEF F
<1>4. \A k \in Nat : k <= N => F[k] \in Seq(S \ {Signal}) /\ Len(F[k]) <= k
  <2> DEFINE T == {k \in Nat : k <= N => F[k] \in Seq(S \ {Signal}) /\ Len(F[k]) <= k}
  <2>1. 0 \in T
    BY <1>0, <1>2
  <2>2. ASSUME NEW k \in Nat, k \in T
        PROVE  k + 1 \in T
    <3>1. CASE k + 1 <= N
      <4>1. F[k] \in Seq(S \ {Signal}) /\ Len(F[k]) <= k
        BY <2>2, <3>1, <1>0
      <4>2. F[k + 1] = IF events[k + 1] = Signal THEN F[k] ELSE Append(F[k], events[k + 1])
        <5>1. F[k + 1] = After(F, k + 1)
          <6> HIDE DEF After
          <6> QED
            BY <1>0, <1>2, <3>1
        <5> QED
          BY <5>1
      <4>3. events[k + 1] \in S
        BY <1>0, <3>1, ElementOfSeq
      <4>4. CASE events[k + 1] = Signal
        BY <4>1, <4>2, <4>4
      <4>5. CASE events[k + 1] # Signal
        <5> DEFINE d == events[k + 1]
        <5>1. d \in S \ {Signal}
          BY <4>3, <4>5
        <5>2. F[k + 1] = Append(F[k], d)
          BY <4>2, <4>5
        <5> HIDE DEF d
        <5>3. Append(F[k], d) \in Seq(S \ {Signal}) /\ Len(Append(F[k], d)) = Len(F[k]) + 1
          BY <4>1, <5>1, AppendProperties
        <5>4. Len(F[k]) \in Nat
          BY <4>1, LenProperties
        <5>5. F[k + 1] \in Seq(S \ {Signal})
          BY <5>2, <5>3
        <5>6. Len(F[k + 1]) <= k + 1
          BY <4>1, <5>2, <5>3, <5>4
        <5> QED
          BY <5>5, <5>6
      <4> QED
        BY <4>4, <4>5
    <3> QED
      BY <3>1
  <2> QED
    BY <2>1, <2>2, SetInduction
<1> QED
  BY <1>0, <1>3, <1>4

-----------------------------------------------------------------------------
(* The inductive invariant. *)

Begun == {r \in Requests : stage[r] # "idle"}

\* The version counts the changes that requests and time have made, and each
\* request knows the one it made.
Counted ==
  /\ version \in Nat
  /\ silent \in 0 .. MaxSilent
  /\ stage \in [Requests -> {"idle", "committed", "announced", "lost"}]
  /\ version = silent + Cardinality(Begun)
  /\ change \in [Requests -> 0 .. version]
  /\ \A r \in Begun : change[r] # 0

\* Nothing that a stream holds comes from a later version than the list's.
Past ==
  /\ pc \in [Streams -> {"closed", "loading", "sending", "waiting", "feeding"}]
  /\ beats \in [Streams -> 0 .. RefreshEvery - 1]
  /\ queue \in [Streams -> Seq(0 .. version)]
  /\ batch \in [Streams -> Seq(1 .. version)]
  /\ feed \in [Streams -> Seq(1 .. version)]
  /\ read \in [Streams -> 0 .. version]
  /\ shown \in [Streams -> 0 .. version]

\* The broker's bound, which what is taken from a queue inherits.
Bounded ==
  \A s \in Streams : Len(queue[s]) <= QueueSize /\ Len(batch[s]) <= QueueSize

\* While it feeds, a generator has something to send.
Feeding == \A s \in Streams : pc[s] = "feeding" => batch[s] # <<>>

\* A load is as new as what the client has, before it is sent.
Fresh == \A s \in Streams : pc[s] = "sending" => shown[s] <= read[s]

\* What has been announced is on the screen, on its way to it, or signalled.
Signalled ==
  \A s \in Streams : queue[s] = <<>> =>
    \A r \in Requests : stage[r] = "announced" =>
      /\ pc[s] = "waiting" => change[r] <= shown[s]
      /\ pc[s] = "sending" => change[r] <= read[s]

\* What the client was noticed of is on the screen or on its way to it.
Backed ==
  \A s \in Streams : \A i \in 1 .. Len(feed[s]) :
    /\ pc[s] = "waiting" => feed[s][i] <= shown[s]
    /\ pc[s] = "sending" => feed[s][i] <= read[s]

Inv == Counted /\ Past /\ Bounded /\ Feeding /\ Fresh /\ Signalled /\ Backed

\* publish leaves a queue that holds an event and keeps to its capacity.
LEMMA PutKeepsBound ==
  ASSUME NEW S, NEW q \in Seq(S), Len(q) <= QueueSize, NEW e \in S
  PROVE  /\ PutDroppingOldest(q, e) \in Seq(S)
         /\ Len(PutDroppingOldest(q, e)) <= QueueSize
         /\ PutDroppingOldest(q, e) # <<>>
<1> DEFINE room == IF Len(q) = QueueSize THEN Tail(q) ELSE q
<1>0. QueueSize \in Nat \ {0} /\ Len(q) \in Nat
  BY RealtimeAssumption, LenProperties
<1>1. room \in Seq(S) /\ Len(room) \in Nat /\ Len(room) < QueueSize
  <2>1. CASE Len(q) = QueueSize
    <3>1. q # <<>>
      BY <1>0, <2>1, EmptySeq
    <3> QED
      BY <1>0, <2>1, <3>1, HeadTailProperties
  <2>2. CASE Len(q) # QueueSize
    BY <1>0, <2>2
  <2> QED
    BY <2>1, <2>2
<1>2. PutDroppingOldest(q, e) = Append(room, e)
  BY DEF PutDroppingOldest
<1> HIDE DEF room
<1>3. /\ Append(room, e) \in Seq(S)
      /\ Append(room, e) # <<>>
      /\ Len(Append(room, e)) = Len(room) + 1
  BY <1>1, AppendProperties
<1> QED
  BY <1>0, <1>1, <1>2, <1>3

LEMMA InvInit == Init => Inv
<1> SUFFICES ASSUME Init PROVE Inv
  OBVIOUS
<1> USE DEF Init
<1>1. Counted
  <2>1. Begun = {}
    BY DEF Begun
  <2>2. Cardinality(Begun) = 0
    BY <2>1, FS_EmptySet
  <2> QED
    BY <2>1, <2>2, RealtimeAssumption DEF Counted
<1>2. Past
  <2>1. <<>> \in Seq(0 .. version) /\ <<>> \in Seq(1 .. version)
    OBVIOUS
  <2>2. 0 \in 0 .. RefreshEvery - 1
    BY RealtimeAssumption
  <2> QED
    BY <2>1, <2>2 DEF Past
<1>3. Bounded
  BY EmptySeq, RealtimeAssumption DEF Bounded
<1>4. Feeding /\ Fresh /\ Signalled
  BY DEF Feeding, Fresh, Signalled
<1>5. Backed
  BY EmptySeq DEF Backed
<1> QED
  BY <1>1, <1>2, <1>3, <1>4, <1>5 DEF Inv

\* A new version leaves everything a stream holds in the past.
LEMMA PastGrows ==
  ASSUME Past, version \in Nat, version' \in Nat, version <= version',
         UNCHANGED <<stream, queue>>
  PROVE  Past'
<1>1. 0 .. version \subseteq 0 .. version' /\ 1 .. version \subseteq 1 .. version'
  OBVIOUS
<1>2. /\ Seq(0 .. version) \subseteq Seq(0 .. version')
      /\ Seq(1 .. version) \subseteq Seq(1 .. version')
  BY <1>1, SeqMonotonic
<1> QED
  BY <1>1, <1>2 DEF Past, stream

LEMMA CommitStep ==
  ASSUME Inv, NEW r \in Requests, Commit(r)
  PROVE  Inv'
<1> USE DEF Inv, Commit
<1>1. version' \in Nat /\ version <= version'
  BY DEF Counted
<1>2. Begun' = Begun \cup {r} /\ r \notin Begun
  BY DEF Begun, Counted
<1>3. Cardinality(Begun') = Cardinality(Begun) + 1 /\ Cardinality(Begun) \in Nat
  <2>1. IsFiniteSet(Begun)
    BY RealtimeAssumption, FS_Subset DEF Begun
  <2> QED
    BY <1>2, <2>1, FS_AddElement, FS_CardinalityType
<1>4. Counted'
  BY <1>1, <1>2, <1>3 DEF Counted
<1>5. Past'
  BY <1>1, PastGrows DEF Counted
<1>6. (Bounded /\ Feeding /\ Fresh /\ Backed)'
  BY DEF Bounded, Feeding, Fresh, Backed, stream
<1>7. Signalled'
  BY DEF Signalled, stream, Counted
<1> QED
  BY <1>4, <1>5, <1>6, <1>7

LEMMA AnnounceStep ==
  ASSUME Inv, NEW r \in Requests, Announce(r)
  PROVE  Inv'
<1> USE DEF Inv, Announce
<1>1. Begun' = Begun
  BY DEF Begun, Counted
<1>2. Counted'
  BY <1>1 DEF Counted
<1>3. ASSUME NEW s \in Streams, pc[s] # "closed"
      PROVE  /\ queue'[s] \in Seq(0 .. version)
             /\ Len(queue'[s]) <= QueueSize
             /\ queue'[s] # <<>>
  <2> DEFINE first == PutDroppingOldest(queue[s], Signal)
  <2>1. queue[s] \in Seq(0 .. version) /\ Len(queue[s]) <= QueueSize
    BY DEF Past, Bounded
  <2>2. Signal \in 0 .. version /\ change[r] \in 0 .. version
    BY DEF Signal, Counted
  <2>3. /\ first \in Seq(0 .. version) /\ Len(first) <= QueueSize
        /\ first # <<>>
    BY <2>1, <2>2, PutKeepsBound
  <2>4. queue'[s] = IF s \in Diners THEN first ELSE PutDroppingOldest(first, change[r])
    BY <1>3 DEF Subscribed
  <2> HIDE DEF first
  <2>5. CASE s \in Diners
    BY <2>3, <2>4, <2>5
  <2>6. CASE s \notin Diners
    BY <2>2, <2>3, <2>4, <2>6, PutKeepsBound
  <2> QED
    BY <2>5, <2>6
<1>4. ASSUME NEW s \in Streams, pc[s] = "closed"
      PROVE  queue'[s] = queue[s]
  BY <1>4 DEF Subscribed
<1>5. Past'
  <2>1. queue' \in [Streams -> Seq(0 .. version)]
    <3>1. DOMAIN queue' = Streams /\ queue' = [s \in Streams |-> queue'[s]]
      OBVIOUS
    <3>2. \A s \in Streams : queue'[s] \in Seq(0 .. version)
      BY <1>3, <1>4 DEF Past
    <3> QED
      BY <3>1, <3>2
  <2> QED
    BY <2>1 DEF Past, stream
<1>6. Bounded'
  BY <1>3, <1>4 DEF Bounded, stream
<1>7. (Feeding /\ Fresh /\ Backed)'
  BY DEF Feeding, Fresh, Backed, stream
<1>8. Signalled'
  BY <1>3 DEF Signalled, stream
<1> QED
  BY <1>2, <1>5, <1>6, <1>7, <1>8

LEMMA LoseAnnouncementStep ==
  ASSUME Inv, NEW r \in Requests, LoseAnnouncement(r)
  PROVE  Inv'
<1> USE DEF Inv, LoseAnnouncement
<1>1. Begun' = Begun
  BY DEF Begun, Counted
<1>2. Counted'
  BY <1>1 DEF Counted
<1>3. (Past /\ Bounded /\ Feeding /\ Fresh /\ Backed)'
  BY DEF Past, Bounded, Feeding, Fresh, Backed, stream
<1>4. Signalled'
  BY DEF Signalled, stream, Counted
<1> QED
  BY <1>2, <1>3, <1>4

LEMMA TimeChangesStep ==
  ASSUME Inv, TimeChanges
  PROVE  Inv'
<1> USE DEF Inv, TimeChanges
<1>1. Begun' = Begun
  BY DEF Begun
<1>2. Cardinality(Begun) \in Nat
  <2>1. IsFiniteSet(Begun)
    BY RealtimeAssumption, FS_Subset DEF Begun
  <2> QED
    BY <2>1, FS_CardinalityType
<1>3. version' \in Nat /\ version <= version' /\ silent' \in 0 .. MaxSilent
  BY RealtimeAssumption DEF Counted
<1>4. Counted'
  BY <1>1, <1>2, <1>3 DEF Counted
<1>5. Past'
  BY <1>3, PastGrows DEF Counted
<1>6. (Bounded /\ Feeding /\ Fresh /\ Signalled /\ Backed)'
  BY DEF Bounded, Feeding, Fresh, Signalled, Backed, stream
<1> QED
  BY <1>4, <1>5, <1>6

-----------------------------------------------------------------------------
(* The generators leave the requests alone, and each the other streams. *)

LEMMA CountedStays ==
  ASSUME Counted, UNCHANGED request
  PROVE  Counted'
BY DEF Counted, Begun, request

LEMMA OpenStep ==
  ASSUME Inv, NEW s \in Streams, Open(s)
  PROVE  Inv'
<1> USE DEF Inv, Open
<1>1. Counted'
  BY CountedStays
<1>2. Past'
  BY DEF Past, request
<1>3. (Bounded /\ Feeding /\ Fresh)'
  BY DEF Bounded, Feeding, Fresh, Past
<1>4. Signalled'
  BY DEF Signalled, Past, request
<1>5. Backed'
  BY DEF Backed, Past
<1> QED
  BY <1>1, <1>2, <1>3, <1>4, <1>5

\* A load sees every change announced before it.
LEMMA LoadStep ==
  ASSUME Inv, NEW s \in Streams, Load(s)
  PROVE  Inv'
<1> USE DEF Inv, Load
<1>1. Counted'
  BY CountedStays
<1>2. Past'
  BY DEF Past, request, Counted
<1>3. (Bounded /\ Feeding)'
  BY DEF Bounded, Feeding, Past
<1>4. Fresh'
  BY DEF Fresh, Past
<1>5. Signalled'
  BY DEF Signalled, Past, request, Counted
<1>6. Backed'
  <2> SUFFICES ASSUME NEW x \in Streams, NEW i \in 1 .. Len(feed[x])
               PROVE  /\ pc'[x] = "waiting" => feed[x][i] <= shown[x]
                      /\ pc'[x] = "sending" => feed[x][i] <= read'[x]
    BY DEF Backed
  <2>1. CASE x = s
    <3>1. feed[s][i] \in 1 .. version
      BY <2>1, ElementOfSeq DEF Past
    <3>2. pc'[s] = "sending" /\ read'[s] = version
      BY DEF Past
    <3> QED
      BY <2>1, <3>1, <3>2
  <2>2. CASE x # s
    BY <2>2 DEF Backed, Past
  <2> QED
    BY <2>1, <2>2
<1> QED
  BY <1>1, <1>2, <1>3, <1>4, <1>5, <1>6

LEMMA SendStateStep ==
  ASSUME Inv, NEW s \in Streams, SendState(s)
  PROVE  Inv'
<1> USE DEF Inv, SendState
<1>1. Counted'
  BY CountedStays
<1>2. Past'
  BY DEF Past, request
<1>3. (Bounded /\ Feeding /\ Fresh)'
  BY DEF Bounded, Feeding, Fresh, Past
<1>4. Signalled'
  BY DEF Signalled, Past, request
<1>5. Backed'
  BY DEF Backed, Past
<1> QED
  BY <1>1, <1>2, <1>3, <1>4, <1>5

LEMMA ReceiveStep ==
  ASSUME Inv, NEW s \in Streams, Receive(s)
  PROVE  Inv'
<1> DEFINE taken == Details(queue[s])
<1>0. /\ queue' = [queue EXCEPT ![s] = <<>>]
      /\ batch' = [batch EXCEPT ![s] = taken]
      /\ pc' = [pc EXCEPT ![s] = IF taken = <<>> THEN "loading" ELSE "feeding"]
      /\ UNCHANGED <<request, beats, read, shown, feed>>
  BY DEF Receive
<1> USE DEF Inv
<1>1. Counted'
  BY <1>0, CountedStays
<1>2. taken \in Seq(1 .. version) /\ Len(taken) <= QueueSize
  <2>1. queue[s] \in Seq(0 .. version) /\ Len(queue[s]) <= QueueSize
    BY DEF Past, Bounded
  <2>2. taken \in Seq((0 .. version) \ {Signal}) /\ Len(taken) <= Len(queue[s])
    BY <2>1, DetailsOfEvents
  <2>3. (0 .. version) \ {Signal} = 1 .. version
    BY DEF Signal, Counted
  <2>4. Len(taken) \in Nat /\ Len(queue[s]) \in Nat /\ QueueSize \in Nat
    BY <2>1, <2>2, LenProperties, RealtimeAssumption
  <2> HIDE DEF taken
  <2>5. taken \in Seq(1 .. version)
    BY <2>2, <2>3
  <2> QED
    BY <2>1, <2>2, <2>4, <2>5
<1> HIDE DEF taken
<1>3. Past'
  <2>1. <<>> \in Seq(0 .. version)
    OBVIOUS
  <2> QED
    BY <1>0, <1>2, <2>1 DEF Past, request
<1>4. Bounded'
  BY <1>0, <1>2, EmptySeq, RealtimeAssumption DEF Bounded, Past
<1>5. (Feeding /\ Fresh)'
  BY <1>0 DEF Feeding, Fresh, Past
<1>6. Signalled'
  BY <1>0 DEF Signalled, Past, request
<1>7. Backed'
  BY <1>0 DEF Backed, Past
<1> QED
  BY <1>1, <1>3, <1>4, <1>5, <1>6, <1>7

LEMMA SendFeedStep ==
  ASSUME Inv, NEW s \in Streams, SendFeed(s)
  PROVE  Inv'
<1> USE DEF Inv, SendFeed
<1>0. /\ batch[s] \in Seq(1 .. version) /\ batch[s] # <<>>
      /\ feed[s] \in Seq(1 .. version)
  BY DEF Past, Feeding
<1>1. /\ Head(batch[s]) \in 1 .. version
      /\ Tail(batch[s]) \in Seq(1 .. version)
      /\ Len(Tail(batch[s])) = Len(batch[s]) - 1
      /\ Len(batch[s]) \in Nat \ {0}
      /\ Append(feed[s], Head(batch[s])) \in Seq(1 .. version)
  <2>1. /\ Head(batch[s]) \in 1 .. version
        /\ Tail(batch[s]) \in Seq(1 .. version)
        /\ Len(Tail(batch[s])) = Len(batch[s]) - 1
    BY <1>0, HeadTailProperties
  <2>2. Len(batch[s]) \in Nat \ {0}
    BY <1>0, EmptySeq
  <2>3. Append(feed[s], Head(batch[s])) \in Seq(1 .. version)
    BY <1>0, <2>1, AppendProperties
  <2> QED
    BY <2>1, <2>2, <2>3
<1>2. Counted'
  BY CountedStays
<1>3. Past'
  BY <1>1 DEF Past, request
<1>4. Bounded'
  BY <1>1, RealtimeAssumption DEF Bounded, Past
<1>5. Feeding'
  <2>1. ASSUME Len(batch[s]) # 1
        PROVE  Tail(batch[s]) # <<>>
    <3>1. Len(Tail(batch[s])) # 0
      BY <1>1, <2>1
    <3> QED
      BY <3>1, EmptySeq
  <2> QED
    BY <2>1 DEF Feeding, Past
<1>6. (Fresh /\ Signalled)'
  BY DEF Fresh, Signalled, Past, request
<1>7. Backed'
  BY DEF Backed, Past
<1> QED
  BY <1>2, <1>3, <1>4, <1>5, <1>6, <1>7

LEMMA TimeoutStep ==
  ASSUME Inv, NEW s \in Streams, Timeout(s)
  PROVE  Inv'
<1> USE DEF Inv, Timeout
<1>1. Counted'
  BY CountedStays
<1>2. Past'
  <2>1. (beats[s] + 1) % RefreshEvery \in 0 .. RefreshEvery - 1
    BY RealtimeAssumption DEF Past
  <2> QED
    BY <2>1 DEF Past, request
<1>3. (Bounded /\ Feeding /\ Fresh)'
  BY DEF Bounded, Feeding, Fresh, Past
<1>4. Signalled'
  BY DEF Signalled, Past, request
<1>5. Backed'
  BY DEF Backed, Past
<1> QED
  BY <1>1, <1>2, <1>3, <1>4, <1>5

LEMMA CloseStep ==
  ASSUME Inv, NEW s \in Streams, Close(s)
  PROVE  Inv'
<1> USE DEF Inv, Close
<1>1. Counted'
  BY CountedStays
<1>2. Past'
  <2>1. <<>> \in Seq(0 .. version) /\ <<>> \in Seq(1 .. version)
    OBVIOUS
  <2>2. 0 \in 0 .. RefreshEvery - 1 /\ 0 \in 0 .. version
    BY RealtimeAssumption DEF Counted
  <2> QED
    BY <2>1, <2>2 DEF Past, request
<1>3. Bounded'
  BY EmptySeq, RealtimeAssumption DEF Bounded, Past
<1>4. (Feeding /\ Fresh)'
  BY DEF Feeding, Fresh, Past
<1>5. Signalled'
  BY DEF Signalled, Past, request
<1>6. Backed'
  BY EmptySeq DEF Backed, Past
<1> QED
  BY <1>1, <1>2, <1>3, <1>4, <1>5, <1>6

LEMMA InvStep == Inv /\ [Next]_vars => Inv'
<1> SUFFICES ASSUME Inv, [Next]_vars PROVE Inv'
  OBVIOUS
<1>1. ASSUME NEW r \in Requests, Commit(r) \/ Announce(r) \/ LoseAnnouncement(r)
      PROVE  Inv'
  BY <1>1, CommitStep, AnnounceStep, LoseAnnouncementStep
<1>2. CASE TimeChanges
  BY <1>2, TimeChangesStep
<1>3. ASSUME NEW s \in Streams, Open(s) \/ Work(s) \/ Timeout(s) \/ Close(s)
      PROVE  Inv'
  BY <1>3, OpenStep, LoadStep, SendStateStep, ReceiveStep, SendFeedStep,
     TimeoutStep, CloseStep DEF Work
<1>4. CASE UNCHANGED vars
  BY <1>4 DEF vars, Inv, Counted, Begun, Past, Bounded, Feeding, Fresh, Signalled, Backed
<1> QED
  BY <1>1, <1>2, <1>3, <1>4 DEF Next

-----------------------------------------------------------------------------
(* The theorems. *)

LEMMA Invariance == Spec => []Inv
BY InvInit, InvStep, PTL DEF Spec

\* Types, and no queue of the broker ever holds more than its capacity, for any
\* number of subscribers and of changes.
THEOREM RealtimeTypeCorrect == Spec => []TypeOK
<1>1. ASSUME Inv PROVE TypeOK
  <2> USE DEF Inv
  <2>1. Cardinality(Begun) \in Nat /\ Cardinality(Begun) <= Cardinality(Requests)
        /\ Cardinality(Requests) \in Nat
    BY RealtimeAssumption, FS_Subset, FS_CardinalityType DEF Begun
  <2>2. version \in Versions
    BY <1>1, <2>1, RealtimeAssumption DEF Counted, Versions
  <2>3. /\ 0 .. version \subseteq Versions
        /\ 0 .. version \subseteq Changes \cup {Signal}
        /\ 1 .. version \subseteq Changes
    BY <2>1, <2>2, RealtimeAssumption DEF Versions, Changes, Signal
  <2>4. /\ Seq(0 .. version) \subseteq Seq(Changes \cup {Signal})
        /\ Seq(1 .. version) \subseteq Seq(Changes)
    BY <2>3, SeqMonotonic
  <2>5. change \in [Requests -> Versions] /\ read \in [Streams -> Versions]
        /\ shown \in [Streams -> Versions]
    BY <1>1, <2>3 DEF Counted, Past
  <2> QED
    BY <1>1, <2>2, <2>4, <2>5 DEF TypeOK, Counted, Past, Bounded
<1> QED
  BY <1>1, Invariance, PTL

\* A stream that has nothing to read has shown every announced change, whatever
\* the order in which requests commit, announce and fail and streams subscribe,
\* load, send and time out, and however small the queues are.
THEOREM NoAnnouncementIsMissed == Spec => []NothingAnnouncedIsMissed
<1>1. Inv => NothingAnnouncedIsMissed
  BY DEF Inv, Signalled, NothingAnnouncedIsMissed, Announced
<1> QED
  BY <1>1, Invariance, PTL

\* A notice on the host's panel is followed by a list at least as new.
THEOREM NoticesAreBacked == Spec => []FeedIsBackedByTheList
<1>1. Inv => FeedIsBackedByTheList
  BY DEF Inv, Backed, FeedIsBackedByTheList, Streams
<1> QED
  BY <1>1, Invariance, PTL

\* No step takes a connected screen back to an older state.
THEOREM ScreensGoForward == Spec => ShownGoesForward
<1>1. ASSUME Inv, Next, NEW s \in Streams, pc'[s] # "closed"
      PROVE  shown'[s] >= shown[s]
  <2> USE DEF Inv
  <2>1. shown[s] \in Nat /\ read[s] \in Nat
    BY <1>1 DEF Past, Counted
  <2>2. CASE UNCHANGED shown
    BY <2>1, <2>2
  <2>3. CASE \E x \in Streams : SendState(x)
    BY <1>1, <2>1, <2>3 DEF SendState, Past, Fresh
  <2>4. CASE \E x \in Streams : Close(x)
    BY <1>1, <2>1, <2>4 DEF Close, Past
  <2> QED
    BY <1>1, <2>2, <2>3, <2>4 DEF Next, Work, Commit, Announce, LoseAnnouncement,
       TimeChanges, Open, Load, Receive, SendFeed, Timeout, stream
<1>2. Inv /\ [Next]_vars =>
        [\A s \in Streams : pc'[s] # "closed" => shown'[s] >= shown[s]]_vars
  BY <1>1
<1> QED
  BY <1>2, Invariance, PTL DEF Spec, ShownGoesForward
=============================================================================
