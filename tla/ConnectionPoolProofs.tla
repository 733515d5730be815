------------------------- MODULE ConnectionPoolProofs -------------------------
(***************************************************************************)
(* For any tasks, any size of the pool and any number of transactions and  *)
(* restarts: no task waits for a connection while it has one, and none is  *)
(* out with a task that does not use it. The invariant says what a session *)
(* that waits or works tells of its task.                                  *)
(***************************************************************************)
EXTENDS ConnectionPool, FiniteSetTheorems, TLAPS

\* No session waits for the connection it has.
Apart == waiting \cap lent = {}

\* A session waits or works only while its task is in the code that uses it.
InUse ==
  /\ \A t \in Tasks : RequestSession(t) \in waiting \cup lent =>
       pc[t] \in {"working", "locking", "locked"}
  /\ \A t \in Streams : ShortSession(t) \in waiting \cup lent => pc[t] = "loading"

\* Only streams follow a list.
Followers == \A t \in Tasks : pc[t] \in {"open", "loading"} => t \in Streams

IInv == TypeOK /\ Apart /\ InUse /\ Followers

-----------------------------------------------------------------------------
(* Sessions. *)

\* The sessions of a task are that of its request and, of a stream, the short one.
LEMMA SessionsOfATask ==
  ASSUME NEW t \in Tasks
  PROVE  /\ SessionsOf(t) \subseteq Sessions
         /\ RequestSession(t) \in SessionsOf(t)
         /\ t \in Streams => ShortSession(t) \in SessionsOf(t)
         /\ \A s \in SessionsOf(t) :
              s = RequestSession(t) \/ (t \in Streams /\ s = ShortSession(t))
BY DEF SessionsOf, Sessions

\* No session is of two tasks, and the two of a stream differ.
LEMMA SessionsDiffer ==
  ASSUME NEW t, NEW u
  PROVE  /\ RequestSession(t) = RequestSession(u) => t = u
         /\ ShortSession(t) = ShortSession(u) => t = u
         /\ RequestSession(t) # ShortSession(u)
BY DEF RequestSession, ShortSession

\* The connections lent are finitely many.
LEMMA SessionsAreFinite == IsFiniteSet(Sessions)
<1>1. IsFiniteSet({"request", "short"})
  <2>1. IsFiniteSet({"request"})
    BY FS_Singleton
  <2>2. IsFiniteSet({"request"} \cup {"short"})
    BY <2>1, FS_AddElement
  <2> QED BY <2>2, {"request", "short"} = {"request"} \cup {"short"}
<1>2. IsFiniteSet(Tasks \X {"request", "short"})
  BY <1>1, FS_Product, PoolAssumption
<1>3. Sessions \subseteq Tasks \X {"request", "short"}
  BY DEF Sessions, SessionsOf, RequestSession, ShortSession, Tasks
<1> QED BY <1>2, <1>3, FS_Subset

\* Giving connections back keeps the pool within its size.
LEMMA FewerAreLent ==
  ASSUME TypeOK, NEW S \in SUBSET lent
  PROVE  Cardinality(S) <= PoolSize
<1>1. IsFiniteSet(lent)
  BY SessionsAreFinite, FS_Subset DEF TypeOK
<1>2. IsFiniteSet(S) /\ Cardinality(S) <= Cardinality(lent)
  BY <1>1, FS_Subset
<1>3. Cardinality(S) \in Nat /\ Cardinality(lent) \in Nat
  BY <1>1, <1>2, FS_CardinalityType
<1> QED BY <1>2, <1>3, PoolAssumption DEF TypeOK

-----------------------------------------------------------------------------
(* One lemma per kind of step. *)

LEMMA InvInit == Init => IInv
<1> SUFFICES ASSUME Init PROVE IInv
  OBVIOUS
<1>1. Cardinality(lent) <= PoolSize
  BY FS_EmptySet, PoolAssumption DEF Init
<1>2. TypeOK
  BY <1>1, PoolAssumption DEF Init, TypeOK, States
<1> QED BY <1>2 DEF Init, IInv, Apart, InUse, Followers

\* The pool lends a connection.
LEMMA InvCheckout ==
  ASSUME IInv, NEW s \in Sessions, Checkout(s)
  PROVE  IInv'
<1> USE DEF IInv, Checkout
<1>1. Cardinality(lent \cup {s}) <= PoolSize
  <2>1. IsFiniteSet(lent)
    BY SessionsAreFinite, FS_Subset DEF TypeOK
  <2>2. Cardinality(lent) \in Nat
    BY <2>1, FS_CardinalityType
  <2>3. Cardinality(lent \cup {s}) = Cardinality(lent) + 1
    BY <2>1, FS_AddElement DEF Apart
  <2> QED BY <2>2, <2>3, PoolAssumption
<1>2. TypeOK'
  BY <1>1 DEF TypeOK
<1>3. Apart' /\ InUse' /\ Followers'
  BY DEF Apart, InUse, Followers
<1> QED BY <1>2, <1>3

\* A task fails or ends, and gives back what it has.
LEMMA InvLeave ==
  ASSUME IInv, NEW t \in Tasks, NEW state \in {"ended", "failed"}, Leave(t, state)
  PROVE  IInv'
<1> USE DEF IInv, Leave, Goto, Close, Unlock
<1>1. TypeOK'
  BY FewerAreLent DEF TypeOK, States
<1>2. Apart' /\ Followers'
  BY DEF Apart, Followers, TypeOK
<1>3. InUse'
  BY SessionsOfATask DEF InUse, TypeOK, Tasks
<1> QED BY <1>1, <1>2, <1>3

\* A request begins.
LEMMA InvStart ==
  ASSUME IInv, NEW t \in Tasks, Start(t)
  PROVE  IInv'
<1> USE DEF IInv, Start, Goto
<1>1. RequestSession(t) \notin waiting \cup lent
  BY DEF InUse
<1>2. RequestSession(t) \in Sessions
  BY SessionsOfATask
<1>3. TypeOK'
  BY <1>2, PoolAssumption DEF TypeOK, States
<1>4. Apart' /\ Followers'
  BY <1>1 DEF Apart, Followers, TypeOK
<1>5. InUse'
  BY SessionsDiffer DEF InUse, TypeOK, Tasks
<1> QED BY <1>3, <1>4, <1>5

\* A request wants a row, or locks it.
LEMMA InvRow ==
  ASSUME IInv, NEW t \in Tasks, WantRow(t) \/ LockRow(t)
  PROVE  IInv'
<1> USE DEF IInv, WantRow, LockRow, Goto
<1>1. TypeOK'
  BY DEF TypeOK, States
<1>2. Apart' /\ Followers'
  BY DEF Apart, Followers, TypeOK
<1>3. InUse'
  BY PoolAssumption DEF InUse, TypeOK, Tasks, Works
<1> QED BY <1>1, <1>2, <1>3

\* A task commits and takes another connection.
LEMMA InvCommit ==
  ASSUME IInv, NEW t \in Tasks, CommitAndGoOn(t)
  PROVE  IInv'
<1> USE DEF IInv, CommitAndGoOn, Goto, Unlock, Works
<1>1. RequestSession(t) \in Sessions
  BY SessionsOfATask
<1>2. TypeOK'
  <2>1. Cardinality(lent') <= PoolSize
    BY FewerAreLent
  <2>2. left' \in [Tasks -> 0 .. MaxTransactions]
    BY PoolAssumption DEF TypeOK
  <2> QED BY <1>1, <2>1, <2>2 DEF TypeOK, States
<1>3. Apart' /\ Followers'
  BY DEF Apart, Followers, TypeOK
<1>4. InUse'
  BY SessionsDiffer DEF InUse, TypeOK, Tasks
<1> QED BY <1>2, <1>3, <1>4

\* A stream is opened, refreshed, or has its refresh.
LEMMA InvStream ==
  ASSUME IInv, NEW t \in Tasks, OpenStream(t) \/ Refresh(t) \/ Loaded(t)
  PROVE  IInv'
<1> USE DEF IInv
<1>1. CASE OpenStream(t)
  <2> USE <1>1 DEF OpenStream, ReleaseSession, Close, Goto
  <2>1. TypeOK'
    BY FewerAreLent DEF TypeOK, States
  <2>2. Apart' /\ Followers'
    BY DEF Apart, Followers, TypeOK
  <2>3. InUse'
    BY DEF InUse, TypeOK, Tasks
  <2> QED BY <2>1, <2>2, <2>3
<1>2. CASE Refresh(t)
  <2> USE <1>2 DEF Refresh, Goto
  <2>1. t \in Streams /\ ShortSession(t) \in Sessions
    BY SessionsOfATask DEF Followers
  <2>2. TypeOK'
    BY <2>1 DEF TypeOK, States
  <2>3. Apart' /\ Followers'
    BY <2>1 DEF Apart, Followers, InUse, TypeOK
  <2>4. InUse'
    BY <2>1, SessionsDiffer DEF InUse, TypeOK, Tasks
  <2> QED BY <2>2, <2>3, <2>4
<1>3. CASE Loaded(t)
  <2> USE <1>3 DEF Loaded, Close, Goto
  <2>1. TypeOK'
    BY FewerAreLent DEF TypeOK, States
  <2>2. Apart' /\ Followers'
    BY DEF Apart, Followers, TypeOK
  <2>3. InUse'
    BY SessionsDiffer DEF InUse, TypeOK, Tasks
  <2> QED BY <2>1, <2>2, <2>3
<1> QED BY <1>1, <1>2, <1>3

\* The database restarts.
LEMMA InvRestart ==
  ASSUME IInv, RestartDatabase
  PROVE  IInv'
<1> USE DEF IInv, RestartDatabase
<1>1. TypeOK'
  BY PoolAssumption DEF TypeOK
<1>2. Apart' /\ InUse' /\ Followers'
  BY DEF Apart, InUse, Followers
<1> QED BY <1>1, <1>2

-----------------------------------------------------------------------------
(* The invariant, and what it says. *)

LEMMA InvNext == IInv /\ [Next]_vars => IInv'
<1> SUFFICES ASSUME IInv, [Next]_vars PROVE IInv'
  OBVIOUS
<1>1. CASE \E s \in Sessions : Checkout(s)
  BY <1>1, InvCheckout
<1>2. ASSUME NEW t \in Tasks, Start(t) PROVE IInv'
  BY <1>2, InvStart
<1>3. ASSUME NEW t \in Tasks, WantRow(t) \/ LockRow(t) PROVE IInv'
  BY <1>3, InvRow
<1>4. ASSUME NEW t \in Tasks, CommitAndGoOn(t) PROVE IInv'
  BY <1>4, InvCommit
<1>5. ASSUME NEW t \in Tasks,
             OpenStream(t) \/ Refresh(t) \/ Loaded(t)
      PROVE  IInv'
  BY <1>5, InvStream
<1>6. ASSUME NEW t \in Tasks,
             \/ Answer(t) \/ RefuseStream(t) \/ StatementFails(t)
             \/ Disconnect(t) \/ PoolTimeout(t)
      PROVE  IInv'
  BY <1>6, InvLeave DEF Answer, RefuseStream, StatementFails, Disconnect, PoolTimeout
<1>7. CASE RestartDatabase
  BY <1>7, InvRestart
<1>8. CASE UNCHANGED vars
  BY <1>8 DEF vars, IInv, TypeOK, Apart, InUse, Followers
<1> QED BY <1>1, <1>2, <1>3, <1>4, <1>5, <1>6, <1>7, <1>8 DEF Next, Proceed

LEMMA InvAlways == Spec => []IInv
BY InvInit, InvNext, PTL DEF Spec

\* Every session that waits or works belongs to a known task, and the pool never
\* lends more than it may open, for any tasks and any size of the pool.
THEOREM PoolTypeCorrect == Spec => []TypeOK
<1>1. IInv => TypeOK
  BY DEF IInv
<1> QED BY <1>1, InvAlways, PTL

\* No task waits for a connection while it holds one: a pool that is empty is
\* never waiting for itself.
THEOREM NoHoldAndWait == Spec => []NobodyWaitsHoldingOne
<1>1. IInv => NobodyWaitsHoldingOne
  BY SessionsOfATask DEF IInv, NobodyWaitsHoldingOne, Apart, InUse
<1> QED BY <1>1, InvAlways, PTL

\* A stream between two refreshes, and a task that ended, failed or lost its
\* client, has no connection.
THEOREM ConnectionsAreInUse == Spec => []LentToWhoWorks
<1>1. IInv => LentToWhoWorks
  BY SessionsOfATask DEF IInv, LentToWhoWorks, InUse
<1> QED BY <1>1, InvAlways, PTL
=============================================================================
