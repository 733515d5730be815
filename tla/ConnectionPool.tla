---------------------------- MODULE ConnectionPool ----------------------------
(***************************************************************************)
(* The connections of the engine (app/database.py) and who holds one. A    *)
(* session takes a connection for its first statement and gives it back    *)
(* when its transaction ends. A request has one session for all its use    *)
(* cases (get_session, WaitlistServices); a stream first validates in the  *)
(* session of its request, releases it, and opens a short session for each *)
(* refresh (WaitlistServicesFactory.open), as long as its client stays.    *)
(* A transaction may also wait for a row that another one has locked.      *)
(***************************************************************************)
EXTENDS Naturals, FiniteSets

CONSTANTS
  Requests,          \* requests that are answered and end
  Streams,           \* clients that follow the list; each may come again
  PoolSize,          \* connections the engine may open: pool and overflow
  MaxTransactions,   \* bound: transactions of a request
  MaxRestarts,       \* bound: restarts of the database
  Nobody

Tasks    == Requests \cup Streams

\* The session of a request (get_session), and a short one of a stream (open).
RequestSession(t) == <<t, "request">>
ShortSession(t)   == <<t, "short">>
SessionsOf(t) == {RequestSession(t)} \cup {ShortSession(s) : s \in Streams \cap {t}}
Sessions      == UNION {SessionsOf(t) : t \in Tasks}

ASSUME PoolAssumption ==
  /\ Requests \cap Streams = {} /\ Nobody \notin Tasks
  /\ IsFiniteSet(Tasks)
  /\ PoolSize \in Nat \ {0} /\ MaxTransactions \in Nat \ {0} /\ MaxRestarts \in Nat

VARIABLES
  pc,         \* what each task is doing
  left,       \* transactions each task may still begin
  waiting,    \* the sessions that wait for a connection
  lent,       \* the sessions that have one
  dead,       \* those whose connection the database closed
  row,        \* who has locked the row all of them may want
  restarts

vars == <<pc, left, waiting, lent, dead, row, restarts>>

States == {"new", "working", "locking", "locked", "open", "loading", "ended", "failed"}

TypeOK ==
  /\ pc \in [Tasks -> States]
  /\ left \in [Tasks -> 0 .. MaxTransactions]
  /\ waiting \subseteq Sessions
  /\ lent \subseteq Sessions /\ Cardinality(lent) <= PoolSize
  /\ dead \subseteq lent
  /\ row \in Tasks \cup {Nobody}
  /\ restarts \in 0 .. MaxRestarts

Init ==
  /\ pc = [t \in Tasks |-> "new"]
  /\ left = [t \in Tasks |-> 0]
  /\ waiting = {} /\ lent = {} /\ dead = {}
  /\ row = Nobody
  /\ restarts = 0

-----------------------------------------------------------------------------
(* Sessions and connections. *)

Works(session) == session \in lent \ dead

Goto(t, state) == pc' = [pc EXCEPT ![t] = state]

\* The pool lends a connection to a session that waits for one. It tries it
\* first (pool_pre_ping), and opens another if the database has closed it.
Checkout(session) ==
  /\ session \in waiting
  /\ Cardinality(lent) < PoolSize
  /\ waiting' = waiting \ {session}
  /\ lent' = lent \cup {session}
  /\ UNCHANGED <<pc, left, dead, row, restarts>>

\* Fault: a session that is closed while it waits or works keeps its place.
LeavesItsPlace(sessions) ==
  /\ lent' = lent /\ dead' = dead
  /\ waiting' = waiting \ sessions

\* Fault: a closed session is still marked as broken.
KeepsTheMark(sessions) ==
  /\ lent' = lent \ sessions /\ dead' = dead
  /\ waiting' = waiting \ sessions

\* The sessions of a task are closed: their connections go back.
Close(sessions) ==
  /\ lent' = lent \ sessions
  /\ dead' = dead \ sessions
  /\ waiting' = waiting \ sessions

Unlock(t) == row' = IF row = t THEN Nobody ELSE row

\* A task that fails, or whose client goes, leaves every async with it is in.
Leave(t, state) ==
  /\ Goto(t, state)
  /\ Close(SessionsOf(t))
  /\ Unlock(t)
  /\ UNCHANGED <<left, restarts>>

-----------------------------------------------------------------------------
(* Requests, and the part of a stream that is one. *)

\* The first statement. A client of a stream may come again.
Start(t) ==
  /\ pc[t] \in IF t \in Streams THEN {"new", "ended", "failed"} ELSE {"new"}
  /\ Goto(t, "working")
  /\ \E n \in 0 .. MaxTransactions - 1 : left' = [left EXCEPT ![t] = n]
  /\ waiting' = waiting \cup {RequestSession(t)}
  /\ UNCHANGED <<lent, dead, row, restarts>>

\* SELECT ... FOR UPDATE, the upsert, or a unique index another one claims.
WantRow(t) ==
  /\ t \in Requests /\ pc[t] = "working" /\ Works(RequestSession(t))
  /\ Goto(t, "locking")
  /\ UNCHANGED <<left, waiting, lent, dead, row, restarts>>

LockRow(t) ==
  /\ pc[t] = "locking" /\ Works(RequestSession(t)) /\ row = Nobody
  /\ Goto(t, "locked")
  /\ row' = t
  /\ UNCHANGED <<left, waiting, lent, dead, restarts>>

\* A commit, when statements follow: the touch of a host's session before its
\* action, or the action before the answer is read.
CommitAndGoOn(t) ==
  /\ pc[t] \in {"working", "locked"} /\ Works(RequestSession(t))
  /\ left[t] > 0
  /\ left' = [left EXCEPT ![t] = @ - 1]
  /\ Goto(t, "working")
  /\ lent' = lent \ {RequestSession(t)}
  /\ waiting' = waiting \cup {RequestSession(t)}
  /\ Unlock(t)
  /\ UNCHANGED <<dead, restarts>>

\* The answer: get_session closes the session.
Answer(t) ==
  /\ t \in Requests /\ pc[t] \in {"working", "locked"} /\ Works(RequestSession(t))
  /\ left[t] = 0
  /\ Leave(t, "ended")

\* Fault: the endpoint opens the stream with the session of its request.
KeepSession(t) == UNCHANGED <<lent, dead, waiting>>

\* release_session, once the stream is known to be allowed.
ReleaseSession(t) == Close({RequestSession(t)})

OpenStream(t) ==
  /\ t \in Streams /\ pc[t] = "working" /\ Works(RequestSession(t))
  /\ left[t] = 0
  /\ ReleaseSession(t)
  /\ Goto(t, "open")
  /\ UNCHANGED <<left, row, restarts>>

\* A stream that is not allowed (404, 403) is answered as a request.
RefuseStream(t) ==
  /\ t \in Streams /\ pc[t] = "working" /\ Works(RequestSession(t))
  /\ left[t] = 0
  /\ Leave(t, "ended")

-----------------------------------------------------------------------------
(* Streams. *)

\* load: a short session, at the start, for each signal and now and then.
Refresh(t) ==
  /\ pc[t] = "open"
  /\ Goto(t, "loading")
  /\ waiting' = waiting \cup {ShortSession(t)}
  /\ UNCHANGED <<left, lent, dead, row, restarts>>

Loaded(t) ==
  /\ pc[t] = "loading" /\ Works(ShortSession(t))
  /\ Goto(t, "open")
  /\ Close({ShortSession(t)})
  /\ UNCHANGED <<left, row, restarts>>

\* The client goes, whatever the generator is doing.
Disconnect(t) == pc[t] \in {"open", "loading"} /\ Leave(t, "ended")

-----------------------------------------------------------------------------
(* What goes wrong. *)

\* pool_timeout: no connection came in time.
PoolTimeout(t) ==
  /\ SessionsOf(t) \cap waiting # {}
  /\ Cardinality(lent) = PoolSize
  /\ Leave(t, "failed")

\* The database restarts: its connections and their locks are gone.
RestartDatabase ==
  /\ restarts < MaxRestarts
  /\ restarts' = restarts + 1
  /\ dead' = lent
  /\ row' = Nobody
  /\ UNCHANGED <<pc, left, waiting, lent>>

\* The next statement on a connection that was closed.
StatementFails(t) == SessionsOf(t) \cap dead # {} /\ Leave(t, "failed")

\* What a task does once it has a connection, and does without anyone's leave.
Proceed(t) ==
  \/ CommitAndGoOn(t) \/ Answer(t)
  \/ OpenStream(t) \/ RefuseStream(t) \/ Loaded(t)
  \/ StatementFails(t)

Next ==
  \/ \E s \in Sessions : Checkout(s)
  \/ \E t \in Tasks : \/ Start(t) \/ WantRow(t) \/ LockRow(t) \/ Proceed(t)
                      \/ Refresh(t) \/ Disconnect(t) \/ PoolTimeout(t)
  \/ RestartDatabase

Spec == Init /\ [][Next]_vars

\* The pool serves its waiters in order, InnoDB those of a row, and a task that
\* can go on does. Nobody is obliged to come, to go, or to give up waiting.
FairSpec ==
  /\ Spec
  /\ \A t \in Requests : SF_vars(Checkout(RequestSession(t))) /\ SF_vars(LockRow(t))
  /\ \A t \in Tasks : WF_vars(Proceed(t))

-----------------------------------------------------------------------------
(* Properties. *)

\* No task waits for a connection while it has another: tasks that did would
\* wait for each other once the pool is empty.
NobodyWaitsHoldingOne ==
  \A t \in Tasks : SessionsOf(t) \cap waiting # {} => SessionsOf(t) \cap lent = {}

\* A connection is out only with a task that is using it: not with a stream
\* between two refreshes, and not with one that ended, failed or lost its client.
LentToWhoWorks ==
  \A t \in Tasks : SessionsOf(t) \cap lent # {} =>
    pc[t] \in {"working", "locking", "locked", "loading"}

\* A request that began is answered or fails, with every stream open for as long
\* as its client likes, and with requests that wait for each other's rows while
\* they hold a connection each.
EveryRequestIsServed ==
  \A t \in Requests : pc[t] = "working" ~> pc[t] \in {"ended", "failed"}
=============================================================================
