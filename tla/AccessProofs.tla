----------------------------- MODULE AccessProofs -----------------------------
(***************************************************************************)
(* Who is let in, for any number of accounts, tablets and addresses: what  *)
(* the sessions of module Auth keep, and what the limiter before them does.*)
(***************************************************************************)
EXTENDS Auth, RateLimiter, SequenceTheorems, FiniteSetTheorems,
        WellFoundedInduction, TLAPS

-----------------------------------------------------------------------------
(* Sessions: the inductive invariant. *)

Workers == Calls \cup Logouts

\* The tables: a session is there once its login is done, and nobody uses it
\* before it was opened.
Rows ==
  /\ DOMAIN sessions \subseteq Logins
  /\ sessions = [t \in DOMAIN sessions |-> sessions[t]]
  /\ \A t \in DOMAIN sessions :
       /\ sessions[t] \in Session
       /\ sessions[t].createdAt <= sessions[t].usedAt
       /\ pc[t] = "done"
  /\ users \in [Users -> User]
  /\ clock \in Times

\* The requests: one that has not begun or has ended holds nothing.
Copies ==
  /\ pc \in [Requests -> Ended \cup {"idle", "verify", "insert", "stamp", "save", "commit"}]
  /\ target \in [Requests -> Users \cup Logins \cup {NoTarget}]
  /\ seen \in [Requests -> Session \cup User \cup {NoCopy}]
  /\ draft \in [Requests -> Session \cup {NoCopy}]
  /\ \A r \in Requests :
       /\ pc[r] \in Ended \cup {"idle"} => seen[r] = NoCopy /\ draft[r] = NoCopy
       /\ pc[r] = "idle" => target[r] = NoTarget

\* A login holds the row of its user, then the session it is to open for it.
LoginsHold ==
  \A r \in Logins :
    /\ pc[r] # "save"
    /\ pc[r] \in {"verify", "insert", "stamp", "commit"} =>
         target[r] \in Users /\ seen[r] \in User
    /\ pc[r] \in {"insert", "stamp", "commit"} =>
         /\ draft[r] \in Session
         /\ draft[r].user = target[r]
         /\ draft[r].createdAt = draft[r].usedAt

\* A request that is to update a session holds one that it read unrevoked, and
\* its draft is of the same login.
WorkersHold ==
  \A r \in Workers :
    /\ pc[r] \notin {"verify", "insert", "stamp"}
    /\ pc[r] \in {"save", "commit"} =>
         /\ target[r] \in DOMAIN sessions
         /\ seen[r] \in Session /\ draft[r] \in Session
         /\ draft[r].user = sessions[target[r]].user
         /\ draft[r].createdAt = sessions[target[r]].createdAt
         /\ draft[r].createdAt <= draft[r].usedAt
         /\ seen[r].revokedAt = NoTime
         /\ r \in Logouts => draft[r].revokedAt # NoTime

\* The row of a session has one writer, who keeps it revoked when it is.
OneWriter ==
  \A r \in Workers : pc[r] = "commit" =>
    /\ \A q \in Workers : pc[q] = "commit" /\ target[q] = target[r] => q = r
    /\ sessions[target[r]].revokedAt # NoTime => draft[r].revokedAt # NoTime

\* A logout that was answered has revoked its session.
LoggedOut ==
  \A q \in Logouts : pc[q] = "done" /\ target[q] # NoTarget =>
    target[q] \in DOMAIN sessions /\ sessions[target[q]].revokedAt # NoTime

AuthInv ==
  Rows /\ Copies /\ LoginsHold /\ WorkersHold /\ OneWriter /\ LoggedOut
    /\ LoginLeavesBothOrNeither

-----------------------------------------------------------------------------
(* The steps that leave the tables alone. *)

\* A request that has begun ends unanswered, and what it held goes.
LEMMA EndStep ==
  ASSUME AuthInv, NEW r \in Requests, NEW how \in Ended \ {"done"},
         pc[r] \notin Ended, End(r, how),
         UNCHANGED <<sessions, users, clock, target>>
  PROVE  AuthInv'
<1> USE AuthAssumption DEF AuthInv, Go, End, Requests, Workers, Ended
<1>1. Rows'
  BY DEF Rows, Copies
<1>2. Copies'
  BY DEF Copies, Rows, Tokens
<1>3. LoginsHold'
  BY DEF LoginsHold, Copies, Rows
<1>4. WorkersHold'
  BY DEF WorkersHold, Copies
<1>5. OneWriter'
  BY DEF OneWriter, Copies, WorkersHold
<1>6. LoggedOut'
  BY DEF LoggedOut, Copies, Tokens
<1>7. LoginLeavesBothOrNeither'
  BY DEF LoginLeavesBothOrNeither
<1> QED
  BY <1>1, <1>2, <1>3, <1>4, <1>5, <1>6, <1>7

\* A call or a logout is answered at once.
LEMMA AnswerStep ==
  ASSUME AuthInv, NEW r \in Workers, NEW t \in Tokens, NEW how \in Ended,
         pc[r] = "idle", target' = [target EXCEPT ![r] = t], End(r, how),
         r \in Logouts /\ t \in DOMAIN sessions => sessions[t].revokedAt # NoTime,
         UNCHANGED <<sessions, users, clock>>
  PROVE  AuthInv'
<1> USE AuthAssumption DEF AuthInv, Go, End, Requests, Workers, Ended
<1>1. Rows'
  BY DEF Rows, Copies
<1>2. Copies'
  BY DEF Copies, Rows, Tokens
<1>3. LoginsHold'
  BY DEF LoginsHold, Copies, Rows
<1>4. WorkersHold'
  BY DEF WorkersHold, Copies
<1>5. OneWriter'
  BY DEF OneWriter, Copies, WorkersHold
<1>6. LoggedOut'
  BY DEF LoggedOut, Copies, Tokens
<1>7. LoginLeavesBothOrNeither'
  BY DEF LoginLeavesBothOrNeither
<1> QED
  BY <1>1, <1>2, <1>3, <1>4, <1>5, <1>6, <1>7

LEMMA LoginStartStep ==
  ASSUME AuthInv, NEW r \in Logins, NEW u \in Users, LoginStart(r, u)
  PROVE  AuthInv'
<1> USE AuthAssumption DEF AuthInv, LoginStart, Go, Requests, Workers, Ended
<1>1. Rows'
  BY DEF Rows, Copies
<1>2. Copies'
  BY DEF Copies, Rows, Tokens
<1>3. LoginsHold'
  BY DEF LoginsHold, Copies, Rows
<1>4. WorkersHold'
  BY DEF WorkersHold, Copies
<1>5. OneWriter'
  BY DEF OneWriter, Copies, WorkersHold
<1>6. LoggedOut'
  BY DEF LoggedOut, Copies, Tokens
<1>7. LoginLeavesBothOrNeither'
  BY DEF LoginLeavesBothOrNeither
<1> QED
  BY <1>1, <1>2, <1>3, <1>4, <1>5, <1>6, <1>7

\* A login waits for the lock of its next statement, and gets it.
LEMMA LockStep ==
  ASSUME AuthInv, NEW r \in Requests, InsertSession(r) \/ StampUser(r)
  PROVE  AuthInv'
<1> USE AuthAssumption DEF AuthInv, InsertSession, StampUser, Go, Requests, Workers, Ended
<1>1. Rows'
  BY DEF Rows, Copies
<1>2. Copies'
  BY DEF Copies, Rows, Tokens
<1>3. LoginsHold'
  BY DEF LoginsHold, Copies, Rows
<1>4. WorkersHold'
  BY DEF WorkersHold, Copies
<1>5. OneWriter'
  BY DEF OneWriter, Copies, WorkersHold
<1>6. LoggedOut'
  BY DEF LoggedOut, Copies, Tokens
<1>7. LoginLeavesBothOrNeither'
  BY DEF LoginLeavesBothOrNeither
<1> QED
  BY <1>1, <1>2, <1>3, <1>4, <1>5, <1>6, <1>7

\* Its account's session is drafted when the password was right.
LEMMA LoginVerifiedStep ==
  ASSUME AuthInv, NEW r \in Requests, LoginVerified(r)
  PROVE  AuthInv'
<1> USE AuthAssumption DEF AuthInv, LoginVerified, Go, Requests, Workers, Ended
<1>1. Rows'
  BY DEF Rows, Copies
<1>2. Copies'
  <2>1. r \in Logins /\ target[r] \in Users
    BY DEF LoginsHold, WorkersHold
  <2>2. draft'[r] \in Session
    BY <2>1 DEF Copies, Rows, Session, Times, NoTime
  <2> QED
    BY <2>2 DEF Copies, Rows
<1>3. LoginsHold'
  <2>1. r \in Logins /\ target[r] \in Users
    BY DEF LoginsHold, WorkersHold
  <2>2. draft'[r] \in Session /\ draft'[r].user = target[r] /\ draft'[r].createdAt = draft'[r].usedAt
    BY <2>1 DEF Copies, Rows, Session, Times, NoTime
  <2> QED
    BY <2>1, <2>2 DEF LoginsHold, Copies, Rows
<1>4. WorkersHold'
  BY DEF WorkersHold, Copies
<1>5. OneWriter'
  BY DEF OneWriter, Copies, WorkersHold
<1>6. LoggedOut'
  BY DEF LoggedOut, Copies, Tokens
<1>7. LoginLeavesBothOrNeither'
  BY DEF LoginLeavesBothOrNeither
<1> QED
  BY <1>1, <1>2, <1>3, <1>4, <1>5, <1>6, <1>7

\* The new row is drafted from the one that was read.
LEMMA CallTouchesStep ==
  ASSUME AuthInv, NEW r \in Calls, NEW t \in Tokens, CallTouches(r, t)
  PROVE  AuthInv'
<1> USE AuthAssumption DEF AuthInv, CallTouches, Go, Requests, Workers, Ended
<1>0. /\ t \in DOMAIN sessions /\ t \in Logins
      /\ seen'[r] = sessions[t] /\ sessions[t] \in Session
      /\ sessions[t].revokedAt = NoTime
      /\ draft'[r] \in Session
      /\ draft'[r].user = sessions[t].user /\ draft'[r].createdAt = sessions[t].createdAt
      /\ draft'[r].createdAt <= draft'[r].usedAt
      /\ r \in Logouts => draft'[r].revokedAt # NoTime
  <2>1. t \in DOMAIN sessions /\ sessions[t] \in Session /\ sessions[t].revokedAt = NoTime
        /\ sessions[t].createdAt <= sessions[t].usedAt
    BY DEF Rows, LetsIn
  <2>2. seen'[r] = sessions[t] /\ draft'[r] = [sessions[t] EXCEPT !.usedAt = clock]
    BY DEF Copies
  <2>3. clock \in Times /\ NoTime \notin Times
    BY DEF Rows, Times, NoTime
  <2> QED
    BY <2>1, <2>2, <2>3 DEF Rows, Session, Times
<1>1. Rows'
  BY DEF Rows, Copies
<1>2. Copies'
  BY <1>0 DEF Copies, Rows, Tokens
<1>3. LoginsHold'
  BY DEF LoginsHold, Copies, Rows
<1>4. WorkersHold'
  BY <1>0 DEF WorkersHold, Copies
<1>5. OneWriter'
  BY DEF OneWriter, Copies, WorkersHold
<1>6. LoggedOut'
  BY DEF LoggedOut, Copies, Tokens
<1>7. LoginLeavesBothOrNeither'
  BY DEF LoginLeavesBothOrNeither
<1> QED
  BY <1>1, <1>2, <1>3, <1>4, <1>5, <1>6, <1>7

\* The new row is drafted from the one that was read.
LEMMA LogoutStartStep ==
  ASSUME AuthInv, NEW r \in Logouts, NEW t \in Tokens, LogoutStart(r, t)
  PROVE  AuthInv'
<1> USE AuthAssumption DEF AuthInv, LogoutStart, Go, Requests, Workers, Ended
<1>0. /\ t \in DOMAIN sessions /\ t \in Logins
      /\ seen'[r] = sessions[t] /\ sessions[t] \in Session
      /\ sessions[t].revokedAt = NoTime
      /\ draft'[r] \in Session
      /\ draft'[r].user = sessions[t].user /\ draft'[r].createdAt = sessions[t].createdAt
      /\ draft'[r].createdAt <= draft'[r].usedAt
      /\ r \in Logouts => draft'[r].revokedAt # NoTime
  <2>1. t \in DOMAIN sessions /\ sessions[t] \in Session /\ sessions[t].revokedAt = NoTime
        /\ sessions[t].createdAt <= sessions[t].usedAt
    BY DEF Rows, LetsIn
  <2>2. seen'[r] = sessions[t] /\ draft'[r] = [sessions[t] EXCEPT !.revokedAt = clock]
    BY DEF Copies
  <2>3. clock \in Times /\ NoTime \notin Times
    BY DEF Rows, Times, NoTime
  <2> QED
    BY <2>1, <2>2, <2>3 DEF Rows, Session, Times
<1>1. Rows'
  BY DEF Rows, Copies
<1>2. Copies'
  BY <1>0 DEF Copies, Rows, Tokens
<1>3. LoginsHold'
  BY DEF LoginsHold, Copies, Rows
<1>4. WorkersHold'
  BY <1>0 DEF WorkersHold, Copies
<1>5. OneWriter'
  BY DEF OneWriter, Copies, WorkersHold
<1>6. LoggedOut'
  BY DEF LoggedOut, Copies, Tokens
<1>7. LoginLeavesBothOrNeither'
  BY DEF LoginLeavesBothOrNeither
<1> QED
  BY <1>1, <1>2, <1>3, <1>4, <1>5, <1>6, <1>7

-----------------------------------------------------------------------------
(* The steps that write. *)

\* What an UPDATE of a session leaves in the row: the identity of the current
\* row, and a revocation when it or the draft brings one.
LEMMA DirtyColumnsRow ==
  ASSUME NEW old \in Session, NEW new \in Session, NEW current \in Session,
         new.user = current.user, new.createdAt = current.createdAt,
         new.createdAt <= new.usedAt, current.createdAt <= current.usedAt,
         old.revokedAt = NoTime
  PROVE  LET row == DirtyColumns(old, new, current) IN
         /\ row \in Session
         /\ row.user = current.user /\ row.createdAt = current.createdAt
         /\ row.createdAt <= row.usedAt
         /\ new.revokedAt # NoTime \/ current.revokedAt # NoTime
              => row.revokedAt # NoTime
BY DEF DirtyColumns, Session

LEMMA SaveSessionStep ==
  ASSUME AuthInv, NEW r \in Requests, SaveSession(r)
  PROVE  AuthInv'
<1> USE AuthAssumption DEF AuthInv, SaveSession, Go, Requests, Workers, Ended
<1> DEFINE t   == target[r]
           row == DirtyColumns(seen[r], draft[r], sessions[t])
<1>0. /\ r \in Workers /\ t \in DOMAIN sessions
      /\ draft' = [draft EXCEPT ![r] = row]
      /\ row \in Session
      /\ row.user = sessions[t].user /\ row.createdAt = sessions[t].createdAt
      /\ row.createdAt <= row.usedAt
      /\ sessions[t].revokedAt # NoTime => row.revokedAt # NoTime
      /\ r \in Logouts => row.revokedAt # NoTime
  <2>1. r \in Workers
    BY DEF LoginsHold
  <2>2. /\ t \in DOMAIN sessions
        /\ seen[r] \in Session /\ draft[r] \in Session
        /\ draft[r].user = sessions[t].user
        /\ draft[r].createdAt = sessions[t].createdAt
        /\ draft[r].createdAt <= draft[r].usedAt
        /\ seen[r].revokedAt = NoTime
        /\ r \in Logouts => draft[r].revokedAt # NoTime
    BY <2>1 DEF WorkersHold
  <2>3. sessions[t] \in Session /\ sessions[t].createdAt <= sessions[t].usedAt
    BY <2>2 DEF Rows
  <2> QED
    BY <2>1, <2>2, <2>3, DirtyColumnsRow DEF Copies
<1> HIDE DEF row
<1>1. Rows'
  BY <1>0 DEF Rows, Copies
<1>2. Copies'
  BY <1>0 DEF Copies
<1>3. LoginsHold'
  BY <1>0 DEF LoginsHold, Copies
<1>4. WorkersHold'
  BY <1>0 DEF WorkersHold, Copies
<1>5. OneWriter'
  <2>1. \A q \in Workers : ~(pc[q] = "commit" /\ target[q] = t)
    BY DEF SavesSession
  <2> QED
    BY <1>0, <2>1 DEF OneWriter, Copies, WorkersHold
<1>6. LoggedOut'
  BY DEF LoggedOut, Copies
<1>7. LoginLeavesBothOrNeither'
  BY DEF LoginLeavesBothOrNeither
<1> QED
  BY <1>1, <1>2, <1>3, <1>4, <1>5, <1>6, <1>7

LEMMA SessionCommitStep ==
  ASSUME AuthInv, NEW r \in Requests, SessionCommit(r)
  PROVE  AuthInv'
<1> USE AuthAssumption DEF AuthInv, SessionCommit, Go, End, Requests, Workers, Ended
<1> DEFINE t == target[r]
<1>0. /\ r \in Workers /\ t \in DOMAIN sessions /\ t \in Logins
      /\ draft[r] \in Session
      /\ draft[r].user = sessions[t].user
      /\ draft[r].createdAt = sessions[t].createdAt
      /\ draft[r].createdAt <= draft[r].usedAt
      /\ r \in Logouts => draft[r].revokedAt # NoTime
      /\ sessions[t].revokedAt # NoTime => draft[r].revokedAt # NoTime
  BY DEF WorkersHold, OneWriter, Rows
<1>1. DOMAIN sessions' = DOMAIN sessions
  BY DEF Rows
<1>2. \A x \in DOMAIN sessions : sessions'[x] = IF x = t THEN draft[r] ELSE sessions[x]
  BY DEF Rows
<1>3. Rows'
  <2>1. sessions' = [x \in DOMAIN sessions' |-> sessions'[x]]
    BY DEF Rows
  <2> QED
    BY <1>0, <1>1, <1>2, <2>1 DEF Rows, Copies
<1>4. Copies'
  BY DEF Copies
<1>5. LoginsHold'
  BY <1>0 DEF LoginsHold, Copies
<1>6. WorkersHold'
  BY <1>0, <1>1, <1>2 DEF WorkersHold, Copies
<1>7. OneWriter'
  BY <1>0, <1>2 DEF OneWriter, Copies, WorkersHold
<1>8. LoggedOut'
  BY <1>0, <1>1, <1>2 DEF LoggedOut, Copies
<1>9. LoginLeavesBothOrNeither'
  <2>1. \A x \in DOMAIN sessions : /\ sessions'[x].user = sessions[x].user
                                   /\ sessions'[x].createdAt = sessions[x].createdAt
    BY <1>0, <1>2
  <2> QED
    BY <1>1, <2>1 DEF LoginLeavesBothOrNeither
<1> QED
  BY <1>3, <1>4, <1>5, <1>6, <1>7, <1>8, <1>9

LEMMA LoginCommitStep ==
  ASSUME AuthInv, NEW r \in Requests, LoginCommit(r)
  PROVE  AuthInv'
<1> USE AuthAssumption DEF AuthInv, LoginCommit, Go, End, Requests, Workers, Ended
<1> DEFINE u == target[r]
<1>0. /\ r \in Logins /\ u \in Users
      /\ draft[r] \in Session /\ draft[r].user = u
      /\ draft[r].createdAt <= draft[r].usedAt
      /\ r \notin DOMAIN sessions
  <2>1. draft[r].createdAt \in Nat
    BY DEF LoginsHold, Session, Times
  <2> QED
    BY <2>1 DEF LoginsHold, Rows
<1>1. DOMAIN sessions' = DOMAIN sessions \cup {r}
  OBVIOUS
<1>2. sessions'[r] = draft[r] /\ \A x \in DOMAIN sessions : sessions'[x] = sessions[x]
  BY <1>0
<1>3. /\ users' \in [Users -> User]
      /\ users'[u].lastLoginAt = draft[r].createdAt
      /\ draft[r].createdAt # NoTime
      /\ \A v \in Users : v # u => users'[v] = users[v]
  BY <1>0 DEF Rows, Stamped, User, Session, Times, NoTime
<1>4. Rows'
  BY <1>0, <1>1, <1>2, <1>3 DEF Rows, Copies
<1>5. Copies'
  BY DEF Copies
<1>6. LoginsHold'
  BY <1>0 DEF LoginsHold, Copies
<1>7. WorkersHold'
  BY <1>0, <1>1, <1>2 DEF WorkersHold, Copies
<1>8. OneWriter'
  BY <1>0, <1>2 DEF OneWriter, Copies, WorkersHold
<1>9. LoggedOut'
  BY <1>0, <1>1, <1>2 DEF LoggedOut, Copies
<1>10. LoginLeavesBothOrNeither'
  <2>1. \A t \in DOMAIN sessions' : users'[sessions'[t].user].lastLoginAt # NoTime
    <3>1. \A t \in DOMAIN sessions : sessions[t].user \in Users
      BY DEF Rows, Session
    <3> QED
      BY <1>0, <1>1, <1>2, <1>3, <3>1 DEF LoginLeavesBothOrNeither
  <2>2. \A v \in Users : users'[v].lastLoginAt # NoTime =>
          \E t \in DOMAIN sessions' :
            sessions'[t].user = v /\ sessions'[t].createdAt = users'[v].lastLoginAt
    BY <1>0, <1>1, <1>2, <1>3 DEF LoginLeavesBothOrNeither
  <2> QED
    BY <2>1, <2>2 DEF LoginLeavesBothOrNeither
<1> QED
  BY <1>4, <1>5, <1>6, <1>7, <1>8, <1>9, <1>10

LEMMA CloseAccountStep ==
  ASSUME AuthInv, NEW u \in Users, CloseAccount(u)
  PROVE  AuthInv'
<1> USE AuthAssumption DEF AuthInv, CloseAccount
<1>1. /\ users' \in [Users -> User]
      /\ \A v \in Users : users'[v].lastLoginAt = users[v].lastLoginAt
  BY DEF Rows, User
<1>2. Rows'
  BY <1>1 DEF Rows
<1>3. (Copies /\ LoginsHold /\ WorkersHold /\ OneWriter /\ LoggedOut)'
  BY DEF Copies, LoginsHold, WorkersHold, OneWriter, LoggedOut
<1>4. LoginLeavesBothOrNeither'
  <2>1. \A t \in DOMAIN sessions : sessions[t].user \in Users
    BY DEF Rows, Session
  <2> QED
    BY <1>1, <2>1 DEF LoginLeavesBothOrNeither
<1> QED
  BY <1>2, <1>3, <1>4

LEMMA TickStep ==
  ASSUME AuthInv, Tick
  PROVE  AuthInv'
<1> USE AuthAssumption DEF AuthInv, Tick
<1>1. Rows'
  BY DEF Rows, Times
<1>2. (Copies /\ LoginsHold /\ WorkersHold /\ OneWriter /\ LoggedOut)'
  BY DEF Copies, LoginsHold, WorkersHold, OneWriter, LoggedOut
<1>3. LoginLeavesBothOrNeither'
  BY DEF LoginLeavesBothOrNeither
<1> QED
  BY <1>1, <1>2, <1>3

LEMMA AuthInit == Init => AuthInv
<1> SUFFICES ASSUME Init PROVE AuthInv
  OBVIOUS
<1> USE AuthAssumption DEF Init, Requests, Workers, Ended
<1>1. Rows
  BY DEF Rows, User, Times, NoTime
<1>2. Copies
  BY DEF Copies
<1>3. LoginsHold /\ WorkersHold /\ OneWriter /\ LoggedOut
  BY DEF LoginsHold, WorkersHold, OneWriter, LoggedOut
<1>4. LoginLeavesBothOrNeither
  BY DEF LoginLeavesBothOrNeither, NoTime
<1> QED
  BY <1>1, <1>2, <1>3, <1>4 DEF AuthInv

LEMMA AuthStep == AuthInv /\ [Next]_vars => AuthInv'
<1> SUFFICES ASSUME AuthInv, [Next]_vars PROVE AuthInv'
  OBVIOUS
<1>1. ASSUME NEW r \in Logins, NEW u \in Users, LoginStart(r, u)
      PROVE  AuthInv'
  BY <1>1, LoginStartStep
<1>2. ASSUME NEW r \in Calls, NEW t \in Tokens,
             CallRefused(r, t) \/ CallGranted(r, t) \/ CallTouches(r, t)
      PROVE  AuthInv'
  <2>1. r \in Workers /\ r \notin Logouts
    BY AuthAssumption DEF Workers
  <2>2. CASE CallRefused(r, t)
    BY <2>1, <2>2, AnswerStep DEF CallRefused, Ended
  <2>3. CASE CallGranted(r, t)
    BY <2>1, <2>3, AnswerStep DEF CallGranted, Ended
  <2> QED
    BY <1>2, <2>2, <2>3, CallTouchesStep
<1>3. ASSUME NEW r \in Logouts, NEW t \in Tokens,
             LogoutNothing(r, t) \/ LogoutStart(r, t)
      PROVE  AuthInv'
  <2>1. CASE LogoutNothing(r, t)
    BY <2>1, AnswerStep DEF LogoutNothing, Ended, Workers
  <2> QED
    BY <1>3, <2>1, LogoutStartStep
<1>4. ASSUME NEW r \in Requests, Proceed(r)
      PROVE  AuthInv'
  <2>1. CASE LoginRefused(r)
    BY <2>1, EndStep DEF LoginRefused, Ended
  <2>2. CASE DeadlockVictim(r)
    BY <2>2, EndStep DEF DeadlockVictim, Ended
  <2> QED
    BY <1>4, <2>1, <2>2, LoginVerifiedStep, LockStep, LoginCommitStep,
       SaveSessionStep, SessionCommitStep DEF Proceed
<1>5. ASSUME NEW r \in Requests, Abort(r)
      PROVE  AuthInv'
  BY <1>5, EndStep DEF Abort, Ended
<1>6. ASSUME NEW u \in Users, CloseAccount(u)
      PROVE  AuthInv'
  BY <1>6, CloseAccountStep
<1>7. CASE Tick
  BY <1>7, TickStep
<1>8. CASE UNCHANGED vars
  BY <1>8 DEF vars, AuthInv, Rows, Copies, LoginsHold, WorkersHold, OneWriter,
     LoggedOut, LoginLeavesBothOrNeither
<1> QED
  BY <1>1, <1>2, <1>3, <1>4, <1>5, <1>6, <1>7, <1>8 DEF Next

LEMMA AuthInvariance == Spec => []AuthInv
BY AuthInit, AuthStep, PTL DEF Spec

-----------------------------------------------------------------------------
(* Sessions: the theorems. *)

\* Types; no session is used before it was opened, and a request that has ended
\* keeps nothing of its transaction, however it ended.
THEOREM AuthTypeCorrect == Spec => []TypeOK
<1>1. AuthInv => TypeOK
  BY DEF AuthInv, Rows, Copies, TypeOK
<1> QED
  BY <1>1, AuthInvariance, PTL

\* The session of a login and the time stamped on its account are there
\* together or not at all, through deadlocks, failures and other logins.
THEOREM LoginsAreWhole == Spec => []LoginLeavesBothOrNeither
<1>1. AuthInv => LoginLeavesBothOrNeither
  BY DEF AuthInv
<1> QED
  BY <1>1, AuthInvariance, PTL

\* Once a logout has been answered its session lets nobody in, whatever the
\* calls that had read it before go on to write.
THEOREM LogoutIsFinal == Spec => LoggedOutStaysOut
<1> DEFINE LoggedOutCall(r, q) ==
      /\ pc[q] = "done" /\ target[q] # NoTarget
      /\ pc[r] = "idle" /\ target'[r] = target[q]
<1>1. ASSUME AuthInv, Next, NEW r \in Calls, NEW q \in Logouts, LoggedOutCall(r, q)
      PROVE  pc'[r] = "refused"
  <2> USE AuthAssumption DEF AuthInv, Requests
  <2>1. target[r] = NoTarget /\ target'[r] # target[r]
    BY <1>1 DEF Copies
  <2>2. target[q] \in DOMAIN sessions /\ sessions[target[q]].revokedAt # NoTime
    BY <1>1 DEF LoggedOut
  <2>3. PICK t \in Tokens : CallRefused(r, t) \/ CallGranted(r, t) \/ CallTouches(r, t)
    <3>1. ASSUME target' = target
          PROVE  FALSE
      BY <2>1, <3>1
    <3>2. ASSUME NEW x \in Requests, x # r, NEW v, target' = [target EXCEPT ![x] = v]
          PROVE  FALSE
      BY <2>1, <3>2 DEF Copies
    <3>3. ASSUME NEW x \in Logins, NEW u \in Users, LoginStart(x, u)
          PROVE  FALSE
      BY <3>2, <3>3 DEF LoginStart
    <3>4. ASSUME NEW x \in Calls, x # r, NEW t \in Tokens,
                 CallRefused(x, t) \/ CallGranted(x, t) \/ CallTouches(x, t)
          PROVE  FALSE
      BY <3>2, <3>4 DEF CallRefused, CallGranted, CallTouches
    <3>5. ASSUME NEW x \in Logouts, NEW t \in Tokens, LogoutNothing(x, t) \/ LogoutStart(x, t)
          PROVE  FALSE
      BY <3>2, <3>5 DEF LogoutNothing, LogoutStart
    <3>6. ASSUME NEW x \in Requests, Proceed(x) \/ Abort(x)
          PROVE  FALSE
      BY <3>1, <3>6 DEF Proceed, Abort, LoginRefused, LoginVerified, InsertSession,
         StampUser, DeadlockVictim, LoginCommit, SaveSession, SessionCommit
    <3>7. ASSUME Tick \/ \E u \in Users : CloseAccount(u)
          PROVE  FALSE
      BY <3>1, <3>7 DEF Tick, CloseAccount
    <3> QED
      BY <1>1, <3>3, <3>4, <3>5, <3>6, <3>7 DEF Next
  <2>4. t = target[q]
    BY <1>1, <2>3 DEF CallRefused, CallGranted, CallTouches, Copies
  <2>5. ~LetsIn(t)
    BY <2>2, <2>4 DEF LetsIn
  <2> QED
    BY <1>1, <2>3, <2>5 DEF CallRefused, CallGranted, CallTouches, End, Go, Copies
<1>2. ASSUME AuthInv, UNCHANGED vars, NEW r \in Calls, NEW q \in Logouts,
             LoggedOutCall(r, q)
      PROVE  FALSE
  BY <1>2, AuthAssumption DEF vars, AuthInv, Copies, Requests
<1>3. AuthInv /\ [Next]_vars =>
        [\A r \in Calls, q \in Logouts : LoggedOutCall(r, q) => pc'[r] = "refused"]_vars
  BY <1>1, <1>2
<1> QED
  BY <1>3, AuthInvariance, PTL DEF Spec, LoggedOutStaysOut

\* No login opens again an account that was closed, not even one that had read
\* it while it was open.
THEOREM ClosedIsFinal == Spec => ClosedAccountStaysClosed
<1>1. ASSUME AuthInv, Next, NEW u \in Users, ~users[u].active
      PROVE  ~users'[u].active
  <2> USE DEF AuthInv
  <2>1. users \in [Users -> User]
    BY <1>1 DEF Rows
  <2>2. CASE users' = users
    BY <1>1, <2>2
  <2>3. ASSUME NEW r \in Requests, LoginCommit(r)
        PROVE  ~users'[u].active
    BY <1>1, <2>1, <2>3 DEF LoginCommit, Stamped, User
  <2>4. ASSUME NEW v \in Users, CloseAccount(v)
        PROVE  ~users'[u].active
    BY <1>1, <2>1, <2>4 DEF CloseAccount, User
  <2> QED
    BY <1>1, <2>2, <2>3, <2>4 DEF Next, Proceed, Abort, LoginStart, LoginRefused,
       LoginVerified, InsertSession, StampUser, DeadlockVictim, SaveSession,
       SessionCommit, CallRefused, CallGranted, CallTouches, LogoutNothing,
       LogoutStart, Tick
<1>2. AuthInv /\ [Next]_vars =>
        [\A u \in Users : ~users[u].active => ~users'[u].active]_vars
  BY <1>1
<1> QED
  BY <1>2, AuthInvariance, PTL DEF Spec, ClosedAccountStaysClosed

-----------------------------------------------------------------------------
(* The limiter: what is left of a list of attempts. *)

LEMMA LeastNat ==
  ASSUME NEW T, T \subseteq Nat, T # {}
  PROVE  \E n \in T : \A m \in T : n <= m
<1> DEFINE less == {p \in Nat \X Nat : p[1] < p[2]}
<1>1. IsWellFoundedOn(less, Nat)
  BY NatLessThanWellFounded DEF OpToRel
<1> HIDE DEF less
<1>2. \E n \in T : \A m \in T : ~(<<m, n>> \in less)
  BY <1>1, WFMin
<1>3. \A m, n \in Nat : ~(<<m, n>> \in less) => n <= m
  <2> TAKE m, n \in Nat
  <2>1. <<m, n>> \in Nat \X Nat /\ <<m, n>>[1] = m /\ <<m, n>>[2] = n
    OBVIOUS
  <2> QED
    BY <2>1 DEF less
<1> QED
  BY <1>2, <1>3

InOrder(times) == \A i, j \in 1 .. Len(times) : i <= j => times[i] <= times[j]

\* Where a list is cut: everything before is a window old, nothing after is.
Cut(times, at, m) ==
  /\ m \in 1 .. Len(times) + 1
  /\ \A i \in 1 .. m - 1 : times[i] <= at - Window
  /\ \A i \in m .. Len(times) : times[i] > at - Window

\* What counts is the rest of the list from its cut on.
Counts(T, times, at, m) ==
  /\ Cut(times, at, m)
  /\ Counting(times, at) \in Seq(T)
  /\ Len(Counting(times, at)) = Len(times) - m + 1
  /\ \A i \in 1 .. Len(times) - m + 1 : Counting(times, at)[i] = times[m + i - 1]

LEMMA CountingFromCut ==
  ASSUME NEW T, T \subseteq Nat, NEW times \in Seq(T), InOrder(times), NEW at \in Nat
  PROVE  \E m \in Nat : Counts(T, times, at, m)
<1> DEFINE fresh == {i \in DOMAIN times : times[i] > at - Window}
<1>0. /\ Len(times) \in Nat /\ DOMAIN times = 1 .. Len(times)
      /\ \A i \in 1 .. Len(times) : times[i] \in T /\ times[i] \in Nat
      /\ Window \in Nat
  BY LenProperties, ElementOfSeq, LimiterAssumption
<1>1. Counting(times, at) = IF fresh = {} THEN <<>> ELSE SubSeq(times, Min(fresh), Len(times))
  BY DEF Counting
<1>2. CASE fresh = {}
  <2>1. Cut(times, at, Len(times) + 1)
    BY <1>0, <1>2 DEF Cut
  <2>2. Counting(times, at) = <<>> /\ <<>> \in Seq(T) /\ Len(<<>>) = 0
    BY <1>1, <1>2, EmptySeq
  <2> QED
    BY <1>0, <2>1, <2>2 DEF Counts
<1>3. CASE fresh # {}
  <2> DEFINE m == Min(fresh)
  <2>1. m \in fresh /\ \A i \in fresh : m <= i
    <3>1. fresh \subseteq Nat
      BY <1>0
    <3>2. \E i \in fresh : \A j \in fresh : i <= j
      <4> HIDE DEF fresh
      <4> QED
        BY <1>3, <3>1, LeastNat
    <3> HIDE DEF fresh
    <3> QED
      BY <3>2 DEF Min
  <2> HIDE DEF m
  <2>2. Cut(times, at, m)
    BY <1>0, <2>1 DEF Cut, InOrder
  <2>3. Counting(times, at) = SubSeq(times, m, Len(times))
    BY <1>1, <1>3 DEF m
  <2>4. /\ m \in 1 .. Len(times)
        /\ \A i \in m .. Len(times) : times[i] \in T
    BY <1>0, <2>1
  <2>5. /\ SubSeq(times, m, Len(times)) \in Seq(T)
        /\ Len(SubSeq(times, m, Len(times))) = Len(times) - m + 1
        /\ \A i \in 1 .. Len(times) - m + 1 : SubSeq(times, m, Len(times))[i] = times[m + i - 1]
    BY <1>0, <2>4, SubSeqProperties
  <2> QED
    BY <1>0, <2>2, <2>3, <2>4, <2>5 DEF Counts
<1> QED
  BY <1>2, <1>3

\* What counts is in order, is all within the window, and is no more than
\* there was.
LEMMA CountingInOrder ==
  ASSUME NEW T, T \subseteq Nat, NEW times \in Seq(T), InOrder(times), NEW at \in Nat
  PROVE  /\ Counting(times, at) \in Seq(T)
         /\ Len(Counting(times, at)) \in Nat
         /\ Len(Counting(times, at)) <= Len(times)
         /\ InOrder(Counting(times, at))
         /\ \A i \in 1 .. Len(Counting(times, at)) : Counting(times, at)[i] > at - Window
<1>0. PICK m \in Nat : Counts(T, times, at, m)
  BY CountingFromCut
<1>1. /\ m \in 1 .. Len(times) + 1
      /\ Cut(times, at, m)
      /\ Counting(times, at) \in Seq(T)
      /\ Len(Counting(times, at)) = Len(times) - m + 1
      /\ \A i \in 1 .. Len(times) - m + 1 : Counting(times, at)[i] = times[m + i - 1]
  BY <1>0 DEF Counts, Cut
<1>2. Len(times) \in Nat
  BY LenProperties
<1>3. \A i \in 1 .. Len(times) - m + 1 : m + i - 1 \in m .. Len(times) /\ m + i - 1 \in 1 .. Len(times)
  BY <1>1, <1>2
<1>4. InOrder(Counting(times, at))
  <2> SUFFICES ASSUME NEW i \in 1 .. Len(times) - m + 1, NEW j \in 1 .. Len(times) - m + 1, i <= j
               PROVE  Counting(times, at)[i] <= Counting(times, at)[j]
    BY <1>1 DEF InOrder
  <2>1. times[m + i - 1] <= times[m + j - 1]
    BY <1>2, <1>3 DEF InOrder
  <2> QED
    BY <1>1, <2>1
<1>5. \A i \in 1 .. Len(times) - m + 1 : Counting(times, at)[i] > at - Window
  BY <1>1, <1>3 DEF Cut
<1> QED
  BY <1>1, <1>2, <1>4, <1>5

\* A list of attempts that are all within the window is kept as it is.
LEMMA CountingAll ==
  ASSUME NEW T, T \subseteq Nat, NEW times \in Seq(T), InOrder(times), NEW at \in Nat,
         \A i \in 1 .. Len(times) : times[i] > at - Window
  PROVE  Counting(times, at) = times
<1>0. PICK m \in Nat : Counts(T, times, at, m)
  BY CountingFromCut
<1>1. /\ m \in 1 .. Len(times) + 1
      /\ Cut(times, at, m)
      /\ Counting(times, at) \in Seq(T)
      /\ Len(Counting(times, at)) = Len(times) - m + 1
      /\ \A i \in 1 .. Len(times) - m + 1 : Counting(times, at)[i] = times[m + i - 1]
  BY <1>0 DEF Counts, Cut
<1>2. Len(times) \in Nat /\ \A i \in 1 .. Len(times) : times[i] \in Nat
  BY LenProperties, ElementOfSeq
<1>3. m = 1
  <2> SUFFICES ASSUME m # 1 PROVE FALSE
    OBVIOUS
  <2>1. 1 \in 1 .. m - 1 /\ 1 \in 1 .. Len(times)
    BY <1>1, <1>2
  <2> QED
    BY <1>1, <1>2, <2>1, LimiterAssumption DEF Cut
<1>4. /\ Len(Counting(times, at)) = Len(times)
      /\ \A i \in 1 .. Len(times) : Counting(times, at)[i] = times[i]
  BY <1>1, <1>2, <1>3
<1> QED
  BY <1>1, <1>4, SeqEqual

\* Nothing is left of a list whose last attempt is a window old.
LEMMA CountingNone ==
  ASSUME NEW T, T \subseteq Nat, NEW times \in Seq(T), InOrder(times), NEW at \in Nat,
         times # <<>>, Last(times) <= at - Window
  PROVE  Counting(times, at) = <<>>
<1>1. Len(times) \in Nat \ {0} /\ \A i \in 1 .. Len(times) : times[i] \in Nat
  BY EmptySeq, ElementOfSeq
<1>2. \A i \in 1 .. Len(times) : times[i] <= times[Len(times)]
  BY <1>1 DEF InOrder
<1>3. times[Len(times)] <= at - Window /\ Window \in Nat
  BY LimiterAssumption DEF Last
<1>4. \A i \in 1 .. Len(times) : ~(times[i] > at - Window)
  BY <1>1, <1>2, <1>3
<1> QED
  BY <1>1, <1>4, LenProperties DEF Counting

\* Cutting early and again later leaves what cutting later leaves.
LEMMA CountingTwice ==
  ASSUME NEW T, T \subseteq Nat, NEW times \in Seq(T), InOrder(times),
         NEW at \in Nat, NEW later \in Nat, at <= later
  PROVE  Counting(Counting(times, at), later) = Counting(times, later)
<1> DEFINE early == Counting(times, at)
<1>a. PICK m \in Nat : Counts(T, times, at, m)
  BY CountingFromCut
<1>1. /\ m \in 1 .. Len(times) + 1
      /\ Cut(times, at, m)
      /\ early \in Seq(T)
      /\ Len(early) = Len(times) - m + 1
      /\ \A i \in 1 .. Len(times) - m + 1 : early[i] = times[m + i - 1]
  BY <1>a DEF Counts, Cut
<1>2. InOrder(early)
  BY CountingInOrder
<1> HIDE DEF early
<1>b. PICK n \in Nat : Counts(T, early, later, n)
  BY <1>1, <1>2, CountingFromCut
<1>3. /\ n \in 1 .. Len(early) + 1
      /\ Cut(early, later, n)
      /\ Counting(early, later) \in Seq(T)
      /\ Len(Counting(early, later)) = Len(early) - n + 1
      /\ \A i \in 1 .. Len(early) - n + 1 : Counting(early, later)[i] = early[n + i - 1]
  BY <1>b DEF Counts, Cut
<1>c. PICK k \in Nat : Counts(T, times, later, k)
  BY CountingFromCut
<1>4. /\ k \in 1 .. Len(times) + 1
      /\ Cut(times, later, k)
      /\ Counting(times, later) \in Seq(T)
      /\ Len(Counting(times, later)) = Len(times) - k + 1
      /\ \A i \in 1 .. Len(times) - k + 1 : Counting(times, later)[i] = times[k + i - 1]
  BY <1>c DEF Counts, Cut
<1>5. Len(times) \in Nat /\ Window \in Nat /\ \A i \in 1 .. Len(times) : times[i] \in Nat
  BY LenProperties, ElementOfSeq, LimiterAssumption
<1>6. Cut(times, later, m + n - 1)
  <2>1. m + n - 1 \in 1 .. Len(times) + 1
    BY <1>1, <1>3, <1>5
  <2>2. ASSUME NEW i \in 1 .. m + n - 2 PROVE times[i] <= later - Window
    <3>1. CASE i <= m - 1
      <4>1. times[i] <= at - Window /\ times[i] \in Nat
        BY <1>1, <1>5, <2>1, <3>1 DEF Cut
      <4> QED
        BY <1>5, <4>1
    <3>2. CASE i > m - 1
      <4>1. i - m + 1 \in 1 .. n - 1 /\ i - m + 1 \in 1 .. Len(times) - m + 1
        BY <1>1, <1>3, <1>5, <3>2
      <4>2. early[i - m + 1] = times[m + (i - m + 1) - 1]
        BY <1>1, <4>1
      <4>3. m + (i - m + 1) - 1 = i
        OBVIOUS
      <4>4. early[i - m + 1] <= later - Window
        BY <1>3, <4>1 DEF Cut
      <4> QED
        BY <4>2, <4>3, <4>4
    <3> QED
      BY <3>1, <3>2
  <2>3. ASSUME NEW i \in m + n - 1 .. Len(times) PROVE times[i] > later - Window
    <3>1. i - m + 1 \in n .. Len(early) /\ i - m + 1 \in 1 .. Len(times) - m + 1
      BY <1>1, <1>3, <1>5
    <3>2. early[i - m + 1] = times[m + (i - m + 1) - 1]
      BY <1>1, <3>1
    <3>3. m + (i - m + 1) - 1 = i
      OBVIOUS
    <3>4. early[i - m + 1] > later - Window
      BY <1>3, <3>1 DEF Cut
    <3> QED
      BY <3>2, <3>3, <3>4
  <2> QED
    BY <2>1, <2>2, <2>3 DEF Cut
<1>7. k = m + n - 1
  <2> DEFINE c == m + n - 1
  <2>1. c \in 1 .. Len(times) + 1 /\ Cut(times, later, c)
    BY <1>6 DEF Cut
  <2> HIDE DEF c
  <2>2. ~(k < c)
    <3> SUFFICES ASSUME k < c PROVE FALSE
      OBVIOUS
    <3>1. k \in 1 .. c - 1 /\ k \in k .. Len(times)
      BY <1>4, <1>5, <2>1
    <3> QED
      BY <1>4, <1>5, <2>1, <3>1 DEF Cut
  <2>3. ~(c < k)
    <3> SUFFICES ASSUME c < k PROVE FALSE
      OBVIOUS
    <3>1. c \in 1 .. k - 1 /\ c \in c .. Len(times) /\ c \in 1 .. Len(times)
      BY <1>4, <1>5, <2>1
    <3>2. times[c] <= later - Window
      BY <1>4, <3>1 DEF Cut
    <3>3. times[c] > later - Window
      BY <2>1, <3>1 DEF Cut
    <3> QED
      BY <1>5, <3>1, <3>2, <3>3
  <2>4. k = c
    BY <2>1, <2>2, <2>3
  <2> QED
    BY <2>4 DEF c
<1>8. Len(Counting(early, later)) = Len(Counting(times, later))
  BY <1>1, <1>3, <1>4, <1>5, <1>7
<1>9. ASSUME NEW i \in 1 .. Len(Counting(early, later))
      PROVE  Counting(early, later)[i] = Counting(times, later)[i]
  <2>1. /\ i \in 1 .. Len(early) - n + 1
        /\ i \in 1 .. Len(times) - k + 1
        /\ n + i - 1 \in 1 .. Len(times) - m + 1
    BY <1>1, <1>3, <1>4, <1>5, <1>8
  <2>2. Counting(early, later)[i] = times[m + (n + i - 1) - 1]
    BY <1>1, <1>3, <2>1
  <2>3. Counting(times, later)[i] = times[k + i - 1]
    BY <1>4, <2>1
  <2>4. m + (n + i - 1) - 1 = k + i - 1
    BY <1>7
  <2> QED
    BY <2>2, <2>3, <2>4
<1>10. Counting(early, later) = Counting(times, later)
  BY <1>3, <1>4, <1>8, <1>9, SeqEqual
<1> QED
  BY <1>10 DEF early

-----------------------------------------------------------------------------
(* The limiter: the inductive invariant. *)

\* The table holds attempts in the order they were made, none without any.
Table ==
  /\ now \in Nat \ {0} /\ called \in 0 .. now
  /\ DOMAIN hits \subseteq Keys /\ IsFiniteSet(DOMAIN hits)
  /\ \A key \in DOMAIN hits :
       hits[key] \in Seq(0 .. now) /\ hits[key] # <<>> /\ InOrder(hits[key])
  /\ recent \in [Keys -> Seq(0 .. now)]
  /\ told \in [Keys -> Nat]

\* What the table counts for a key, purged or not, is what passed within the
\* last window.
CountsTheRecent == \A key \in Keys : recent[key] = Counting(Attempts(key), now)

\* A key that was refused has used its limit up until the first of its attempts
\* is a window old; it was told that moment, rounded up to a second.
Waits(key, first) ==
  /\ first + Window <= told[key] /\ told[key] < first + Window + Second
  /\ now >= first + Window => Len(recent[key]) < Limit(key)
  /\ now < first + Window => recent[key] # <<>> /\ Len(recent[key]) = Limit(key)
                               /\ Head(recent[key]) = first

TellsTheTruth ==
  \A key \in Keys : told[key] # 0 => \E first \in Nat : Waits(key, first)

LimiterInv ==
  /\ Table /\ CountsTheRecent /\ TellsTheTruth
  /\ NeverMoreThanTheLimit /\ TableHoldsWhoIsActive

LEMMA LimitIsPositive ==
  ASSUME NEW key \in Keys
  PROVE  Limit(key) \in Nat \ {0}
BY LimiterAssumption DEF Keys, Limit

\* What a key counts is typed, in order and within the window.
LEMMA CountsOfKey ==
  ASSUME Table, NEW key \in Keys
  PROVE  LET counting == Counting(Attempts(key), now) IN
         /\ Attempts(key) \in Seq(0 .. now) /\ InOrder(Attempts(key))
         /\ counting \in Seq(0 .. now) /\ Len(counting) \in Nat /\ InOrder(counting)
         /\ \A i \in 1 .. Len(counting) : counting[i] > now - Window
<1>1. Attempts(key) \in Seq(0 .. now) /\ InOrder(Attempts(key))
  <2>1. CASE key \in DOMAIN hits
    BY <2>1 DEF Table, Attempts
  <2>2. CASE key \notin DOMAIN hits
    BY <2>2, EmptySeq DEF Attempts, InOrder
  <2> QED
    BY <2>1, <2>2
<1>2. 0 .. now \subseteq Nat /\ now \in Nat
  BY DEF Table
<1> QED
  BY <1>1, <1>2, CountingInOrder

\* A purge forgets keys whose attempts are all a window old, and none when the
\* table is small.
LEMMA PurgedIsOld ==
  ASSUME Table
  PROVE  /\ DOMAIN Purged \subseteq DOMAIN hits
         /\ \A key \in DOMAIN Purged : Purged[key] = hits[key]
         /\ \A key \in DOMAIN hits \ DOMAIN Purged : Last(hits[key]) <= now - Window
         /\ Cardinality(DOMAIN hits) > PurgeThreshold =>
              \A key \in DOMAIN Purged : Last(hits[key]) > now - Window
         /\ ~(Cardinality(DOMAIN hits) > PurgeThreshold) => Purged = hits
<1>1. \A key \in DOMAIN hits : Last(hits[key]) \in Int
  <2> SUFFICES ASSUME NEW key \in DOMAIN hits PROVE Last(hits[key]) \in Int
    OBVIOUS
  <2>1. hits[key] \in Seq(0 .. now) /\ Len(hits[key]) \in 1 .. Len(hits[key])
    BY EmptySeq DEF Table
  <2> QED
    <3>1. hits[key][Len(hits[key])] \in 0 .. now
      BY <2>1, ElementOfSeq
    <3> QED
      BY <3>1 DEF Last
<1>2. now - Window \in Int
  BY LimiterAssumption DEF Table
<1>3. CASE Cardinality(DOMAIN hits) > PurgeThreshold
  BY <1>1, <1>2, <1>3 DEF Purged, Old
<1>4. CASE ~(Cardinality(DOMAIN hits) > PurgeThreshold)
  BY <1>4 DEF Purged
<1> QED
  BY <1>3, <1>4

\* Storing what a key counts, purge included, changes what no other key counts.
LEMMA StoreKeepsCounts ==
  ASSUME LimiterInv, NEW key \in Keys, NEW times \in Seq(0 .. now),
         times # <<>>, InOrder(times),
         \A i \in 1 .. Len(times) : times[i] > now - Window,
         Store(key, times), now' = now, called' = now
  PROVE  /\ DOMAIN hits' \subseteq Keys /\ IsFiniteSet(DOMAIN hits')
         /\ \A k \in DOMAIN hits' :
              hits'[k] \in Seq(0 .. now) /\ hits'[k] # <<>> /\ InOrder(hits'[k])
         /\ Counting(Attempts(key), now)' = times
         /\ \A k \in Keys : k # key =>
              Counting(Attempts(k), now)' = Counting(Attempts(k), now)
         /\ TableHoldsWhoIsActive'
<1> USE DEF LimiterInv
<1>0. /\ now \in Nat \ {0} /\ 0 .. now \subseteq Nat
      /\ Window \in Nat \ {0} /\ PurgeThreshold \in Nat
  BY LimiterAssumption DEF Table
<1>1. /\ DOMAIN hits' = DOMAIN Purged \cup {key}
      /\ hits'[key] = times
      /\ \A k \in DOMAIN Purged : k # key => hits'[k] = hits[k]
  BY PurgedIsOld DEF Store
<1>2. DOMAIN Purged \subseteq DOMAIN hits /\ IsFiniteSet(DOMAIN Purged)
  BY PurgedIsOld, FS_Subset DEF Table
<1>3. DOMAIN hits' \subseteq Keys /\ IsFiniteSet(DOMAIN hits')
  <2>1. IsFiniteSet(DOMAIN Purged \cup {key})
    BY <1>2, FS_AddElement
  <2> QED
    BY <1>1, <1>2, <2>1 DEF Table
<1>4. \A k \in DOMAIN hits' :
        hits'[k] \in Seq(0 .. now) /\ hits'[k] # <<>> /\ InOrder(hits'[k])
  BY <1>1, <1>2 DEF Table
<1>5. Counting(Attempts(key), now)' = times
  <2>1. Attempts(key)' = times
    BY <1>1 DEF Attempts
  <2>2. Counting(times, now) = times
    BY <1>0, CountingAll
  <2> QED
    BY <2>1, <2>2
<1>6. ASSUME NEW k \in Keys, k # key
      PROVE  Counting(Attempts(k), now)' = Counting(Attempts(k), now)
  <2>1. CASE k \in DOMAIN Purged
    <3>1. Attempts(k)' = Attempts(k)
      BY <1>1, <1>2, <1>6, <2>1 DEF Attempts
    <3> QED
      BY <3>1
  <2>2. CASE k \notin DOMAIN Purged
    <3>1. Attempts(k)' = <<>>
      BY <1>1, <1>6, <2>2 DEF Attempts
    <3>2. Counting(<<>>, now) = <<>>
      <4>1. <<>> \in Seq(0 .. now) /\ Len(<<>>) = 0
        BY EmptySeq
      <4>2. InOrder(<<>>) /\ \A i \in 1 .. Len(<<>>) : <<>>[i] > now - Window
        BY <4>1 DEF InOrder
      <4> QED
        BY <1>0, <4>1, <4>2, CountingAll
    <3>3. CASE k \notin DOMAIN hits
      BY <3>1, <3>3 DEF Attempts
    <3>4. CASE k \in DOMAIN hits
      <4>1. /\ hits[k] \in Seq(0 .. now) /\ hits[k] # <<>> /\ InOrder(hits[k])
            /\ Last(hits[k]) <= now - Window
        BY <2>2, <3>4, PurgedIsOld DEF Table
      <4>2. Counting(hits[k], now) = <<>>
        BY <1>0, <4>1, CountingNone
      <4> QED
        BY <3>1, <3>2, <3>4, <4>2 DEF Attempts
    <3> QED
      BY <3>3, <3>4
  <2> QED
    BY <2>1, <2>2
<1>7. TableHoldsWhoIsActive'
  <2>1. Last(times) > now - Window
    <3>1. Len(times) \in 1 .. Len(times)
      BY EmptySeq
    <3> QED
      BY <3>1 DEF Last
  <2>2. CASE Cardinality(DOMAIN hits) > PurgeThreshold
    <3>1. \A k \in DOMAIN Purged : Last(hits[k]) > now - Window
      BY <2>2, PurgedIsOld
    <3> QED
      BY <1>1, <2>1, <3>1 DEF TableHoldsWhoIsActive
  <2>3. CASE ~(Cardinality(DOMAIN hits) > PurgeThreshold)
    <3>1. Purged = hits
      BY <2>3, PurgedIsOld
    <3>2. Cardinality(DOMAIN hits) \in Nat
      BY FS_CardinalityType DEF Table
    <3>3. /\ Cardinality(DOMAIN hits') \in Nat
          /\ Cardinality(DOMAIN hits') <= Cardinality(DOMAIN hits) + 1
      <4>1. Cardinality(DOMAIN hits \cup {key}) =
              IF key \in DOMAIN hits THEN Cardinality(DOMAIN hits) ELSE Cardinality(DOMAIN hits) + 1
        BY FS_AddElement DEF Table
      <4>2. DOMAIN hits' = DOMAIN hits \cup {key}
        BY <1>1, <3>1
      <4> QED
        BY <3>2, <4>1, <4>2
    <3>4. ~(Cardinality(DOMAIN hits') > PurgeThreshold + 1)
      BY <1>0, <2>3, <3>2, <3>3
    <3> QED
      BY <3>4 DEF TableHoldsWhoIsActive
  <2> QED
    BY <2>2, <2>3
<1> QED
  BY <1>3, <1>4, <1>5, <1>6, <1>7

LEMMA RoundingUp ==
  ASSUME NEW a \in Nat \ {0}, NEW s \in Nat \ {0}, NEW d, d = (a + s - 1) \div s
  PROVE  d \in Nat /\ a <= s * d /\ s * d < a + s
OBVIOUS

\* A call that lets an attempt pass.
LEMMA AdmitKeepsInv ==
  ASSUME LimiterInv, NEW key \in Keys, Admit(key), now' = now, called' = now
  PROVE  LimiterInv'
<1> DEFINE counting == Counting(Attempts(key), now)
<1> USE DEF LimiterInv
<1>0. now \in Nat \ {0} /\ now \in 0 .. now /\ Window \in Nat \ {0} /\ Limit(key) \in Nat \ {0}
  BY LimiterAssumption, LimitIsPositive DEF Table
<1>1. /\ counting \in Seq(0 .. now) /\ Len(counting) \in Nat /\ InOrder(counting)
      /\ \A i \in 1 .. Len(counting) : counting[i] > now - Window
      /\ recent[key] = counting /\ Len(counting) < Limit(key)
  BY CountsOfKey DEF CountsTheRecent, Admit, Passes
<1>2. /\ Store(key, Append(counting, now))
      /\ recent' = [recent EXCEPT ![key] = Append(@, now)]
      /\ told' = [told EXCEPT ![key] = 0]
  BY DEF Admit
<1> HIDE DEF counting
<1> DEFINE times == Append(counting, now)
<1>3. /\ times \in Seq(0 .. now) /\ Len(times) = Len(counting) + 1
      /\ \A i \in 1 .. Len(counting) : times[i] = counting[i]
      /\ times[Len(counting) + 1] = now
  BY <1>0, <1>1, AppendProperties
<1> HIDE DEF times
<1>4. \A i \in 1 .. Len(counting) : counting[i] \in 0 .. now
  BY <1>1, ElementOfSeq
<1>5. times # <<>>
  BY <1>1, <1>3, EmptySeq
<1>6. \A i \in 1 .. Len(times) : times[i] > now - Window /\ times[i] <= now
  BY <1>0, <1>1, <1>3, <1>4
<1>7. InOrder(times)
  <2> SUFFICES ASSUME NEW i \in 1 .. Len(times), NEW j \in 1 .. Len(times), i <= j
               PROVE  times[i] <= times[j]
    BY DEF InOrder
  <2>1. CASE j = Len(counting) + 1
    BY <1>3, <1>6, <2>1
  <2>2. CASE j # Len(counting) + 1
    BY <1>1, <1>3, <2>2 DEF InOrder
  <2> QED
    BY <2>1, <2>2
<1>8. /\ DOMAIN hits' \subseteq Keys /\ IsFiniteSet(DOMAIN hits')
      /\ \A k \in DOMAIN hits' :
           hits'[k] \in Seq(0 .. now) /\ hits'[k] # <<>> /\ InOrder(hits'[k])
      /\ Counting(Attempts(key), now)' = times
      /\ \A k \in Keys : k # key =>
           Counting(Attempts(k), now)' = Counting(Attempts(k), now)
      /\ TableHoldsWhoIsActive'
  <2>1. Store(key, times)
    BY <1>2 DEF times
  <2> QED
    BY <1>3, <1>5, <1>6, <1>7, <2>1, StoreKeepsCounts
<1>9. /\ recent' \in [Keys -> Seq(0 .. now)] /\ told' \in [Keys -> Nat]
      /\ recent'[key] = times /\ told'[key] = 0
      /\ \A k \in Keys : k # key => recent'[k] = recent[k] /\ told'[k] = told[k]
  BY <1>1, <1>2, <1>3 DEF Table, times
<1>10. Table'
  BY <1>0, <1>8, <1>9 DEF Table
<1>11. CountsTheRecent'
  BY <1>8, <1>9 DEF CountsTheRecent
<1>12. TellsTheTruth'
  <2> SUFFICES ASSUME NEW k \in Keys, told'[k] # 0 PROVE \E first \in Nat : Waits(k, first)'
    BY DEF TellsTheTruth
  <2>1. k # key /\ told[k] # 0
    BY <1>9
  <2>2. PICK first \in Nat : Waits(k, first)
    BY <2>1 DEF TellsTheTruth
  <2>3. Waits(k, first)'
    BY <1>9, <2>1, <2>2 DEF Waits, Limit
  <2> QED
    BY <2>3
<1>13. NeverMoreThanTheLimit'
  <2>1. Len(recent'[key]) <= Limit(key)
    BY <1>0, <1>1, <1>3, <1>9
  <2>2. \A k \in Keys : Len(recent'[k]) <= Limit(k)
    BY <1>9, <2>1 DEF NeverMoreThanTheLimit
  <2> QED
    BY <2>2 DEF NeverMoreThanTheLimit, Limit
<1> QED
  BY <1>8, <1>10, <1>11, <1>12, <1>13

\* A call that refuses it.
LEMMA RefuseKeepsInv ==
  ASSUME LimiterInv, NEW key \in Keys, Refuse(key), now' = now, called' = now
  PROVE  LimiterInv'
<1> DEFINE counting == Counting(Attempts(key), now)
           first == Head(counting)
<1> USE DEF LimiterInv
<1>0. /\ now \in Nat \ {0} /\ Window \in Nat \ {0} /\ Second \in Nat \ {0}
      /\ Limit(key) \in Nat \ {0}
  BY LimiterAssumption, LimitIsPositive DEF Table
<1>1. /\ counting \in Seq(0 .. now) /\ Len(counting) \in Nat /\ InOrder(counting)
      /\ \A i \in 1 .. Len(counting) : counting[i] > now - Window
      /\ recent[key] = counting
  BY CountsOfKey DEF CountsTheRecent
<1>2. Len(counting) = Limit(key)
  <2>1. ~(Len(counting) < Limit(key))
    BY DEF Refuse, Passes
  <2>2. Len(counting) <= Limit(key)
    BY <1>1 DEF NeverMoreThanTheLimit
  <2> QED
    BY <1>0, <1>1, <2>1, <2>2
<1>3. /\ Store(key, counting)
      /\ told' = [told EXCEPT ![key] = IF @ = 0 THEN now + Second * RetryAfter(first) ELSE @]
      /\ recent' = recent
  BY DEF Refuse
<1> HIDE DEF counting
<1>4. counting # <<>>
  BY <1>0, <1>2, EmptySeq
<1>5. first \in Nat /\ first <= now /\ first > now - Window
  <2>1. first = counting[1] /\ 1 \in 1 .. Len(counting)
    BY <1>0, <1>1, <1>2, <1>4, HeadTailProperties
  <2>2. counting[1] \in 0 .. now
    BY <1>1, <2>1, ElementOfSeq
  <2> QED
    BY <1>0, <1>1, <2>1, <2>2
<1> HIDE DEF first
<1>6. /\ DOMAIN hits' \subseteq Keys /\ IsFiniteSet(DOMAIN hits')
      /\ \A k \in DOMAIN hits' :
           hits'[k] \in Seq(0 .. now) /\ hits'[k] # <<>> /\ InOrder(hits'[k])
      /\ Counting(Attempts(key), now)' = counting
      /\ \A k \in Keys : k # key =>
           Counting(Attempts(k), now)' = Counting(Attempts(k), now)
      /\ TableHoldsWhoIsActive'
  BY <1>1, <1>3, <1>4, StoreKeepsCounts
<1> DEFINE wait == RetryAfter(first)
           rest == first + Window - now
<1>7. /\ wait \in Nat
      /\ now + Second * wait \in Nat
      /\ first + Window <= now + Second * wait
      /\ now + Second * wait < first + Window + Second
  <2>1. rest \in Nat \ {0}
    BY <1>0, <1>5
  <2>2. wait = (rest + Second - 1) \div Second
    BY DEF RetryAfter
  <2> HIDE DEF wait, rest
  <2>3. wait \in Nat /\ rest <= Second * wait /\ Second * wait < rest + Second
    BY <1>0, <2>1, <2>2, RoundingUp
  <2> DEFINE told_ == Second * wait
  <2>4. told_ \in Nat
    BY <1>0, <2>3
  <2>5. rest <= told_ /\ told_ < rest + Second
    BY <2>3
  <2> HIDE DEF told_
  <2>6. /\ now + told_ \in Nat
        /\ first + Window <= now + told_
        /\ now + told_ < first + Window + Second
    BY <1>0, <1>5, <2>4, <2>5 DEF rest
  <2> QED
    BY <2>3, <2>6 DEF told_
<1> HIDE DEF wait
<1>8. /\ told' \in [Keys -> Nat]
      /\ told[key] = 0 => told'[key] = now + Second * wait
      /\ told[key] # 0 => told'[key] = told[key]
      /\ \A k \in Keys : k # key => told'[k] = told[k]
  <2>1. told' = [told EXCEPT ![key] = IF @ = 0 THEN now + Second * wait ELSE @]
    BY <1>3 DEF wait
  <2>2. now + Second * wait \in Nat
    BY <1>7
  <2> DEFINE moment == now + Second * wait
  <2>3. told' = [told EXCEPT ![key] = IF @ = 0 THEN moment ELSE @] /\ moment \in Nat
    BY <2>1, <2>2
  <2> HIDE DEF moment
  <2>4. /\ told' \in [Keys -> Nat]
        /\ told[key] = 0 => told'[key] = moment
        /\ told[key] # 0 => told'[key] = told[key]
        /\ \A k \in Keys : k # key => told'[k] = told[k]
    BY <2>3 DEF Table
  <2> QED
    BY <2>4 DEF moment
<1>9. Table'
  BY <1>0, <1>3, <1>6, <1>8 DEF Table
<1>10. CountsTheRecent'
  BY <1>1, <1>3, <1>6 DEF CountsTheRecent
<1>11. TellsTheTruth'
  <2> SUFFICES ASSUME NEW k \in Keys, told'[k] # 0 PROVE \E f \in Nat : Waits(k, f)'
    BY DEF TellsTheTruth
  <2>1. CASE told[k] # 0
    <3>1. told'[k] = told[k] /\ recent'[k] = recent[k]
      BY <1>3, <1>8, <2>1
    <3>2. PICK f \in Nat : Waits(k, f)
      BY <2>1 DEF TellsTheTruth
    <3>3. Waits(k, f)'
      BY <3>1, <3>2 DEF Waits, Limit
    <3> QED
      BY <3>3
  <2>2. CASE told[k] = 0
    <3>1. k = key
      BY <1>8, <2>2
    <3>2. /\ first + Window <= told'[key] /\ told'[key] < first + Window + Second
      BY <1>7, <1>8, <2>2, <3>1
    <3>3. /\ recent'[key] = counting /\ counting # <<>> /\ Head(counting) = first
          /\ Len(counting) = Limit(key) /\ now < first + Window
      BY <1>0, <1>1, <1>2, <1>3, <1>4, <1>5 DEF first
    <3>4. PICK f \in Nat : f = first
      BY <1>5
    <3>5. ~(now >= f + Window)
      BY <1>0, <3>3, <3>4
    <3>6. Waits(key, f)'
      BY <3>2, <3>3, <3>4, <3>5 DEF Waits, Limit
    <3> QED
      BY <3>1, <3>6
  <2> QED
    BY <2>1, <2>2
<1>12. NeverMoreThanTheLimit'
  BY <1>3 DEF NeverMoreThanTheLimit, Limit
<1> QED
  BY <1>6, <1>9, <1>10, <1>11, <1>12

\* When the first attempt of a list is a window old, the list gets shorter.
LEMMA CountingDropsTheFirst ==
  ASSUME NEW T, T \subseteq Nat, NEW times \in Seq(T), InOrder(times), NEW at \in Nat,
         times # <<>>, Head(times) <= at - Window
  PROVE  Len(Counting(times, at)) < Len(times)
<1>0. PICK m \in Nat : Counts(T, times, at, m)
  BY CountingFromCut
<1>1. /\ m \in 1 .. Len(times) + 1
      /\ Cut(times, at, m)
      /\ Len(Counting(times, at)) = Len(times) - m + 1
  BY <1>0 DEF Counts, Cut
<1>2. Len(times) \in Nat \ {0} /\ Head(times) = times[1] /\ times[1] \in Nat
  <2>1. Len(times) \in Nat \ {0}
    BY EmptySeq
  <2>2. 1 \in 1 .. Len(times)
    BY <2>1
  <2>3. times[1] \in T
    BY <2>2, ElementOfSeq
  <2>4. Head(times) = times[1]
    BY HeadTailProperties
  <2> QED
    BY <2>1, <2>3, <2>4
<1>3. m # 1
  <2> SUFFICES ASSUME m = 1 PROVE FALSE
    OBVIOUS
  <2>1. 1 \in m .. Len(times)
    BY <1>2
  <2>2. times[1] > at - Window
    BY <1>1, <2>1 DEF Cut
  <2> QED
    BY <1>2, <2>2, LimiterAssumption
<1> QED
  BY <1>1, <1>2, <1>3

LEMMA TickKeepsInv ==
  ASSUME LimiterInv, LimiterTick
  PROVE  LimiterInv'
<1> USE DEF LimiterInv
<1>0. /\ now \in Nat \ {0} /\ now' = now + 1 /\ now' \in Nat \ {0} /\ Window \in Nat \ {0}
      /\ 0 .. now \subseteq Nat /\ 0 .. now \subseteq 0 .. now'
      /\ UNCHANGED <<hits, told, called>>
  BY LimiterAssumption DEF Table, LimiterTick
<1>1. \A key \in Keys : recent'[key] = Counting(recent[key], now')
  BY <1>0 DEF LimiterTick
<1>2. ASSUME NEW key \in Keys
      PROVE  /\ Attempts(key) \in Seq(0 .. now) /\ InOrder(Attempts(key))
             /\ recent[key] \in Seq(0 .. now) /\ InOrder(recent[key])
             /\ recent'[key] \in Seq(0 .. now)
             /\ Len(recent[key]) \in Nat /\ Len(recent'[key]) \in Nat
             /\ Len(recent'[key]) <= Len(recent[key])
  <2>1. /\ Attempts(key) \in Seq(0 .. now) /\ InOrder(Attempts(key))
        /\ recent[key] \in Seq(0 .. now) /\ InOrder(recent[key])
        /\ Len(recent[key]) \in Nat
    BY CountsOfKey DEF CountsTheRecent
  <2>2. /\ Counting(recent[key], now') \in Seq(0 .. now)
        /\ Len(Counting(recent[key], now')) \in Nat
        /\ Len(Counting(recent[key], now')) <= Len(recent[key])
    BY <1>0, <2>1, CountingInOrder
  <2> QED
    BY <1>1, <2>1, <2>2
<1>3. Seq(0 .. now) \subseteq Seq(0 .. now')
  BY <1>0, SeqMonotonic
<1>4. Table'
  <2>1. called' \in 0 .. now'
    BY <1>0 DEF Table
  <2>2. \A key \in DOMAIN hits' :
          hits'[key] \in Seq(0 .. now') /\ hits'[key] # <<>> /\ InOrder(hits'[key])
    BY <1>0, <1>3 DEF Table
  <2>3. recent' \in [Keys -> Seq(0 .. now')]
    <3>1. recent' = [key \in Keys |-> Counting(recent[key], now + 1)]
      BY DEF LimiterTick
    <3>2. \A key \in Keys : Counting(recent[key], now + 1) \in Seq(0 .. now')
      BY <1>0, <1>1, <1>2, <1>3
    <3> QED
      BY <3>1, <3>2
  <2> QED
    BY <1>0, <2>1, <2>2, <2>3 DEF Table
<1>5. CountsTheRecent'
  <2> SUFFICES ASSUME NEW key \in Keys PROVE recent'[key] = Counting(Attempts(key)', now')
    BY DEF CountsTheRecent
  <2>1. Attempts(key)' = Attempts(key)
    BY <1>0 DEF Attempts
  <2>2. recent[key] = Counting(Attempts(key), now)
    BY DEF CountsTheRecent
  <2>3. now \in Nat /\ now' \in Nat /\ now <= now'
    BY <1>0
  <2>4. Attempts(key) \in Seq(0 .. now) /\ InOrder(Attempts(key)) /\ 0 .. now \subseteq Nat
    BY <1>0, <1>2
  <2>5. Counting(Counting(Attempts(key), now), now') = Counting(Attempts(key), now')
    BY <2>3, <2>4, CountingTwice
  <2> QED
    BY <1>1, <2>1, <2>2, <2>5
<1>6. TellsTheTruth'
  <2> SUFFICES ASSUME NEW key \in Keys, told'[key] # 0 PROVE \E f \in Nat : Waits(key, f)'
    BY DEF TellsTheTruth
  <2>1. told'[key] = told[key] /\ Limit(key)' = Limit(key) /\ Limit(key) \in Nat \ {0}
    BY <1>0, LimitIsPositive DEF Limit
  <2>2. PICK f \in Nat : Waits(key, f)
    BY <1>0, <2>1 DEF TellsTheTruth
  <2>3. CASE now' >= f + Window
    <3>1. Len(recent'[key]) < Limit(key)
      <4>1. CASE now >= f + Window
        BY <1>2, <2>1, <2>2, <4>1 DEF Waits
      <4>2. CASE now < f + Window
        <5>1. recent[key] # <<>> /\ Len(recent[key]) = Limit(key) /\ Head(recent[key]) = f
          BY <2>2, <4>2 DEF Waits
        <5>2. f <= now' - Window
          BY <1>0, <2>3
        <5>3. Len(Counting(recent[key], now')) < Len(recent[key])
          BY <1>0, <1>2, <5>1, <5>2, CountingDropsTheFirst
        <5> QED
          BY <1>1, <5>1, <5>3
      <4> QED
        BY <1>0, <4>1, <4>2
    <3>2. ~(now' < f + Window)
      BY <1>0, <2>3
    <3>3. Waits(key, f)'
      BY <2>1, <2>2, <3>1, <3>2 DEF Waits
    <3> QED
      BY <3>3
  <2>4. CASE ~(now' >= f + Window)
    <3>1. recent[key] # <<>> /\ Len(recent[key]) = Limit(key) /\ Head(recent[key]) = f
      BY <1>0, <2>2, <2>4 DEF Waits
    <3>2. \A i \in 1 .. Len(recent[key]) : recent[key][i] > now' - Window
      <4>1. ASSUME NEW i \in 1 .. Len(recent[key])
            PROVE  recent[key][i] > now' - Window
        <5>1. 1 \in 1 .. Len(recent[key]) /\ 1 <= i
          BY <1>2
        <5>2. recent[key][1] = f
          BY <1>2, <3>1, HeadTailProperties
        <5>3. f <= recent[key][i]
          BY <1>2, <5>1, <5>2 DEF InOrder
        <5>4. recent[key][i] \in Nat
          BY <1>0, <1>2, ElementOfSeq
        <5> QED
          BY <1>0, <2>4, <5>3, <5>4
      <4> QED
        BY <4>1
    <3>3. recent'[key] = recent[key]
      BY <1>0, <1>1, <1>2, <3>2, CountingAll
    <3>4. Waits(key, f)'
      BY <2>1, <2>2, <2>4, <3>1, <3>3 DEF Waits
    <3> QED
      BY <3>4
  <2> QED
    BY <2>3, <2>4
<1>7. NeverMoreThanTheLimit'
  <2>1. \A key \in Keys : Len(recent'[key]) <= Limit(key)
    BY <1>2, LimitIsPositive DEF NeverMoreThanTheLimit
  <2> QED
    BY <2>1 DEF NeverMoreThanTheLimit, Limit
<1>8. TableHoldsWhoIsActive'
  BY <1>0 DEF TableHoldsWhoIsActive
<1> QED
  BY <1>4, <1>5, <1>6, <1>7, <1>8

LEMMA LimiterStarts ==
  ASSUME LimiterInit
  PROVE  LimiterInv
<1> USE DEF LimiterInit
<1>0. /\ now = 1 /\ called = 0 /\ hits = <<>> /\ DOMAIN hits = {} /\ Window \in Nat
      /\ 0 .. now \subseteq Nat
  BY LimiterAssumption
<1>1. <<>> \in Seq(0 .. now) /\ Len(<<>>) = 0
  BY EmptySeq
<1>2. Table
  BY <1>0, <1>1, FS_EmptySet DEF Table
<1>3. CountsTheRecent
  <2>1. InOrder(<<>>) /\ \A i \in 1 .. Len(<<>>) : <<>>[i] > now - Window
    BY <1>1 DEF InOrder
  <2>2. Counting(<<>>, now) = <<>>
    BY <1>0, <1>1, <2>1, CountingAll
  <2> QED
    BY <1>0, <2>2 DEF CountsTheRecent, Attempts
<1>4. TellsTheTruth
  BY DEF TellsTheTruth
<1>5. NeverMoreThanTheLimit
  BY <1>1, LimitIsPositive DEF NeverMoreThanTheLimit
<1>6. TableHoldsWhoIsActive
  BY <1>0 DEF TableHoldsWhoIsActive
<1> QED
  BY <1>2, <1>3, <1>4, <1>5, <1>6 DEF LimiterInv

LEMMA LimiterStepKeepsInv ==
  ASSUME LimiterInv, [LimiterNext]_limiterVars
  PROVE  LimiterInv'
<1>1. ASSUME NEW route \in Routes, NEW client \in Clients, Visit(route, client)
      PROVE  LimiterInv'
  <2> DEFINE key == <<route, client>>
  <2>1. key \in Keys
    BY DEF Keys
  <2>2. (Admit(key) \/ Refuse(key)) /\ now' = now /\ called' = now
    BY <1>1 DEF Visit
  <2> HIDE DEF key
  <2> QED
    BY <2>1, <2>2, AdmitKeepsInv, RefuseKeepsInv
<1>2. ASSUME NEW client \in Clients, NEW account \in Accounts, Login(client, account)
      PROVE  LimiterInv'
  <2> DEFINE key == <<"login-user", account>>
  <2>1. key \in Keys
    BY DEF Keys
  <2>2. (Admit(key) \/ Refuse(key)) /\ now' = now /\ called' = now
    BY <1>2 DEF Login
  <2> HIDE DEF key
  <2> QED
    BY <2>1, <2>2, AdmitKeepsInv, RefuseKeepsInv
<1>3. CASE LimiterTick
  BY <1>3, TickKeepsInv
<1>4. CASE UNCHANGED limiterVars
  <2> USE <1>4 DEF limiterVars, LimiterInv
  <2>1. Table'
    BY DEF Table
  <2>2. CountsTheRecent'
    BY DEF CountsTheRecent, Attempts
  <2>3. TellsTheTruth'
    BY DEF TellsTheTruth, Waits, Limit
  <2>4. NeverMoreThanTheLimit'
    BY DEF NeverMoreThanTheLimit, Limit
  <2>5. TableHoldsWhoIsActive'
    BY DEF TableHoldsWhoIsActive
  <2> QED
    BY <2>1, <2>2, <2>3, <2>4, <2>5
<1> QED
  BY <1>1, <1>2, <1>3, <1>4 DEF LimiterNext

-----------------------------------------------------------------------------
(* The limiter: theorems. *)

LEMMA LimiterInvariance == LimiterSpec => []LimiterInv
<1>1. LimiterInit => LimiterInv
  BY LimiterStarts
<1>2. LimiterInv /\ [LimiterNext]_limiterVars => LimiterInv'
  BY LimiterStepKeepsInv
<1> QED
  BY <1>1, <1>2, PTL DEF LimiterSpec

\* hit (rate_limit.py): however the requests of the clients interleave and
\* whatever a purge forgets, no more attempts of a key than its limit pass
\* within one window.
THEOREM LimitHolds == LimiterSpec => []NeverMoreThanTheLimit
<1>1. LimiterInv => NeverMoreThanTheLimit
  BY DEF LimiterInv
<1> QED
  BY <1>1, LimiterInvariance, PTL

\* The seconds hit answers: a client that waits them out passes, even when it
\* asked again meanwhile, and a second earlier it would have been refused.
THEOREM RetryAfterTellsTheTruth == LimiterSpec => []RetryAfterIsTrue
<1>1. LimiterInv => RetryAfterIsTrue
  <2> SUFFICES ASSUME LimiterInv, NEW key \in Keys, told[key] # 0
               PROVE  /\ now >= told[key] => Passes(key)
                      /\ now + Second <= told[key] => ~Passes(key)
    BY DEF RetryAfterIsTrue
  <2>1. PICK f \in Nat : Waits(key, f)
    BY DEF LimiterInv, TellsTheTruth
  <2>2. Passes(key) <=> Len(recent[key]) < Limit(key)
    BY DEF LimiterInv, CountsTheRecent, Passes
  <2>3. /\ now \in Nat /\ told[key] \in Nat /\ Window \in Nat /\ Second \in Nat
        /\ Limit(key) \in Nat
    BY LimiterAssumption, LimitIsPositive DEF LimiterInv, Table
  <2>4. ASSUME now >= told[key] PROVE Passes(key)
    <3>1. now >= f + Window
      BY <2>1, <2>3, <2>4 DEF Waits
    <3> QED
      BY <2>1, <2>2, <3>1 DEF Waits
  <2>5. ASSUME now + Second <= told[key] PROVE ~Passes(key)
    <3>1. now < f + Window
      BY <2>1, <2>3, <2>5 DEF Waits
    <3>2. Len(recent[key]) = Limit(key)
      BY <2>1, <3>1 DEF Waits
    <3> QED
      BY <2>2, <2>3, <3>2
  <2> QED
    BY <2>4, <2>5
<1> QED
  BY <1>1, LimiterInvariance, PTL

\* _purge: past its threshold the table only holds keys that were in use within
\* the window of the last call, so its size follows the traffic.
THEOREM TableFollowsTheTraffic == LimiterSpec => []TableHoldsWhoIsActive
<1>1. LimiterInv => TableHoldsWhoIsActive
  BY DEF LimiterInv
<1> QED
  BY <1>1, LimiterInvariance, PTL
=============================================================================
