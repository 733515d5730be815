--------------------------------- MODULE Auth ---------------------------------
(***************************************************************************)
(* The sessions of the hosts' tablets (app/auth): logins open them, every  *)
(* request of a panel authenticates with one and refreshes its last use    *)
(* now and then, logouts revoke them. Each is a transaction on a snapshot; *)
(* an UPDATE names the columns that differ from the snapshot's and locks   *)
(* its row until the commit; the INSERT of a session share-locks the row   *)
(* of its user, which the foreign key refers to.                           *)
(***************************************************************************)
EXTENDS Naturals

CONSTANTS
  Users,
  Logins, Calls, Logouts,   \* requests, each used once; a login is its token
  TouchInterval,            \* clock readings between two refreshes
  MaxTime                   \* bound: last reading of the clock

ASSUME AuthAssumption ==
  /\ TouchInterval \in Nat \ {0}
  /\ MaxTime \in Nat \ {0}
  /\ Logins \cap (Calls \cup Logouts) = {} /\ Calls \cap Logouts = {}

VARIABLES
  sessions,    \* the rows of auth, by token
  users,       \* the columns is_active and last_login_at of user
  clock,
  pc,          \* where each request is
  target,      \* the token it carries, or the user it logs in
  seen,        \* its snapshot's copy of the row it is to update
  draft        \* the row it is to write or has written

vars == <<sessions, users, clock, pc, target, seen, draft>>

Requests == Logins \cup Calls \cup Logouts
NoTime   == 0
Times    == 1 .. MaxTime
NoTarget == "none"
NoCopy   == [none |-> TRUE]

Session  == [user : Users, createdAt : Times, usedAt : Times, revokedAt : Times \cup {NoTime}]
User     == [active : BOOLEAN, lastLoginAt : Times \cup {NoTime}]

Ended == {"done", "refused", "victim", "error"}

Init ==
  /\ sessions = [t \in {} |-> NoCopy]
  /\ users = [u \in Users |-> [active |-> TRUE, lastLoginAt |-> NoTime]]
  /\ clock = 1
  /\ pc = [r \in Requests |-> "idle"]
  /\ target = [r \in Requests |-> NoTarget]
  /\ seen = [r \in Requests |-> NoCopy]
  /\ draft = [r \in Requests |-> NoCopy]

Go(r, where) == pc' = [pc EXCEPT ![r] = where]

\* Fault: a session that fails is not rolled back.
EndWithoutRollback(r, how) ==
  /\ Go(r, how)
  /\ LET ends == how \in {"done", "victim"} IN
     /\ seen' = IF ends THEN [seen EXCEPT ![r] = NoCopy] ELSE seen
     /\ draft' = IF ends THEN [draft EXCEPT ![r] = NoCopy] ELSE draft

\* The request ends: what it holds goes with its transaction.
End(r, how) ==
  /\ Go(r, how)
  /\ seen' = [seen EXCEPT ![r] = NoCopy]
  /\ draft' = [draft EXCEPT ![r] = NoCopy]

-----------------------------------------------------------------------------
(* LoginUseCase *)

\* The account is read, and its password is verified in a thread meanwhile.
LoginStart(r, u) ==
  /\ pc[r] = "idle"
  /\ target' = [target EXCEPT ![r] = u]
  /\ seen' = [seen EXCEPT ![r] = users[u]]
  /\ Go(r, "verify")
  /\ UNCHANGED <<sessions, users, clock, draft>>

\* A wrong password, an unknown account or one that was read inactive.
LoginRefused(r) ==
  /\ pc[r] = "verify"
  /\ End(r, "refused")
  /\ UNCHANGED <<sessions, users, clock, target>>

LoginVerified(r) ==
  /\ pc[r] = "verify"
  /\ seen[r].active
  /\ draft' = [draft EXCEPT ![r] = [user |-> target[r], createdAt |-> clock,
                                    usedAt |-> clock, revokedAt |-> NoTime]]
  /\ Go(r, "insert")
  /\ UNCHANGED <<sessions, users, clock, target, seen>>

\* Locks on the row of user u: shared from the INSERT to the end of the
\* transaction, exclusive from the UPDATE to the commit.
SharesUser(r, u)  == r \in Logins /\ target[r] = u /\ draft[r] # NoCopy /\ pc[r] # "insert"
UpdatesUser(r, u) == r \in Logins /\ target[r] = u /\ pc[r] = "commit"

\* Fault: the session is committed on its own.
InsertAndCommit(r) ==
  /\ pc[r] = "insert"
  /\ \A q \in Logins : ~UpdatesUser(q, target[r])
  /\ sessions' = [t \in DOMAIN sessions \cup {r} |-> IF t = r THEN draft[r] ELSE sessions[t]]
  /\ Go(r, "stamp")
  /\ UNCHANGED <<users, clock, target, seen, draft>>

\* sessions.add: the INSERT waits while another login updates the user.
InsertSession(r) ==
  /\ pc[r] = "insert"
  /\ \A q \in Logins : ~UpdatesUser(q, target[r])
  /\ Go(r, "stamp")
  /\ UNCHANGED <<sessions, users, clock, target, seen, draft>>

\* users.save: the UPDATE waits while another login shares the user's row.
StampUser(r) ==
  /\ pc[r] = "stamp"
  /\ \A q \in Logins \ {r} : ~SharesUser(q, target[r])
  /\ Go(r, "commit")
  /\ UNCHANGED <<sessions, users, clock, target, seen, draft>>

\* Two logins that share the row and wait to update it: InnoDB rolls one back.
DeadlockVictim(r) ==
  /\ pc[r] = "stamp"
  /\ \E q \in Logins \ {r} : pc[q] = "stamp" /\ target[q] = target[r]
  /\ End(r, "victim")
  /\ UNCHANGED <<sessions, users, clock, target>>

\* Fault: the UPDATE of user names every column of the entity.
StampEveryColumn(copy, current, now) == [copy EXCEPT !.lastLoginAt = now]

\* The row of user that the UPDATE leaves: only last_login_at differs from the
\* copy the login read.
Stamped(copy, current, now) == [current EXCEPT !.lastLoginAt = now]

LoginCommit(r) ==
  LET u == target[r] IN
  /\ r \in Logins /\ pc[r] = "commit"
  /\ sessions' = [t \in DOMAIN sessions \cup {r} |-> IF t = r THEN draft[r] ELSE sessions[t]]
  /\ users' = [users EXCEPT ![u] = Stamped(seen[r], @, draft[r].createdAt)]
  /\ End(r, "done")
  /\ UNCHANGED <<clock, target>>

-----------------------------------------------------------------------------
(* AuthenticateUseCase and LogoutUseCase *)

\* The tokens a tablet may send: one it was given, or one that means nothing.
Tokens == DOMAIN sessions \cup {NoTarget}

\* Does the session let its user in, in the state the snapshot shows?
LetsIn(t) ==
  /\ t \in DOMAIN sessions
  /\ sessions[t].revokedAt = NoTime
  /\ users[sessions[t].user].active

CallRefused(r, t) ==
  /\ pc[r] = "idle"
  /\ ~LetsIn(t)
  /\ target' = [target EXCEPT ![r] = t]
  /\ End(r, "refused")
  /\ UNCHANGED <<sessions, users, clock>>

\* A session used a short while ago is not written.
CallGranted(r, t) ==
  /\ pc[r] = "idle"
  /\ LetsIn(t)
  /\ clock < sessions[t].usedAt + TouchInterval
  /\ target' = [target EXCEPT ![r] = t]
  /\ End(r, "done")
  /\ UNCHANGED <<sessions, users, clock>>

CallTouches(r, t) ==
  /\ pc[r] = "idle"
  /\ LetsIn(t)
  /\ clock >= sessions[t].usedAt + TouchInterval
  /\ target' = [target EXCEPT ![r] = t]
  /\ seen' = [seen EXCEPT ![r] = sessions[t]]
  /\ draft' = [draft EXCEPT ![r] = [sessions[t] EXCEPT !.usedAt = clock]]
  /\ Go(r, "save")
  /\ UNCHANGED <<sessions, users, clock>>

\* A session that is unknown or revoked needs no logout.
LogoutNothing(r, t) ==
  /\ pc[r] = "idle"
  /\ t \in DOMAIN sessions => sessions[t].revokedAt # NoTime
  /\ target' = [target EXCEPT ![r] = t]
  /\ End(r, "done")
  /\ UNCHANGED <<sessions, users, clock>>

LogoutStart(r, t) ==
  /\ pc[r] = "idle"
  /\ t \in DOMAIN sessions
  /\ sessions[t].revokedAt = NoTime
  /\ target' = [target EXCEPT ![r] = t]
  /\ seen' = [seen EXCEPT ![r] = sessions[t]]
  /\ draft' = [draft EXCEPT ![r] = [sessions[t] EXCEPT !.revokedAt = clock]]
  /\ Go(r, "save")
  /\ UNCHANGED <<sessions, users, clock>>

\* Fault: the UPDATE of auth names every column of the entity.
SaveEveryColumn(old, new, current) == new

\* sessions.save: the row that its UPDATE leaves.
DirtyColumns(old, new, current) ==
  [current EXCEPT
     !.usedAt    = IF new.usedAt    # old.usedAt    THEN new.usedAt    ELSE @,
     !.revokedAt = IF new.revokedAt # old.revokedAt THEN new.revokedAt ELSE @]

SavesSession(r, t) == r \notin Logins /\ target[r] = t /\ pc[r] = "commit"

\* The UPDATE waits for the row, and applies to it as it is then.
SaveSession(r) ==
  LET t == target[r] IN
  /\ pc[r] = "save"
  /\ \A q \in Requests : ~SavesSession(q, t)
  /\ draft' = [draft EXCEPT ![r] = DirtyColumns(seen[r], @, sessions[t])]
  /\ Go(r, "commit")
  /\ UNCHANGED <<sessions, users, clock, target, seen>>

SessionCommit(r) ==
  /\ r \notin Logins /\ pc[r] = "commit"
  /\ sessions' = [sessions EXCEPT ![target[r]] = draft[r]]
  /\ End(r, "done")
  /\ UNCHANGED <<users, clock, target>>

-----------------------------------------------------------------------------
\* The request dies before its commit.
Abort(r) ==
  /\ pc[r] \notin Ended \cup {"idle"}
  /\ End(r, "error")
  /\ UNCHANGED <<sessions, users, clock, target>>

\* An administrator closes an account in the database, with the row locked.
CloseAccount(u) ==
  /\ users[u].active
  /\ \A q \in Logins : ~SharesUser(q, u)
  /\ users' = [users EXCEPT ![u].active = FALSE]
  /\ UNCHANGED <<sessions, clock, pc, target, seen, draft>>

Tick ==
  /\ clock < MaxTime
  /\ clock' = clock + 1
  /\ UNCHANGED <<sessions, users, pc, target, seen, draft>>

Proceed(r) ==
  \/ LoginVerified(r)
  \/ LoginRefused(r)
  \/ InsertSession(r)
  \/ StampUser(r)
  \/ DeadlockVictim(r)
  \/ LoginCommit(r)
  \/ SaveSession(r)
  \/ SessionCommit(r)

Next ==
  \/ \E r \in Logins, u \in Users : LoginStart(r, u)
  \/ \E r \in Calls, t \in Tokens : CallRefused(r, t) \/ CallGranted(r, t) \/ CallTouches(r, t)
  \/ \E r \in Logouts, t \in Tokens : LogoutNothing(r, t) \/ LogoutStart(r, t)
  \/ \E r \in Requests : Proceed(r) \/ Abort(r)
  \/ \E u \in Users : CloseAccount(u)
  \/ Tick

Spec == Init /\ [][Next]_vars

\* The event loop resumes every ready task; InnoDB serves the waiters of a
\* lock in turn and rolls a victim back when they wait for each other.
FairSpec == Spec /\ \A r \in Requests : WF_vars(Proceed(r))

-----------------------------------------------------------------------------
\* Types; no session is used before it was opened, and a request that has ended
\* keeps nothing of its transaction.
TypeOK ==
  /\ DOMAIN sessions \subseteq Logins
  /\ \A t \in DOMAIN sessions :
       /\ sessions[t] \in Session
       /\ sessions[t].createdAt <= sessions[t].usedAt
  /\ users \in [Users -> User]
  /\ clock \in Times
  /\ pc \in [Requests -> Ended \cup {"idle", "verify", "insert", "stamp", "save", "commit"}]
  /\ target \in [Requests -> Users \cup Logins \cup {NoTarget}]
  /\ \A r \in Requests :
       /\ seen[r] \in Session \cup User \cup {NoCopy}
       /\ draft[r] \in Session \cup {NoCopy}
       /\ pc[r] \in Ended \cup {"idle"} => seen[r] = NoCopy /\ draft[r] = NoCopy

\* A session whose logout was answered lets nobody in again, whatever touches
\* of it were in progress.
LoggedOutStaysOut ==
  [][\A r \in Calls, q \in Logouts :
       /\ pc[q] = "done" /\ target[q] # NoTarget
       /\ pc[r] = "idle" /\ target'[r] = target[q]
       => pc'[r] = "refused"]_vars

\* A login in progress does not open again the account that was closed while
\* its password was being verified.
ClosedAccountStaysClosed ==
  [][\A u \in Users : ~users[u].active => ~users'[u].active]_vars

\* A login leaves its session and the time of the login together, or neither.
LoginLeavesBothOrNeither ==
  /\ \A t \in DOMAIN sessions : users[sessions[t].user].lastLoginAt # NoTime
  /\ \A u \in Users : users[u].lastLoginAt # NoTime =>
       \E t \in DOMAIN sessions :
         sessions[t].user = u /\ sessions[t].createdAt = users[u].lastLoginAt

\* Every request ends, whatever row it waits for.
EveryRequestEnds == \A r \in Requests : pc[r] # "idle" ~> pc[r] \in Ended

=============================================================================
