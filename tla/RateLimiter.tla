----------------------------- MODULE RateLimiter -----------------------------
(***************************************************************************)
(* SlidingWindowRateLimiter (app/shared/infrastructure/rate_limit.py): the *)
(* attempts of each key, in the memory of the process, and the requests    *)
(* that ask it. A route asks with the client's address before its handler  *)
(* runs; the handler of the login asks again with the account's name. hit  *)
(* is synchronous, so each call is one step. Every limit of the program is *)
(* for the same window, one minute.                                        *)
(***************************************************************************)
EXTENDS Integers, SequencesExt

CONSTANTS
  Clients,          \* addresses
  Accounts,         \* usernames, stripped and in lower case
  Routes,           \* those that are limited by address; the login is one
  RouteLimit,       \* attempts per window of each route
  AccountLimit,     \* LOGIN_PER_USERNAME
  Window,           \* clock readings in 60 seconds
  Second,           \* clock readings in one
  PurgeThreshold,   \* keys the table may hold before old ones are purged
  LastReading       \* bound: of the clock

ASSUME LimiterAssumption ==
  /\ "login" \in Routes
  /\ RouteLimit \in [Routes -> Nat \ {0}] /\ AccountLimit \in Nat \ {0}
  /\ Window \in Nat \ {0} /\ Second \in Nat \ {0}
  /\ PurgeThreshold \in Nat /\ LastReading \in Nat

VARIABLES
  now,       \* time.monotonic
  hits,      \* the attempts that passed, of the keys in the table
  logins,    \* logins whose address passed and whose account was not asked yet
  \* For observation only:
  recent,    \* the attempts of each key that passed within the last window
  told,      \* when a refused key may retry by what it was told; 0 if it was not
  called     \* the reading of the last call

limiterVars == <<now, hits, logins, recent, told, called>>

Keys == (Routes \X Clients) \cup ({"login-user"} \X Accounts)

Limit(key) == IF key[1] = "login-user" THEN AccountLimit ELSE RouteLimit[key[1]]

LimiterInit ==
  /\ now = 1 /\ called = 0
  /\ hits = <<>>
  /\ logins = {}
  /\ recent = [key \in Keys |-> <<>>]
  /\ told = [key \in Keys |-> 0]

-----------------------------------------------------------------------------
(* The limiter. *)

\* What is left of a list once its attempts were dropped from the left as long
\* as they were a window old: one that is exactly that old goes.
Counting(times, at) ==
  LET fresh == {i \in DOMAIN times : times[i] > at - Window}
  IN IF fresh = {} THEN <<>> ELSE SubSeq(times, Min(fresh), Len(times))

Attempts(key) == IF key \in DOMAIN hits THEN hits[key] ELSE <<>>

\* Fault: a key goes when its first attempt is old.
OldByFirst(key) == Head(hits[key]) <= now - Window

\* A key goes when its last attempt is old, by the window of the call.
Old(key) == Last(hits[key]) <= now - Window

\* Fault: nothing is ever purged.
NeverPurged == hits

\* _purge, when the table has outgrown its threshold.
Purged ==
  IF Cardinality(DOMAIN hits) > PurgeThreshold
  THEN [key \in {k \in DOMAIN hits : ~Old(k)} |-> hits[key]]
  ELSE hits

\* Fault: rounded down.
RetryAfterFloor(first) == IF first + Window - now < Second THEN 1
                          ELSE (first + Window - now) \div Second

\* Seconds until the first attempt that counts is a window old, rounded up.
RetryAfter(first) == (first + Window - now + Second - 1) \div Second

Store(key, times) ==
  hits' = [k \in DOMAIN Purged \cup {key} |-> IF k = key THEN times ELSE Purged[k]]

Passes(key) == Len(Counting(Attempts(key), now)) < Limit(key)

\* hit, when it answers None.
Admit(key) ==
  /\ Passes(key)
  /\ Store(key, Append(Counting(Attempts(key), now), now))
  /\ recent' = [recent EXCEPT ![key] = Append(@, now)]
  /\ told' = [told EXCEPT ![key] = 0]

\* hit, when it answers the seconds to wait: the attempt is not recorded.
Refuse(key) ==
  /\ ~Passes(key)
  /\ LET counting == Counting(Attempts(key), now) IN
       /\ Store(key, counting)
       /\ told' = [told EXCEPT ![key] =
                     IF @ = 0 THEN now + Second * RetryAfter(Head(counting)) ELSE @]
  /\ UNCHANGED recent

-----------------------------------------------------------------------------
(* The requests. *)

\* The dependency of a limited route. A login that passes goes on to its
\* handler; an address has at most one of each account on its way (a bound).
Visit(route, client) ==
  /\ \/ Admit(<<route, client>>) /\ route # "login" /\ UNCHANGED logins
     \/ /\ Admit(<<route, client>>) /\ route = "login"
        /\ \E a \in Accounts : /\ <<client, a>> \notin logins
                               /\ logins' = logins \cup {<<client, a>>}
     \/ Refuse(<<route, client>>) /\ UNCHANGED logins
  /\ called' = now
  /\ UNCHANGED now

\* The handler of the login, before it looks at the password.
Login(client, account) ==
  /\ <<client, account>> \in logins
  /\ \/ Admit(<<"login-user", account>>)
     \/ Refuse(<<"login-user", account>>)
  /\ logins' = logins \ {<<client, account>>}
  /\ called' = now
  /\ UNCHANGED now

LimiterTick ==
  /\ now < LastReading
  /\ now' = now + 1
  /\ recent' = [key \in Keys |-> Counting(recent[key], now + 1)]
  /\ UNCHANGED <<hits, logins, told, called>>

LimiterNext ==
  \/ \E r \in Routes, i \in Clients : Visit(r, i)
  \/ \E i \in Clients, a \in Accounts : Login(i, a)
  \/ LimiterTick

LimiterSpec == LimiterInit /\ [][LimiterNext]_limiterVars

-----------------------------------------------------------------------------
(* Properties. *)

\* No window of any length-Window readings sees more attempts of a key pass
\* than its limit, whatever was forgotten in between by other keys' purges.
NeverMoreThanTheLimit ==
  \A key \in Keys : Len(recent[key]) <= Limit(key)

\* Retry-After is true: a client that waits as told passes, however often it
\* asked meanwhile, and a full second earlier it would not have.
RetryAfterIsTrue ==
  \A key \in Keys : told[key] # 0 =>
    /\ now >= told[key] => Passes(key)
    /\ now + Second <= told[key] => ~Passes(key)

\* The table outgrows its threshold only while that many keys are in use: past
\* it, every key it holds had an attempt within the window of the last call.
TableHoldsWhoIsActive ==
  Cardinality(DOMAIN hits) > PurgeThreshold + 1 =>
    \A key \in DOMAIN hits : Last(hits[key]) > called - Window
=============================================================================
