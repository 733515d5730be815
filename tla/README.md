# A formal model of the waitlist backend

TLA+ specifications of the program under `src/app`: a FastAPI backend with
which diners of a restaurant join a waiting list from their phones and hosts call
them from a tablet. The modules here model what happens in that program when
requests, screens, hosts and the clock interleave; TLC checks them on small
instances and TLAPS proves the main results for every size.

Contents:

1. [The system](#1-the-system): components, state, operations, hard behaviours
2. [The modules](#2-the-modules) and how they correspond to the code
3. [What TLC checks](#3-what-tlc-checks): runs, bounds, fairness
4. [What is proved](#4-what-is-proved)
5. [Where the code and its text disagree](#5-where-the-code-and-its-text-disagree)
6. [What is not modelled](#6-what-is-not-modelled)
7. [The plan](#7-the-plan)
8. [Running it](#8-running-it)

## 1. The system

One process runs one asyncio event loop (a single worker: `InMemoryRealtimeBroker`
says so). Every HTTP request gets an `AsyncSession` (`src/app/database.py`), and
so one MySQL 8 / InnoDB transaction at REPEATABLE READ. Requests interleave at
every `await` of a statement. What the models take from the database:

* a plain `SELECT` reads the snapshot taken by the first plain `SELECT` of the
  transaction; `SELECT ... FOR UPDATE`, the upsert of the ticket counter, an
  `UPDATE` and a unique index act on the rows as they are;
* a lock is held until the commit or the rollback;
* `save()` of a repository loads the row again with `session.get`, which
  answers from the snapshot, and assigns the whole entity to it. SQLAlchemy then
  emits an `UPDATE` of the columns whose value differs from that old copy, and of
  no other.

| Component | State | Operations | Interacts with | Hard behaviour | What makes it correct |
|---|---|---|---|---|---|
| Queue entries and their status machine (`waitlist/domain`) | status, ticket, four timestamps of an entry; its events | `decide`, `transition`, `mark_on_the_way`, `join` | every waitlist transaction consults it | repeated and late actions | timestamps fit the status; events tell a walk of the machine |
| Waitlist transactions (`waitlist/application`, `waitlist/infrastructure`) | `queue_entry`, `entry_event`, `service_day_counter` | join, call, seat, no-show, remove, cancel, on the way | venue (pause, schedule), broker after the commit | races of joins on one phone, of hosts and diners on one entry; stale snapshots; rollbacks; lock waits | each commit is one legal operation; no number is burned or given twice; one place per phone |
| What the queue answers (`positioning.py`, `views.py`, `get_host_queue.py`, `lookup_ticket.py`) | none of its own | position, estimate, panel, summary, hold, ticket search | reads the entries of several service dates | joins that commit out of `joined_at` order; tickets that restart | panel, position, estimate and search agree |
| Realtime (`shared/infrastructure/realtime.py`, `streams.py`) | subscriber queues; what each SSE generator has read and sent | publish, subscribe, wait with timeout, reload, close | requests announce after their commit; generators open a session per load | full queues, timeouts, lost announcements, reconnections | no announced change stays unseen; no screen goes back |
| Opening hours (`venues/domain`) | the weekly windows | `evaluate_schedule`, `service_date_at` | join asks both; the views ask the service date | windows over midnight, weeks with one open day, daylight saving | the list is open while a window holds; numbers restart only with a window |
| Venue settings (`venues/application`, `venues/infrastructure`) | `venue.paused`, `venue_schedule` | pause, resume, save the week | join reads the pause; screens are told | two panels that save at once | a save never undoes another setting; only valid rows are stored |
| Host sessions (`auth`) | `auth`, `user.last_login_at`, `user.is_active` | login, authenticate with a throttled touch, logout | every host request authenticates first | touch racing logout, two logins of an account, closed accounts | what was revoked or closed stays so |
| Rate limiter (`shared/infrastructure/rate_limit.py`) | the attempts per key, in memory | `hit` with its purge | limited routes by address, the login by account too | window edges, retries, a purge in another key's call | at most N attempts in any window; Retry-After is true; only keys in use stay |
| Connections and sessions (`database.py`, `*/dependencies.py`) | which session holds a connection of the pool | checkout, commit, release, close, timeout | every request and every stream refresh | streams that last for hours, clients that leave, an empty pool, a restart of MySQL | nobody waits for a connection holding one; all requests are served or fail |
| Migration, seed and entrypoint (`docker-entrypoint.sh`, `migrations`, `seed.py`) | the schema and its revision, the demo rows | `alembic upgrade head`, the seed, starting to serve | Docker restarts the container; hosts work meanwhile | crashes between DDL statements and between commits, two containers | who serves has everything; a restart does not add the demo queue again (it does overwrite the week, see divergence 2) |
| HTTP layer (`main.py`, routers, `error_handling.py`) | none of its own | dependencies, use case, second read, error body | all of the above | the order of what an endpoint does | see Waitlist and ConnectionPool |
| Phone numbers (`waitlist/domain/phone.py`) | none | normalise | join, search | - | one key per phone |

How a request of each kind goes:

* **join**: read the venue (snapshot), check open and not paused, look for an
  active entry of the phone, take the next ticket (locks the counter's row),
  insert the entry (unique index on venue and active phone), insert the event,
  commit, announce. If the insert finds the phone taken: roll back, read again, answer the
  entry that won.
* **host action**: authenticate (snapshot, and now and then the touch of the
  session), lock the entry, decide, save, insert the event, commit, announce.
* **cancel, on the way**: lock the entry, then as above.
* **stream**: validate in the session of the request and release it; subscribe,
  load in a short session, send, wait for a signal or a timeout, repeat.
* **login**: ask the limiter for the address, then for the account, then read the
  user, verify, insert the session, stamp the user, commit.

The hazards of this design are listed one by one, at the line where each bites,
in `PROJECT.json`; the properties below are aimed at them.

## 2. The modules

```
QueueEntry --> QueueLedger ------------------> QueueLedgerProofs
     |              |  \                          |        |
     |              |   `--> QueueView -----------+--> QueueViewProofs
     |              |        (with Positioning)   |
     `--> Waitlist -+ (implements) ---------> WaitlistProofs
Schedule --> VenueClock ------.
        `--> VenueSettings ---+-------------> VenueProofs
Auth -------------------------.
RateLimiter ------------------+-------------> AccessProofs
Realtime -----------------------------------> RealtimeProofs
ConnectionPool -----------------------------> ConnectionPoolProofs
Startup ------------------------------------> StartupProofs
```

Each `MC*` module extends one of them for TLC and adds the symmetry set or the
values of a constant.

**QueueEntry** holds the pure rules: `Decide` (`state_machine.py`),
`AfterTransition`, `AfterOnTheWay`, `DecideOnTheWay` and the events
(`entities.py`). A row keeps the columns these rules read or write; name, party
size and consent are written once and decide nothing.

**QueueLedger** is the abstract specification: an operation is one step on the
current state (`Enter`, `Change`, `OnTheWay`). It says what the waitlist promises
to someone who does not know about transactions, and carries the promises:
`NoGaps`, `TicketsUnique`, `OneActivePerPhone`, `TimesFitStatus`,
`HistoryIsAWalk`.

**Waitlist** is the program: each of `Workers` is a request in progress, `pc` is
the statement it will run next, `seen` is its snapshot's copy of the row, `draft`
the row it will write. Steps and code:

| Actions | Code |
|---|---|
| `JoinStart`, `JoinTurnedAway`, `NextTicket`, `InsertEntry`, `InsertDuplicate`, `JoinReread`, `JoinRereadMissing`, `RespondError` | `join_queue.py`, `SQLAlchemyTicketCounter`, the unique index of `QueueEntryModel`, the `join` route |
| `HostStart`, `DinerStart`, `LockEntry`, `LockRefused`, `SaveEntry` | `host_context`, `change_entry_status.py`, `leave_queue.py`, `notify_on_the_way.py`, `SQLAlchemyQueueEntryRepository` |
| `LogEvent`, `Commit`, `Abort` | `SQLAlchemyEntryEventRepository.add`, the unit of work, `get_session` |
| `SetPaused`, `Tick` | `set_paused.py`, the clock |

Locks are not variables: `HoldsEntry`, `HoldsCounter` and `ClaimsPhone` derive
them from where each request is. The counter is the one row
whose uncommitted value is kept in the shared state (`lastTicket`), because the
upsert of the next request acts on it; `UndoTicket` takes it back on a rollback.
A join may belong to today's or to yesterday's service date
(hours over midnight); which one is module Schedule's matter.
`ImplementsLedger` is the refinement, with `CommittedTickets` as the mapping of
the counter.

**QueueView** puts the queries on top of the ledger with a clock: `ListActive`,
`ComputePositions`, `EntryView`, `HostQueue`, `FindForLookup`, `HoldExpired`. A
list is `Sorted(S)`, the one list of the entries of `S` in the order of
`sort_key`; that it exists and holds each entry once is a lemma.
`Join` may carry a reading of the clock that is `MaxLag` old, since `joined_at`
is read before the counter's lock is awaited. The other operations use the
current reading: nothing that these queries answer depends on how old theirs is.
The service date of each
moment is any function at all: a schedule that is not edited never takes it back
(VenueClock), but a host may edit the week at any time and the local clock may
be set back. `NeverBack` names the venues where it does not go back, and only
`LookupFindsTheMostRecent` needs it: the docstring at `ports.py:35` promises the
most recent entry, and the search orders by service date. **Positioning** is `eta_range`, in minutes.

**Realtime** abstracts the list to the number of changes committed so far, so a
load returns a version. Requests commit and then announce, or die between
(`LoseAnnouncement`); `TimeChanges` is a change nobody announces. Every generator
goes through `Open`, `Load`, `SendState`, `Receive` or `Timeout`, `SendFeed` (hosts
only) and may `Close` at any point. Announcing is one step because no `await`
in `publish` suspends.

**Schedule** has `EvaluateSchedule` and `ServiceDate` on weeks of `DaysInWeek`
days of `TicksPerDay` ticks; **VenueClock** lets the clock tick, skip and repeat
an hour under every schedule. `IsOpenAt` defines openness by containment, not case by
case as the code does; `RunsInto` is the one case where the list may go on past the
closing it announces (section 5).

**VenueSettings** models pause, resume and schedule saves of one venue: `save()`
writes the entity, the flush sends one `UPDATE` per changed row of the week in
primary-key order (`NextRow`), each of which waits for its row.

**Auth** models logins, authentications and logouts on the rows of `auth` and
`user`. A login reads the account, verifies the password in a thread, inserts
the session (which share-locks the user's row through the foreign key) and
updates the user. `CloseAccount` is an administrator's statement; the code has no
route for it but reads `is_active` everywhere.

**RateLimiter** models `SlidingWindowRateLimiter` and who asks it: `Visit` is the
dependency of a limited route (`rate_limit`), `Login` the second question of the
login's handler, for the account. `hit` has no `await`, so each call is one step:
`Purged`, then `Counting`, then `Admit` or `Refuse`. `recent` and `told` are there
to observe: the attempts that passed within the last window, whatever the table
remembers, and the hour a refused client was told. All limits of the program are
for the same window, which is why the purge may use the caller's.

**ConnectionPool** models who holds a connection. Each task has the sessions that
the code gives it: `RequestSession` (`get_session`, shared by all services of a
request) and, for a stream, `ShortSession` (`WaitlistServicesFactory.open`). A
session takes a connection for its first statement (`Start`, `CommitAndGoOn`,
`Refresh` put it in `waiting`, `Checkout` in `lent`) and gives it back when its
transaction or its `async with` ends (`CommitAndGoOn`, `Close`). `OpenStream` goes through `ReleaseSession`;
`Disconnect`, `PoolTimeout` and `StatementFails` leave every `async with` the task
is in. `row` stands for any row or unique key that requests wait for while they
hold a connection. `RestartDatabase` kills the connections that are lent and
frees the row; those in the pool are replaced at the next checkout
(`pool_pre_ping`), so they are not told apart.

**Startup** models the container's script. `Create` is one DDL statement of
`upgrade`, which MySQL commits by itself; the tables and indexes are those of the
migration, in its order, each with what it needs. The seed's session has a
`snapshot`, the rows it has `written`, and a commit after the first venue when
there is a demo queue, which a second session adds (`CountEntries`, `InsertQueue`,
`CommitQueue`). A row that another container is inserting blocks `Ensure`; one
that was committed after the snapshot makes it fail on the unique key. `Fail`
stops the script (`set -e`) and Docker starts it again. `SaveWeek` and
`EmptyQueue` are the hosts, once somebody serves. The passwords, the venues'
data and the entries of the demo queue are left out.

A name that starts a comment `Fault:` is a plausible bug in the definition below
it. Nothing uses these definitions in the specification; swapping one in must
make the property that guards against it fail (`mutants` in `PROJECT.json`).

## 3. What TLC checks

| Run | Instance | Shows |
|---|---|---|
| `races` | 3 requests, 1 venue, 2 phones, 2 keys, call, seat, cancel, 1 pause, 2 service dates | `TypeOK`, `NoGaps`, `OneActivePerPhone`, `ImplementsLedger` |
| `lifecycle` | 2 requests, 1 phone, 2 keys, call, no-show, on the way, 2 clock readings | `HistoryIsAWalk`, `NoLostColumn`, `EveryRequestEnds` |
| `loser` | 3 requests, 1 phone, 2 keys, cancel | divergence 1 |
| `queue_view` | 3 entries, 3 phones, 2 clock readings with any service dates, joins that lag | accounting, search, order, holds |
| `realtime` | 1 diner, 1 host, 2 requests, 1 silent change, queues of 3 | what screens see |
| `venue_clock` | every schedule of 3 days of 4 ticks, 4 days | openness; the announced hour, to the moment it comes; the service date |
| `settings` | 3 requests, weeks of 2 days of 3 ticks | settings stay apart and valid, saves end |
| `auth` | 1 account, 2 logins, 2 calls, 1 logout, 2 clock readings | sessions stay revoked, accounts closed |
| `startup` | 2 containers, 2 demo venues, 2 crashes, all switches | who serves is ready, nothing is seeded again, everybody serves |
| `reseed` | 1 container, 1 crash | divergence 2 |
| `pool` | 2 requests, 2 streams, 2 connections, 2 transactions each, 1 restart | no hold and wait, connections in use, requests served |
| `limiter` | 1 address, 2 accounts, 2 routes, windows of 3 readings, 8 readings, purge from the third key | limit, Retry-After, table |

Why the bounds are enough to meet the cases:

* Three requests let two race for a lock or a phone while a third ends the
  winner's entry. Two phones let a join wait for the counter of another one's
  join. Every lock and every check of the code is per venue, so the runs take one
  venue; the proofs and `QueueView` do not fix how many there are.
* A key per insert bounds the entries (`MaxId`); two are needed for a join after
  an entry has ended. The three operations of `lifecycle` are those that leave
  and read a column that another one wrote; `removed` differs from `seated` in
  the statuses it starts from, which the proofs cover.
* `DayLength = 1` gives two service dates in `races`; in `lifecycle` the date
  does not matter and the clock does.
* In `queue_view` there is one venue, as its queries filter by venue and nothing
  else; three entries are the fewest in which a search has two candidates of one
  phone beside another diner, or a waiting entry has one on either side.
  `HoldMinutes = 0` makes a hold expire within two readings.
  `MinutesPerPosition = 4` makes both ends of an estimate round.
* An announcement puts a signal and a notice in a host's queue. A queue of three
  overflows at the second announcement. `RefreshEvery = 2` distinguishes a
  heartbeat from a reload, and is the program's. Its queues hold 100, which only
  makes overflow rarer.
* Three days are a yesterday, a today and a day that is neither; four ticks are
  enough for a window to start, hold and end at different hours on either side
  of midnight. `Horizon` passes a whole week and one day more.
* A week of two rows is the least that two saves can lock in two orders.
* The touch interval of one reading lets a call be refreshed or not.
* Two containers meet in every step of each other's script, and two crashes may
  hit one twice or both. Two venues are the least for which the commit after the
  first leaves something to do.
* As many streams as connections is the least that could fill the pool and leave
  a request outside; two transactions are those of a host's action (the touch or
  the action, then the answer).
* A limiter of one and two attempts, windows of three readings and a `Second` of
  two make an attempt reach exactly the edge of the window, and Retry-After round
  up; eight readings pass two windows. The threshold of one key makes the third
  key purge; the program's is 10,000.

Symmetry is used only in runs without liveness, over sets whose members are
interchangeable in the specification. Deadlock checking is on in the runs whose
specification never stops (`realtime`, `venue_clock`, `pool`, whose clients come
again, and the waitlist, where a request may always be turned away); it is off
where requests are used once, entries or readings run out or the script has
nothing left to do (`queue_view`, `settings`, `auth`, `limiter`, `startup`).

Fairness, and what justifies it:

* `Waitlist`, `VenueSettings`: strong fairness of the statements of each request.
  InnoDB queues the waiters of a lock, so a statement that can run again and
  again does run; a statement that waits for nothing runs because the event loop
  resumes every ready task. Nothing is assumed of new requests, of crashes, or
  of the clock.
* `Realtime`: weak fairness of each generator and of its timer. Nothing obliges a
  request to announce or a client to stay.
* `Startup`: weak fairness of each container's script, which Docker starts again
  whenever it stops (`restart: unless-stopped`). Nothing is assumed of crashes or
  of hosts. `EveryContainerServes` starts from a completed migration.
* `ConnectionPool`: strong fairness of the checkout of each request's session and
  of its lock on the row (both are queues), weak fairness of what a task does
  with a connection in hand. Nothing obliges a client to come or to go, a stream
  to refresh, or a waiter to give up.
* `Auth`: weak fairness of each request's statements, with InnoDB's deadlock
  detection as one of them. A wait may also end by its timeout (`Abort`), but
  nothing is assumed of it.

## 4. What is proved

With `tlapm`, for every value of the constants that satisfies the named
assumptions. These say that counts and times are naturals, that the kinds of
requests are disjoint sets, and of the code's own values:

| Assumption | Beyond types |
|---|---|
| `LedgerAssumption`, `ViewAssumption` | a timestamp is never the value that stands for NULL; service dates are days |
| `WaitlistAssumption` | the operations are those of the API |
| `RealtimeAssumption` | a queue holds something, a stream reloads at some heartbeat |
| `ScheduleAssumption`, `HorizonAssumption` | weeks and days are not empty |
| `SettingsAssumption` | a host asks for valid windows (`validate_schedule` refuses others) |
| `AuthAssumption` | a touch is throttled by some interval |
| `LimiterAssumption` | limits and the window are positive |
| `PoolAssumption`, `StartupAssumption` | finitely many tasks and containers; there is a demo venue |
| `UpgradeAssumption` | the migration creates each object after those it needs |

| Theorem | Says |
|---|---|
| `QueueLedgerProofs!LedgerKeepsPromises` | the one-step ledger keeps its types and all five promises |
| `WaitlistProofs!Types` | type correctness of the transactions, the ledger's types of the committed state included |
| `WaitlistProofs!Refinement` | `Spec => Ledger!Spec` under the mapping of the counter |
| `NoNumberIsBurned`, `NumbersAreUnique`, `OnePlacePerPhone`, `TimestampsFit`, `HistoryTells` | the promises, of the committed state of the program |
| `NoColumnIsLost` | the UPDATE built from an old snapshot stores the row computed under the lock |
| `QueueViewProofs!QueueFollowsTheLedger` | the queue with a clock and lagging joins implements the ledger, so its promises hold under every query |
| `EveryoneHasAPosition`, `PositionIsThePlace` | the types; who waits has a position among those the panel counts, one more than those who wait and came before |
| `NoTicketIsLost` | rows and summary of the panel add up to the numbers issued |
| `SearchAnswersTheLatest` | the search finds the last join, where the service date has not gone back |
| `PlacesAreKept`, `HoldsAreNotExtended` | what a step may do to a place and to a hold |
| `EtaIsARange`, `FartherNeverReadsLess` | estimates are ranges of multiples of five and grow with the position |
| `RealtimeProofs!RealtimeTypeCorrect` | the types, and no queue beyond its capacity |
| `NoAnnouncementIsMissed`, `NoticesAreBacked`, `ScreensGoForward` | idle streams have shown what was announced; a notice is not ahead of its list; no screen goes back |
| `VenueProofs!OpenExactlyWhenHeld`, `HoursAreTrue`, `AJoinHasItsDate`, `NumberingIsStable` | openness, the announced hour (true but in the case `RunsInto` names) and the service date, for weeks and days of any length |
| `SettingsTypeCorrect`, `StoredWindowsStayValid`, `NothingIsUndone` | saves of any number of panels store valid windows and keep each other's part |
| `AccessProofs!AuthTypeCorrect`, `LoginsAreWhole`, `LogoutIsFinal`, `ClosedIsFinal` | logins leave all or nothing, what was revoked or closed stays so |
| `LimitHolds`, `RetryAfterTellsTheTruth`, `TableFollowsTheTraffic` | the limit in any window, the seconds answered, the size of the table |
| `ConnectionPoolProofs!PoolTypeCorrect`, `NoHoldAndWait`, `ConnectionsAreInUse` | no more connections are lent than there are; no task waits for one while it has one; none is out with a task that does not use it |
| `StartupProofs!ServingIsReady`, `StartupTypeCorrect`, `SeededOnce` | for any containers, venues and crashes, who serves has the whole schema and seed; the demo queue is not added again by who met it |

The argument for the transactions. None of the promises is inductive, since
what a commit does depends on what the request computed earlier. `IInv` adds what a
request in progress may rely on:

* `OpFits`: the operation of a request fits the statement it is at;
* `JoinOK`: from the counter to the commit a join's ticket is the counter's value,
  and once inserted its key is new and its phone is free;
* `ChangeOK`: from the lock to the commit the row and the event it carries are
  those of one legal operation on the row as it *is* (nobody else can commit to
  it), and its snapshot's copy is `Older`, a state the row has left for good. This
  last part is why the `UPDATE` of the differing columns loses nothing:
  no column ever returns to a value it had;
* `Exclusive`: locks on entries and counters, uncommitted keys and phones exclude;
* `Keys`: keys grow, and the joins in progress do not exceed those left;
* the ledger's promises, of the committed state, which are preserved because
  every step is a step of the ledger or leaves it alone (`StepRefines`).

`IInv` is preserved by the step of a request in three parts: the request that
moves (`OwnJoinOK`, `OwnChangeOK`), the others (`OtherJoinOK`, `OtherChangeOK`,
which use the locks), and what is shared (`ExclusiveStep`, `KeysStep`,
`TypeOKStep`).

The argument for the connections: a session that waits or works tells where its
task is (`InUse`), and no session does both (`Apart`). A task is at one place, so
its two sessions never wait and work at once. Cardinalities of finite sets give
the bound on the pool.

The argument for the start: each step of the script may rely on what it has done
(`Migrating`: the objects before the one it creates; `Seeding`: the venues before
the one it is at, and the demo queue from the second on), committed or written in
its own open transaction. Another container takes nothing of that away (`Stays`),
since nothing that is committed is ever undone and a crash rolls back only what
its own container relies on.

The argument for the queries. `ViewInv` adds two facts to the ledger's promises:
the keys are 1, 2, ... (`Keys`), and an entry has the service date of the moment
it joined at (`DatedByJoin`), however late it committed. A finite set with a
total order has a list (`ListExists`, which ranks each element by how many are
below it) and the list has each element once (`ListHasEach`), so the position of
a diner is the number of those ahead, plus one (`PositionsCount`). A step is a
join, which adds one key after all the others, or it `KeepsPlaces`: it makes
nobody wait again and changes nobody's order. What can be ahead of a diner after
a step is then what was, and at most the new key. The accounting counts the
tickets twice: `NoGaps` and `TicketsUnique` make the diners of a date as many as
the numbers, and the statuses divide them. The search compares dates; where the
service date never goes back, `DatedByJoin` turns a later date into a later join.

The argument for the streams. `NothingAnnouncedIsMissed` speaks of streams that
wait; `Signalled` carries it through a reload: with an empty queue, what was
announced is shown, or read and about to be sent. A signal that is dropped from a
full queue does no harm since a queue with something in it owes nothing.
`Backed` is the same of the notices and `Fresh` says that a load is never older
than what it replaces. `Counted` ties the version to the requests that committed.

The argument for the schedule. `ClockInv` is only the types; the work is in
`EvaluateSchedule`, which looks at yesterday, today and the days to come. Weekdays
repeat with the week (`DivModUnique`), so any weekday comes within one
(`WeekdayComes`) and the first opening is found among finitely many days or
there is none. The end of the window that the status names is where the list
closes, unless another holds that moment (`OpenAtItsEnd`): only the next day's
can, as yesterday's would have been asked first. `MomentOrder` turns days and hours into one line of moments.

The argument for the settings. `Requested` says what a save in progress wrote
and means to write, `OwnPart` that it only holds rows of the week or the pause,
never both. A row is written valid as a whole or refused by its CHECK, whatever
mixture of two weeks it is.

The argument for the sessions. A call works on a copy of the session's row;
`OneWriter` says that a row has one writer at its commit, and that this writer
keeps the row revoked if it is: its UPDATE waits for the row and stores only the
columns that it changed. `LoginsHold` says what a login in progress has read and
is to insert, so that its commit leaves the session and the account's stamp at
once.

The argument for the limiter. `Table` keeps the attempts of a key in order, and
`CountsTheRecent` relates what the table counts, purged or not, to what passed.
`TellsTheTruth` is inductive where `RetryAfterIsTrue` is not: a refused client
was told the moment at which its first counted attempt ages, and until then the
key's attempts stay as many as its limit.

Some of these results need induction over the data (the least element of a set,
the list of a set, a sum over a history). The library's induction theorems take
an operator as a parameter and cannot be used; `NatLessThanWellFounded` and
`WFMin` say that a set of naturals has a least element, which is enough
(`LeastNat`, `SetInduction`). Recursion in the modules with proofs is written as
recursive functions.

Only model-checked: all liveness (`EveryRequestEnds` of Waitlist and of Auth,
`EveryChangeIsShown`, `EverySaveEnds`, `EveryContainerServes`,
`EveryRequestIsServed`), which is out of the proof system's reach. Every invariant
and every action property that a passing run checks is also proved.
`TimesFitStatus`, `TicketsUnique` of the program, `PositionsCountWhoIsAhead` and the
estimates are proved and no run restates them.

## 5. Where the code and its text disagree

Each is a run that TLC must find violated.

1. **`loser`** - `join_queue.py:84` says the loser of two joins of one phone
   gets the winner's entry. If the winner has been cancelled or seated before
   the re-read, there is none, and the route fails with a 500
   (`diner_router.py:54`).
2. **`reseed`** - `setup_demo_data.sh:10` says that running it again does not
   touch what exists, and names the schedule; `seed.py:8` says the same. With
   `--open-24h`, which the script and the container use by default, `seed.py:133`
   updates every row of `venue_schedule` at each start, so a restart overwrites
   the week a host saved.

Four more observations, which the models have and no run needs to state:

* The hour that an open list announces is false in one case. When yesterday's
  window crosses midnight and ends after today's has started, or just then,
  `evaluate_schedule` answers yesterday's end (`schedule.py:73`) though today's
  window goes on. With yesterday 3 to 2 and today 1 to 3, the list announces 2 at
  tick 1, and closes at 3. `validate_schedule` lets such weeks in, and the run
  explores them. No text of the repository promises the hour, so this is not
  a divergence; `RunsInto` names the case and `AnnouncedHourIsTrue` demands that
  the list closes at the announced hour in every other.
* Dropping the oldest event of a full queue is harmless for the list
  (`NothingAnnouncedIsMissed`), as `realtime.py:23` says, but the notices of the
  host's feed travel in the same queue and no later state contains them.
* Two schedules saved at once each write only the columns that differ from the
  week they had read, so the stored week may mix both. It is a valid week
  (`StoredWindowsAreValid`) and both hosts are answered 200.
* Two logins of one account that have both inserted their session share-lock the
  user's row and then wait for each other to update it; InnoDB rolls one back.
  The other one ends and nothing half-done stays (`LoginLeavesBothOrNeither`): it
  needs `get_session` to roll back what failed, and with a login that keeps its
  transaction after an error the next login of the account waits for ever, which
  is the mutant of `EveryRequestEnds`.

A join that read the list open may also commit after the list was paused. The
model has this interleaving; the code's texts do not promise otherwise for a
request already in progress, so it is recorded as a hazard only.

## 6. What is not modelled

* A rate limiter that is disabled, and the attempts it forgets when the process
  restarts (it lives in memory, by its own docstring for one worker of a pilot).
* `downgrade()` and the offline mode of Alembic, which an operator runs by hand. A
  migration that was killed half way has no way out in the model either: every
  later start fails on the first table, until someone drops what is there.
* The date of the demo queue: it is taken from the default week before the same
  run opens the venue for 24 hours. Nothing says which date it should have.
* Phone parsing (a library), password and token hashing (their outcome is), HTTP
  schemas and error bodies, logging: no state or no control of their own.
* Responses that a request reads in its own transaction after it wrote. QueueView
  asks every question on every committed state instead.
* Several worker processes: the broker is in memory and its own text says one.
* Deadlocks between a lock on an entry and others in the waitlist: a request
  takes at most one entry's lock, and joins take none, so `lifecycle` finds no
  cycle.
  Gap locks of InnoDB are not modelled.
* A venue that lacks the row of some weekday, which `save()` would insert
  (`repository.py:46-48`). The seed is the only code that makes venues, and gives
  each all seven rows.
* A venue without any service date yet (no window has ever started): such a list
  is closed and takes no joins (`OpenListHasAServiceDate`).

## 7. The plan

Done: the order was the entry rules, the ledger, the transactions and their
proofs, then the settings, the clock, the realtime streams, the queries and the
sessions, then the rate limiter, the connections and the start, and then the
proofs of all of them.

Next, extending the model:

1. A composition of Waitlist with Schedule and VenueSettings: joins that ask
   the schedule of their snapshot while panels edit it; what an edit does to the
   service date, to the numbering and to the search.
2. Authentication and its touch as the first part of a host's request in
   Waitlist (they share a session and a snapshot when there is no touch, and not
   when there is).
3. Responses read in the transaction that writes.
4. Several entries and a stream per diner, composed from Realtime and QueueView:
   what a screen shows of a position.

Then, proving more:

1. Safety halves of the liveness properties, which are in reach: that a request
   which has not ended always has a statement that can run or waits for one that
   has (Waitlist, VenueSettings), as state predicates on the guards.
2. Realtime: that a screen lags the list by no more than the changes nobody
   announced since its last load.
3. Startup: what a restart may change of the week of a venue, with and without
   `--open-24h`.

## 8. Running it

```
tlc -workers 2 -config MCWaitlistRaces.cfg MCWaitlist.tla
tlapm WaitlistProofs.tla
```

`PROJECT.json` lists the runs with their modules and configurations, the mutants,
the lines of code each definition stands for, the hazards and the theorems.
