------------------------------- MODULE Startup -------------------------------
(***************************************************************************)
(* What a container does before it serves (docker-entrypoint.sh): the      *)
(* migration, the seed if it is asked for, and uvicorn. Any number of      *)
(* containers may start on one database; each stops at its first error,    *)
(* may be killed at any point, and is started again by Docker (restart:    *)
(* unless-stopped). MySQL commits every DDL statement by itself; the seed  *)
(* (app/seed.py) runs in transactions, on snapshots, and a row that        *)
(* another transaction has inserted and not committed blocks whoever       *)
(* inserts it too.                                                         *)
(***************************************************************************)
EXTENDS Naturals, Sequences, FiniteSets

CONSTANTS
  Containers,
  DemoVenues,    \* DEMO_VENUES, in order; the first is La Terraza Azul
  MaxCrashes     \* bound: containers killed, all in all

\* The objects that initial_schema.upgrade creates, in its order, each with the
\* tables it refers to or indexes.
Upgrade ==
  << [name |-> "venue",                              needs |-> {}],
     [name |-> "queue_entry",                        needs |-> {"venue"}],
     [name |-> "ix_queue_entry_venue_status_joined", needs |-> {"queue_entry"}],
     [name |-> "ix_queue_entry_venue_ticket",        needs |-> {"queue_entry"}],
     [name |-> "service_day_counter",                needs |-> {"venue"}],
     [name |-> "user",                               needs |-> {"venue"}],
     [name |-> "venue_schedule",                     needs |-> {"venue"}],
     [name |-> "auth",                               needs |-> {"user"}],
     [name |-> "entry_event",          needs |-> {"queue_entry", "user", "venue"}],
     [name |-> "ix_entry_event_entry_occurred",      needs |-> {"entry_event"}],
     [name |-> "ix_entry_event_venue_occurred",      needs |-> {"entry_event"}] >>

\* Nothing is created before what it needs.
ASSUME UpgradeAssumption ==
  \A i \in DOMAIN Upgrade :
    Upgrade[i].needs \subseteq {Upgrade[j].name : j \in 1 .. i - 1}

ASSUME StartupAssumption ==
  /\ IsFiniteSet(Containers) /\ MaxCrashes \in Nat
  /\ DemoVenues \in Seq(STRING) /\ DemoVenues # <<>>

Objects == {Upgrade[i].name : i \in DOMAIN Upgrade}

Venues == {DemoVenues[i] : i \in DOMAIN DemoVenues}
Rows   == {"venue", "user"} \X Venues

VARIABLES
  env,        \* SEED_ON_START, SEED_DEMO_QUEUE and SEED_OPEN_24H
  created,    \* the objects of the schema
  stamped,    \* is the revision in alembic_version?
  rows,       \* the venues and users that are committed
  schedule,   \* the committed week of each venue
  copies,     \* how often the demo queue was committed
  active,     \* are entries of the last copy still waiting or called?
  pc, at,     \* where each container is: its step, and the object or venue
  snapshot,   \* the rows its transaction sees
  written,    \* those it has inserted and not committed
  opened,     \* has it opened every venue, uncommitted?
  crashes,
  met         \* for observation only: was the demo queue there when it started?

database == <<created, stamped, rows, schedule, copies, active>>
vars == <<env, database, pc, at, snapshot, written, opened, crashes, met>>

Steps == {"down", "heads", "create", "begin", "venue", "user", "demo", "queue",
          "insert", "commit queue", "close", "commit", "serving"}

TypeOK ==
  /\ env \in [seed : BOOLEAN, demo : BOOLEAN, open24h : BOOLEAN]
  /\ created \subseteq Objects
  /\ stamped \in BOOLEAN
  /\ rows \subseteq Rows
  /\ schedule \in [Venues -> {"none", "default", "24h", "saved"}]
  /\ copies \in Nat /\ active \in BOOLEAN
  /\ pc \in [Containers -> Steps] /\ at \in [Containers -> Nat]
  /\ snapshot \in [Containers -> SUBSET Rows]
  /\ written \in [Containers -> SUBSET Rows]
  /\ opened \in [Containers -> BOOLEAN]
  /\ crashes \in 0 .. MaxCrashes
  /\ met \in [Containers -> BOOLEAN]

Init ==
  /\ env \in [seed : BOOLEAN, demo : BOOLEAN, open24h : BOOLEAN]
  /\ created = {} /\ stamped = FALSE
  /\ rows = {} /\ schedule = [v \in Venues |-> "none"]
  /\ copies = 0 /\ active = FALSE
  /\ pc = [c \in Containers |-> "down"]
  /\ at = [c \in Containers |-> 1]
  /\ snapshot = [c \in Containers |-> {}]
  /\ written = [c \in Containers |-> {}]
  /\ opened = [c \in Containers |-> FALSE]
  /\ crashes = 0
  /\ met = [c \in Containers |-> FALSE]

-----------------------------------------------------------------------------
(* Going from step to step. *)

Goto(c, step, n) == pc' = [pc EXCEPT ![c] = step] /\ at' = [at EXCEPT ![c] = n]

\* A transaction ends, committed or not.
EndTransaction(c) ==
  /\ snapshot' = [snapshot EXCEPT ![c] = {}]
  /\ written' = [written EXCEPT ![c] = {}]
  /\ opened' = [opened EXCEPT ![c] = FALSE]

NoTransaction == UNCHANGED <<snapshot, written, opened>>

\* The process is gone, and its transaction is rolled back.
Exit(c) == Goto(c, "down", 1) /\ EndTransaction(c)

\* Fault: the script goes on after a command that failed (no set -e).
GoesOn(c) ==
  /\ Goto(c, IF pc[c] = "create" /\ env.seed THEN "begin" ELSE "serving", 1)
  /\ EndTransaction(c)

\* A command fails: the script stops, and the container with it.
Fail(c) == Exit(c)

Start(c) ==
  /\ pc[c] = "down"
  /\ Goto(c, "heads", 1)
  /\ met' = [met EXCEPT ![c] = copies > 0]
  /\ NoTransaction /\ UNCHANGED <<env, database, crashes>>

\* Killed by Docker, by the host, or with the connection to the database.
Crash(c) ==
  /\ pc[c] # "down" /\ crashes < MaxCrashes
  /\ Exit(c)
  /\ crashes' = crashes + 1
  /\ UNCHANGED <<env, database, met>>

-----------------------------------------------------------------------------
(* alembic upgrade head. *)

AfterMigration == IF env.seed THEN "begin" ELSE "serving"

\* Fault: the revision is not looked up.
AlwaysPending == TRUE

Pending == ~stamped

ReadHeads(c) ==
  /\ pc[c] = "heads"
  /\ Goto(c, IF Pending THEN "create" ELSE AfterMigration, 1)
  /\ NoTransaction /\ UNCHANGED <<env, database, crashes, met>>

\* One DDL statement: it commits, or fails because the object exists.
Create(c) ==
  /\ pc[c] = "create" /\ at[c] <= Len(Upgrade)
  /\ LET object == Upgrade[at[c]].name IN
       \/ /\ object \notin created
          /\ created' = created \cup {object}
          /\ Goto(c, "create", at[c] + 1) /\ NoTransaction
       \/ object \in created /\ Fail(c) /\ UNCHANGED created
  /\ UNCHANGED <<env, stamped, rows, schedule, copies, active, crashes, met>>

Stamp(c) ==
  /\ pc[c] = "create" /\ at[c] > Len(Upgrade)
  /\ stamped' = TRUE
  /\ Goto(c, AfterMigration, 1)
  /\ NoTransaction
  /\ UNCHANGED <<env, created, rows, schedule, copies, active, crashes, met>>

-----------------------------------------------------------------------------
(* python -m app.seed: venues and users. *)

Others(c) == Containers \ {c}

\* The first SELECT of a transaction.
Begin(c) ==
  /\ pc[c] = "begin"
  /\ snapshot' = [snapshot EXCEPT ![c] = rows]
  /\ Goto(c, IF at[c] <= Len(DemoVenues) THEN "venue" ELSE "close", at[c])
  /\ UNCHANGED <<env, database, written, opened, crashes, met>>

\* _ensure_venue and _ensure_user: a row that the transaction sees is left
\* alone; another is inserted. Its unique key waits for whoever is inserting it.
Ensure(c, row, next) ==
  /\ \/ /\ row \in snapshot[c]
        /\ Goto(c, next, at[c]) /\ NoTransaction
     \/ /\ row \notin snapshot[c] /\ row \notin rows
        /\ \A d \in Others(c) : row \notin written[d]
        /\ written' = [written EXCEPT ![c] = @ \cup {row}]
        /\ Goto(c, next, at[c]) /\ UNCHANGED <<snapshot, opened>>
     \/ /\ row \notin snapshot[c] /\ row \in rows
        /\ Fail(c)
  /\ UNCHANGED <<env, database, crashes, met>>

EnsureVenue(c) == pc[c] = "venue" /\ Ensure(c, <<"venue", DemoVenues[at[c]]>>, "user")

EnsureUser(c) == pc[c] = "user" /\ Ensure(c, <<"user", DemoVenues[at[c]]>>, "demo")

\* The venue is done: the demo queue follows the first one.
NextVenue(c) ==
  /\ pc[c] = "demo" /\ ~(env.demo /\ at[c] = 1)
  /\ IF at[c] < Len(DemoVenues) THEN Goto(c, "venue", at[c] + 1)
                                ELSE Goto(c, "close", at[c])
  /\ NoTransaction /\ UNCHANGED <<env, database, crashes, met>>

\* What a commit of the seed's session makes of the weeks.
Weeks(c) ==
  [v \in Venues |-> IF opened[c] /\ <<"venue", v>> \in rows \cup written[c] THEN "24h"
                    ELSE IF <<"venue", v>> \in written[c] THEN "default"
                    ELSE schedule[v]]

CommitFirstVenue(c) ==
  /\ pc[c] = "demo" /\ env.demo /\ at[c] = 1
  /\ rows' = rows \cup written[c] /\ schedule' = Weeks(c)
  /\ Goto(c, "queue", 1) /\ EndTransaction(c)
  /\ UNCHANGED <<env, created, stamped, copies, active, crashes, met>>

-----------------------------------------------------------------------------
(* The demo queue. *)

\* Fault: only entries in the queue count.
CountsTheActive == active

\* The COUNT of _seed_demo_queue, of entries in any status.
HasEntries == copies > 0

\* The SELECTs of the fresh session.
CountEntries(c) ==
  /\ pc[c] = "queue"
  /\ IF HasEntries THEN Goto(c, "begin", 2) ELSE Goto(c, "insert", 1)
  /\ NoTransaction /\ UNCHANGED <<env, database, crashes, met>>

\* The five joins. The counter's row, and the phones, wait for another container
\* that is at it; a phone that is active is refused.
InsertQueue(c) ==
  /\ pc[c] = "insert"
  /\ \A d \in Others(c) : pc[d] # "commit queue"
  /\ IF active THEN Fail(c) ELSE Goto(c, "commit queue", 1) /\ NoTransaction
  /\ UNCHANGED <<env, database, crashes, met>>

CommitQueue(c) ==
  /\ pc[c] = "commit queue"
  /\ copies' = copies + 1 /\ active' = TRUE
  /\ Goto(c, "begin", 2) /\ NoTransaction
  /\ UNCHANGED <<env, created, stamped, rows, schedule, crashes, met>>

-----------------------------------------------------------------------------
(* The end of the seed. *)

\* _open_all_schedules: an UPDATE of every week, which waits for those that
\* others have inserted or updated.
OpenAll(c) ==
  /\ pc[c] = "close"
  /\ IF env.open24h
     THEN /\ \A d \in Others(c) : ~opened[d] /\ written[d] = {}
          /\ opened' = [opened EXCEPT ![c] = TRUE]
     ELSE UNCHANGED opened
  /\ Goto(c, "commit", 1)
  /\ UNCHANGED <<env, database, snapshot, written, crashes, met>>

CommitSeed(c) ==
  /\ pc[c] = "commit"
  /\ rows' = rows \cup written[c] /\ schedule' = Weeks(c)
  /\ Goto(c, "serving", 1) /\ EndTransaction(c)
  /\ UNCHANGED <<env, created, stamped, copies, active, crashes, met>>

-----------------------------------------------------------------------------
(* The hosts, once a container serves. *)

Serving == \E c \in Containers : pc[c] = "serving"

\* update_schedule, unless a seed has the rows.
SaveWeek(v) ==
  /\ Serving /\ <<"user", v>> \in rows
  /\ \A c \in Containers : ~opened[c]
  /\ schedule' = [schedule EXCEPT ![v] = "saved"]
  /\ UNCHANGED <<env, created, stamped, rows, copies, active,
                 pc, at, snapshot, written, opened, crashes, met>>

\* The host has seated or removed every guest of the demo queue.
EmptyQueue ==
  /\ Serving /\ active
  /\ active' = FALSE
  /\ UNCHANGED <<env, created, stamped, rows, schedule, copies,
                 pc, at, snapshot, written, opened, crashes, met>>

\* The next step of the script.
Advance(c) ==
  \/ Start(c) \/ ReadHeads(c) \/ Create(c) \/ Stamp(c)
  \/ Begin(c) \/ EnsureVenue(c) \/ EnsureUser(c) \/ NextVenue(c) \/ CommitFirstVenue(c)
  \/ CountEntries(c) \/ InsertQueue(c) \/ CommitQueue(c)
  \/ OpenAll(c) \/ CommitSeed(c)

Next ==
  \/ \E c \in Containers : Advance(c) \/ Crash(c)
  \/ \E v \in Venues : SaveWeek(v)
  \/ EmptyQueue

Spec == Init /\ [][Next]_vars

\* Docker restarts what stops, and a script that is not blocked goes on.
FairSpec == Spec /\ \A c \in Containers : WF_vars(Advance(c))

-----------------------------------------------------------------------------
(* Properties. *)

\* Whoever serves finds the whole schema and, if the seed was asked for, every
\* venue with its week and its user and the demo queue, though the seed was
\* killed half way, failed, or was done by another container.
ServesOnlyWhenReady ==
  Serving =>
    /\ stamped /\ created = Objects
    /\ env.seed => /\ rows = Rows
                   /\ \A v \in Venues : schedule[v] # "none"
                   /\ env.demo => copies > 0

\* test_demo_queue_is_added_only_once, with restarts, other containers and hosts
\* in between: a container that starts when the demo queue was there never adds
\* it again, whatever became of its guests.
NoStartSeedsAgain ==
  [][\A c \in Containers : pc[c] = "commit queue" /\ copies' > copies => ~met[c]]_vars

\* Once a migration was completed, every container serves in the end, whoever
\* fails against the other's seed or is killed. (A migration killed half way
\* leaves objects without a revision, and every later one fails on the first.)
EveryContainerServes ==
  \A c \in Containers : stamped ~> pc[c] = "serving"

\* seed.py: what exists is not touched; setup_demo_data.sh names the schedule.
SavedWeekIsKept ==
  [][\A v \in Venues : schedule[v] = "saved" => schedule'[v] = "saved"]_vars
=============================================================================
