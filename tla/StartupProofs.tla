---------------------------- MODULE StartupProofs ----------------------------
(***************************************************************************)
(* For any containers, any demo venues and any number of crashes: whoever  *)
(* serves finds the whole schema and the whole seed. The invariant says    *)
(* what each step of the script may rely on: the objects created so far,   *)
(* the venues that are done, and the demo queue.                           *)
(***************************************************************************)
EXTENDS Startup, TLAPS

\* The venue, or user, at n of the demo venues is there for a container.
Has(c, kind, n) == <<kind, DemoVenues[n]>> \in rows \cup written[c]

Done(c, n) ==
  \A i \in DOMAIN DemoVenues : i < n => Has(c, "venue", i) /\ Has(c, "user", i)

InLoop(c) == pc[c] \in {"begin", "venue", "user", "demo"}
InQueue(c) == pc[c] \in {"queue", "insert", "commit queue"}
AtEnd(c)  == pc[c] \in {"close", "commit"}

\* What a container that migrates has done.
Migrating(c) ==
  /\ at[c] >= 1
  /\ pc[c] = "create" => \A i \in DOMAIN Upgrade : i < at[c] => Upgrade[i].name \in created
  /\ pc[c] \notin {"down", "heads", "create"} => stamped

\* What a container that seeds has done.
Seeding(c) ==
  /\ InLoop(c) => Done(c, at[c])
  /\ pc[c] \in {"venue", "user", "demo"} => at[c] \in DOMAIN DemoVenues
  /\ pc[c] \in {"user", "demo"} => Has(c, "venue", at[c])
  /\ pc[c] = "demo" => Has(c, "user", at[c])
  /\ InQueue(c) => Done(c, 2)
  /\ AtEnd(c) => Done(c, Len(DemoVenues) + 1)
  /\ (InLoop(c) /\ at[c] > 1) \/ AtEnd(c) => (env.demo => copies > 0)

Ready == rows = Rows /\ (env.demo => copies > 0)

Serves(c) == pc[c] = "serving" /\ env.seed => Ready

\* A week is made with its venue.
WeeksAreKnown == \A v \in Venues : <<"venue", v>> \in rows => schedule[v] # "none"

\* A row is being inserted by one container at most, and what is seen was committed.
RowsAreApart ==
  /\ \A c, d \in Containers : c # d => written[c] \cap written[d] = {}
  /\ \A c \in Containers : snapshot[c] \subseteq rows

IInv ==
  /\ TypeOK /\ RowsAreApart /\ WeeksAreKnown
  /\ stamped => created = Objects
  /\ \A c \in Containers : Migrating(c) /\ Seeding(c) /\ Serves(c)

\* TypeOK in two halves: the Booleans, and the rest.
Flags ==
  /\ env \in [seed : BOOLEAN, demo : BOOLEAN, open24h : BOOLEAN]
  /\ stamped \in BOOLEAN /\ active \in BOOLEAN
  /\ opened \in [Containers -> BOOLEAN]
  /\ met \in [Containers -> BOOLEAN]

Data ==
  /\ created \subseteq Objects
  /\ rows \subseteq Rows
  /\ schedule \in [Venues -> {"none", "default", "24h", "saved"}]
  /\ copies \in Nat
  /\ pc \in [Containers -> Steps] /\ at \in [Containers -> Nat]
  /\ snapshot \in [Containers -> SUBSET Rows]
  /\ written \in [Containers -> SUBSET Rows]
  /\ crashes \in 0 .. MaxCrashes

LEMMA TypeIsFlagsAndData == (TypeOK <=> Flags /\ Data) /\ (TypeOK <=> Flags /\ Data)'
BY DEF TypeOK, Flags, Data

-----------------------------------------------------------------------------
(* The lists the script goes through. *)

LEMMA UpgradeIsAList ==
  /\ Len(Upgrade) \in Nat
  /\ DOMAIN Upgrade = 1 .. Len(Upgrade)
BY DEF Upgrade

LEMMA DemoVenuesIsAList ==
  /\ Len(DemoVenues) \in Nat \ {0}
  /\ DOMAIN DemoVenues = 1 .. Len(DemoVenues)
BY StartupAssumption

\* A container that stays where it is keeps what it relies on, as long as
\* nothing that was committed is undone.
LEMMA Stays ==
  ASSUME NEW c \in Containers, TypeOK, TypeOK',
         Migrating(c), Seeding(c), Serves(c),
         env' = env, created \subseteq created', stamped => stamped',
         rows \subseteq rows', copies' \in Nat, copies' >= copies,
         pc'[c] = pc[c], at'[c] = at[c], written'[c] = written[c]
  PROVE  (Migrating(c) /\ Seeding(c) /\ Serves(c))'
<1>1. Migrating(c)'
  BY DEF Migrating
<1>2. \A k, n : Has(c, k, n) => Has(c, k, n)'
  BY DEF Has
<1>3. \A n : Done(c, n) => Done(c, n)'
  BY <1>2 DEF Done
<1>4. copies > 0 => copies' > 0
  BY DEF TypeOK
<1>5. Seeding(c)'
  BY <1>2, <1>3, <1>4 DEF Seeding, InLoop, InQueue, AtEnd
<1>6. Serves(c)'
  BY <1>4 DEF Serves, Ready, TypeOK
<1> QED BY <1>1, <1>5, <1>6

\* So a step of one container has to show only what that container may rely on.
LEMMA OneMoves ==
  ASSUME IInv, TypeOK', RowsAreApart', WeeksAreKnown', stamped' => created' = Objects,
         NEW c \in Containers,
         env' = env, created \subseteq created', stamped => stamped',
         rows \subseteq rows', copies' \in Nat, copies' >= copies,
         \A d \in Containers \ {c} :
           pc'[d] = pc[d] /\ at'[d] = at[d] /\ written'[d] = written[d],
         Migrating(c)', Seeding(c)', Serves(c)'
  PROVE  IInv'
<1>1. \A d \in Containers \ {c} : (Migrating(d) /\ Seeding(d) /\ Serves(d))'
  BY Stays DEF IInv
<1> QED BY <1>1 DEF IInv

-----------------------------------------------------------------------------
(* Starting, stopping, and the migration. *)

\* A container that is down, or about to migrate, relies on nothing.
LEMMA NothingYet ==
  ASSUME NEW c \in Containers, pc'[c] \in {"down", "heads", "create"}, at'[c] = 1
  PROVE  (Migrating(c) /\ Seeding(c) /\ Serves(c))'
<1>1. Migrating(c)'
  BY UpgradeIsAList DEF Migrating
<1>2. Seeding(c)' /\ Serves(c)'
  BY DEF Seeding, Serves, InLoop, InQueue, AtEnd, Done, Has
<1> QED BY <1>1, <1>2

LEMMA InvInit == Init => IInv
<1> SUFFICES ASSUME Init PROVE IInv
  OBVIOUS
<1>1. TypeOK
  <2>1. Flags
    BY DEF Init, Flags
  <2>2. Data
    BY StartupAssumption DEF Init, Data, Steps, Rows
  <2> QED BY <2>1, <2>2, TypeIsFlagsAndData
<1>2. RowsAreApart /\ WeeksAreKnown
  BY DEF Init, RowsAreApart, WeeksAreKnown
<1>3. ASSUME NEW c \in Containers PROVE Migrating(c) /\ Seeding(c) /\ Serves(c)
  BY DEF Init, Migrating, Seeding, Serves, InLoop, InQueue, AtEnd
<1> QED BY <1>1, <1>2, <1>3 DEF IInv, Init

\* A container that goes down takes nothing with it that was committed.
LEMMA InvExit ==
  ASSUME IInv, NEW c \in Containers, Exit(c), crashes' \in 0 .. MaxCrashes,
         UNCHANGED <<env, database, met>>
  PROVE  IInv'
<1> USE DEF IInv, Exit, Goto, EndTransaction, database
<1>1. TypeOK'
  <2>1. Flags'
    BY TypeIsFlagsAndData DEF Flags
  <2>2. Data'
    BY TypeIsFlagsAndData DEF Data, Steps
  <2> QED BY <2>1, <2>2, TypeIsFlagsAndData
<1>2. RowsAreApart' /\ WeeksAreKnown'
  BY DEF RowsAreApart, WeeksAreKnown, TypeOK
<1>3. (Migrating(c) /\ Seeding(c) /\ Serves(c))'
  <2>1. pc'[c] = "down" /\ at'[c] = 1
    BY DEF TypeOK
  <2> QED BY <2>1, NothingYet
<1> QED BY <1>1, <1>2, <1>3, OneMoves DEF TypeOK

LEMMA InvCrash ==
  ASSUME IInv, NEW c \in Containers, Crash(c)
  PROVE  IInv'
<1>1. crashes' \in 0 .. MaxCrashes
  BY StartupAssumption DEF IInv, Crash, TypeOK
<1> QED BY <1>1, InvExit DEF Crash

LEMMA InvStart ==
  ASSUME IInv, NEW c \in Containers, Start(c)
  PROVE  IInv'
<1> USE DEF IInv, Start, Goto, NoTransaction, database
<1>1. TypeOK'
  <2>1. Flags'
    BY TypeIsFlagsAndData DEF Flags
  <2>2. Data'
    BY TypeIsFlagsAndData DEF Data, Steps
  <2> QED BY <2>1, <2>2, TypeIsFlagsAndData
<1>2. RowsAreApart' /\ WeeksAreKnown'
  BY DEF RowsAreApart, WeeksAreKnown
<1>3. (Migrating(c) /\ Seeding(c) /\ Serves(c))'
  <2>1. pc'[c] = "heads" /\ at'[c] = 1
    BY DEF TypeOK
  <2> QED BY <2>1, NothingYet
<1> QED BY <1>1, <1>2, <1>3, OneMoves DEF TypeOK

\* A container that is done with the migration relies on nothing but the stamp.
LEMMA AfterTheMigration ==
  ASSUME NEW c \in Containers, TypeOK', pc'[c] = AfterMigration', at'[c] = 1, stamped'
  PROVE  (Migrating(c) /\ Seeding(c) /\ Serves(c))'
BY DemoVenuesIsAList
   DEF AfterMigration, Migrating, Seeding, Serves, InLoop, InQueue, AtEnd, Done

LEMMA InvReadHeads ==
  ASSUME IInv, NEW c \in Containers, ReadHeads(c)
  PROVE  IInv'
<1> USE DEF IInv, ReadHeads, Goto, NoTransaction, database
<1>1. TypeOK'
  <2>1. Flags'
    BY TypeIsFlagsAndData DEF Flags
  <2>2. Data'
    BY TypeIsFlagsAndData DEF Data, Steps, AfterMigration
  <2> QED BY <2>1, <2>2, TypeIsFlagsAndData
<1>2. RowsAreApart' /\ WeeksAreKnown'
  BY DEF RowsAreApart, WeeksAreKnown
<1>3. (Migrating(c) /\ Seeding(c) /\ Serves(c))'
  <2>1. CASE Pending
    <3>1. pc'[c] = "create" /\ at'[c] = 1
      BY <2>1 DEF TypeOK
    <3> QED BY <3>1, NothingYet
  <2>2. CASE ~Pending
    <3>1. pc'[c] = AfterMigration' /\ at'[c] = 1 /\ stamped'
      BY <2>2 DEF Pending, TypeOK, AfterMigration
    <3> QED BY <3>1, <1>1, AfterTheMigration
  <2> QED BY <2>1, <2>2
<1> QED BY <1>1, <1>2, <1>3, OneMoves DEF TypeOK

LEMMA InvCreate ==
  ASSUME IInv, NEW c \in Containers, Create(c)
  PROVE  IInv'
<1> DEFINE object == Upgrade[at[c]].name
<1>1. at[c] \in DOMAIN Upgrade
  BY UpgradeIsAList DEF IInv, TypeOK, Create, Migrating
<1>2. object \in Objects
  BY <1>1 DEF Objects
<1>3. CASE object \in created /\ Fail(c) /\ UNCHANGED created
  <2>1. UNCHANGED crashes /\ UNCHANGED <<env, database, met>> /\ Exit(c)
    BY <1>3 DEF Create, database, Fail
  <2> QED BY <2>1, InvExit DEF IInv, TypeOK
<1>4. CASE /\ object \notin created
           /\ created' = created \cup {object}
           /\ Goto(c, "create", at[c] + 1) /\ NoTransaction
  <2> USE <1>4 DEF IInv, Create, Goto, NoTransaction
  <2>1. TypeOK'
    <3>1. Flags'
      BY TypeIsFlagsAndData DEF Flags
    <3>2. at' \in [Containers -> Nat]
      BY TypeIsFlagsAndData DEF Data
    <3>3. created' \subseteq Objects
      BY <1>2, TypeIsFlagsAndData DEF Data
    <3>4. Data'
      BY <3>2, <3>3, TypeIsFlagsAndData DEF Data, Steps
    <3> QED BY <3>1, <3>4, TypeIsFlagsAndData
  <2>2. RowsAreApart' /\ WeeksAreKnown'
    BY DEF RowsAreApart, WeeksAreKnown
  <2>3. stamped' => created' = Objects
    BY <1>2
  <2>4. Migrating(c)'
    BY <1>1, UpgradeIsAList DEF Migrating, TypeOK
  <2>5. Seeding(c)' /\ Serves(c)'
    BY DEF Seeding, Serves, InLoop, InQueue, AtEnd, TypeOK
  <2> QED BY <2>1, <2>2, <2>3, <2>4, <2>5, OneMoves DEF TypeOK
<1> QED BY <1>3, <1>4 DEF Create

LEMMA InvStamp ==
  ASSUME IInv, NEW c \in Containers, Stamp(c)
  PROVE  IInv'
<1> USE DEF IInv, Stamp, Goto, NoTransaction
<1>1. TypeOK'
  <2>1. Flags'
    BY TypeIsFlagsAndData DEF Flags
  <2>2. Data'
    BY TypeIsFlagsAndData DEF Data, Steps, AfterMigration
  <2> QED BY <2>1, <2>2, TypeIsFlagsAndData
<1>2. RowsAreApart' /\ WeeksAreKnown'
  BY DEF RowsAreApart, WeeksAreKnown
<1>3. created' = Objects
  BY UpgradeIsAList DEF Migrating, Objects, TypeOK
<1>4. (Migrating(c) /\ Seeding(c) /\ Serves(c))'
  <2>1. pc'[c] = AfterMigration' /\ at'[c] = 1 /\ stamped'
    BY DEF TypeOK, AfterMigration
  <2> QED BY <2>1, <1>1, AfterTheMigration
<1> QED BY <1>1, <1>2, <1>3, <1>4, OneMoves DEF TypeOK

-----------------------------------------------------------------------------
(* The seed. *)

\* A container that keeps its rows, committed or not, keeps its venues.
LEMMA KeepsItsVenues ==
  ASSUME NEW c \in Containers, rows \cup written[c] \subseteq (rows \cup written[c])'
  PROVE  /\ \A k, n : Has(c, k, n) => Has(c, k, n)'
         /\ \A n : Done(c, n) => Done(c, n)'
BY DEF Has, Done

LEMMA InvBegin ==
  ASSUME IInv, NEW c \in Containers, Begin(c)
  PROVE  IInv'
<1> USE DEF IInv, Begin, Goto, database
<1>1. TypeOK'
  <2>1. Flags'
    BY TypeIsFlagsAndData DEF Flags
  <2>2. Data'
    BY TypeIsFlagsAndData DEF Data, Steps
  <2> QED BY <2>1, <2>2, TypeIsFlagsAndData
<1>2. RowsAreApart' /\ WeeksAreKnown'
  BY DEF RowsAreApart, WeeksAreKnown, TypeOK
<1>3. at'[c] = at[c] /\ (at[c] >= 1 /\ at[c] \in Nat) /\ InLoop(c)
  BY DEF TypeOK, InLoop, Migrating
<1>4. Done(c, at[c]) /\ (at[c] > 1 => (env.demo => copies > 0)) /\ stamped
  BY <1>3 DEF Seeding, Migrating
<1>5. (Migrating(c) /\ Seeding(c) /\ Serves(c))'
  <2>1. CASE at[c] <= Len(DemoVenues)
    <3>1. pc'[c] = "venue"
      BY <2>1 DEF TypeOK
    <3>2. Done(c, at[c])'
      BY <1>4, KeepsItsVenues
    <3>3. at'[c] \in DOMAIN DemoVenues
      BY <1>3, <2>1, DemoVenuesIsAList
    <3>4. Seeding(c)' /\ Serves(c)'
      BY <1>3, <1>4, <3>1, <3>2, <3>3 DEF Seeding, Serves, InLoop, InQueue, AtEnd
    <3> QED BY <1>3, <1>4, <3>1, <3>4 DEF Migrating
  <2>2. CASE ~(at[c] <= Len(DemoVenues))
    <3>1. pc'[c] = "close"
      BY <2>2 DEF TypeOK
    <3>2. Done(c, Len(DemoVenues) + 1)'
      BY <1>3, <1>4, <2>2, DemoVenuesIsAList DEF Done, Has
    <3>3. env.demo => copies > 0
      BY <1>3, <1>4, <2>2, DemoVenuesIsAList
    <3> QED BY <1>3, <1>4, <3>1, <3>2, <3>3
            DEF Migrating, Seeding, Serves, InLoop, InQueue, AtEnd
  <2> QED BY <2>1, <2>2
<1> QED BY <1>1, <1>2, <1>5, OneMoves DEF TypeOK

\* _ensure_venue and _ensure_user leave the row there, or fail.
LEMMA InvEnsure ==
  ASSUME IInv, NEW c \in Containers, NEW row \in Rows,
         NEW next \in {"user", "demo"}, Ensure(c, row, next),
         at[c] \in DOMAIN DemoVenues, InLoop(c),
         next = "user" => pc[c] = "venue" /\ row = <<"venue", DemoVenues[at[c]]>>,
         next = "demo" => pc[c] = "user" /\ row = <<"user", DemoVenues[at[c]]>>
  PROVE  IInv'
<1>1. CASE Fail(c) /\ UNCHANGED <<env, database, crashes, met>>
  BY <1>1, InvExit DEF IInv, TypeOK, Fail
<1>2. CASE \/ row \in snapshot[c] /\ Goto(c, next, at[c]) /\ NoTransaction
           \/ /\ row \notin snapshot[c] /\ row \notin rows
              /\ \A d \in Others(c) : row \notin written[d]
              /\ written' = [written EXCEPT ![c] = @ \cup {row}]
              /\ Goto(c, next, at[c]) /\ UNCHANGED <<snapshot, opened>>
  <2> USE DEF IInv, Goto, NoTransaction, database
  <2>1. UNCHANGED <<env, created, stamped, rows, schedule, copies, active, crashes, met>>
    BY DEF Ensure
  <2>2. /\ pc' = [pc EXCEPT ![c] = next] /\ at' = [at EXCEPT ![c] = at[c]]
        /\ UNCHANGED <<snapshot, opened>>
    BY <1>2
  <2>3. written' \in [Containers -> SUBSET Rows]
    BY <1>2 DEF TypeOK
  <2>4. TypeOK'
    <3>1. Flags'
      BY <2>1, <2>2, TypeIsFlagsAndData DEF Flags
    <3>2. Data'
      BY <2>1, <2>2, <2>3, TypeIsFlagsAndData DEF Data, Steps
    <3> QED BY <3>1, <3>2, TypeIsFlagsAndData
  <2>5. RowsAreApart' /\ WeeksAreKnown'
    BY <1>2, <2>1, <2>2 DEF RowsAreApart, WeeksAreKnown, TypeOK, Others
  <2>6. pc'[c] = next /\ at'[c] = at[c]
    BY <2>2 DEF TypeOK
  <2>7. row \in (rows \cup written[c])'
    BY <1>2, <2>1 DEF RowsAreApart, TypeOK
  <2>8. rows \cup written[c] \subseteq (rows \cup written[c])'
    BY <1>2, <2>1 DEF TypeOK
  <2>9. (Migrating(c) /\ Seeding(c) /\ Serves(c))'
    <3>1. Migrating(c)'
      BY <2>1, <2>6 DEF Migrating, InLoop
    <3>2. Done(c, at[c])' /\ (at[c] > 1 => (env.demo => copies > 0))
      BY <2>6, <2>8, KeepsItsVenues DEF Seeding
    <3>3. CASE next = "user"
      <4>1. Has(c, "venue", at[c])'
        BY <2>6, <2>7, <3>3 DEF Has
      <4> QED BY <2>1, <2>6, <3>1, <3>2, <3>3, <4>1
              DEF Seeding, Serves, InLoop, InQueue, AtEnd
    <3>4. CASE next = "demo"
      <4>1. Has(c, "user", at[c])'
        BY <2>6, <2>7, <3>4 DEF Has
      <4>2. Has(c, "venue", at[c])'
        BY <2>6, <2>8, <3>4, KeepsItsVenues DEF Seeding
      <4> QED BY <2>1, <2>6, <3>1, <3>2, <3>4, <4>1, <4>2
              DEF Seeding, Serves, InLoop, InQueue, AtEnd
    <3> QED BY <3>3, <3>4
  <2>10. \A d \in Containers \ {c} :
            pc'[d] = pc[d] /\ at'[d] = at[d] /\ written'[d] = written[d]
    BY <1>2, <2>2 DEF TypeOK
  <2> QED BY <2>1, <2>4, <2>5, <2>9, <2>10, OneMoves DEF TypeOK
<1> QED BY <1>1, <1>2 DEF Ensure

LEMMA InvEnsureEither ==
  ASSUME IInv, NEW c \in Containers, EnsureVenue(c) \/ EnsureUser(c)
  PROVE  IInv'
<1>1. at[c] \in DOMAIN DemoVenues /\ InLoop(c)
  BY DEF IInv, Seeding, EnsureVenue, EnsureUser, InLoop
<1>2. <<"venue", DemoVenues[at[c]]>> \in Rows /\ <<"user", DemoVenues[at[c]]>> \in Rows
  BY <1>1 DEF Rows, Venues
<1> QED BY <1>1, <1>2, InvEnsure DEF EnsureVenue, EnsureUser

LEMMA InvNextVenue ==
  ASSUME IInv, NEW c \in Containers, NextVenue(c)
  PROVE  IInv'
<1> USE DEF IInv, NextVenue, Goto, NoTransaction, database
<1>7. at[c] \in Nat
  BY TypeIsFlagsAndData DEF Data
<1>1. TypeOK'
  <2>1. Flags'
    BY TypeIsFlagsAndData DEF Flags
  <2>2. pc' \in [Containers -> Steps] /\ at' \in [Containers -> Nat]
    <3>1. CASE at[c] < Len(DemoVenues)
      <4>1. pc' = [pc EXCEPT ![c] = "venue"] /\ at' = [at EXCEPT ![c] = at[c] + 1]
        BY <3>1
      <4>2. at[c] + 1 \in Nat
        BY <1>7
      <4> QED BY <4>1, <4>2, TypeIsFlagsAndData DEF Data, Steps
    <3>2. CASE ~(at[c] < Len(DemoVenues))
      <4>1. pc' = [pc EXCEPT ![c] = "close"] /\ at' = [at EXCEPT ![c] = at[c]]
        BY <3>2
      <4> QED BY <4>1, TypeIsFlagsAndData DEF Data, Steps
    <3> QED BY <3>1, <3>2
  <2>3. Data'
    BY <2>2, TypeIsFlagsAndData DEF Data
  <2> QED BY <2>1, <2>3, TypeIsFlagsAndData
<1>2. RowsAreApart' /\ WeeksAreKnown'
  BY DEF RowsAreApart, WeeksAreKnown
<1>3. at[c] \in DOMAIN DemoVenues /\ Done(c, at[c] + 1) /\ stamped
  <2>1. at[c] \in DOMAIN DemoVenues /\ Done(c, at[c])
    BY DEF Seeding, InLoop
  <2>2. Has(c, "venue", at[c]) /\ Has(c, "user", at[c]) /\ stamped
    BY DEF Seeding, Migrating
  <2> QED BY <2>1, <2>2, DemoVenuesIsAList DEF Done
<1>4. env.demo => copies > 0
  BY <1>3, DemoVenuesIsAList DEF Seeding, InLoop
<1>5. \A n : Done(c, n) => Done(c, n)'
  BY KeepsItsVenues
<1>6. (Migrating(c) /\ Seeding(c) /\ Serves(c))'
  <2>1. CASE at[c] < Len(DemoVenues)
    <3>1. pc'[c] = "venue" /\ at'[c] = at[c] + 1
      BY <2>1 DEF TypeOK
    <3>2. Done(c, at[c])' /\ at'[c] \in DOMAIN DemoVenues /\ at'[c] >= 1
      BY <1>3, <1>5, <2>1, <3>1, DemoVenuesIsAList
    <3>3. Seeding(c)' /\ Serves(c)'
      BY <1>4, <3>1, <3>2 DEF Seeding, Serves, InLoop, InQueue, AtEnd
    <3> QED BY <1>3, <3>1, <3>2, <3>3 DEF Migrating
  <2>2. CASE ~(at[c] < Len(DemoVenues))
    <3>1. pc'[c] = "close" /\ at'[c] = at[c]
      BY <2>2 DEF TypeOK
    <3>2. Done(c, Len(DemoVenues) + 1)' /\ at'[c] >= 1
      BY <1>3, <1>5, <2>2, <3>1, DemoVenuesIsAList DEF Done
    <3>3. Seeding(c)' /\ Serves(c)'
      BY <1>4, <3>1, <3>2 DEF Seeding, Serves, InLoop, InQueue, AtEnd
    <3> QED BY <1>3, <3>1, <3>2, <3>3 DEF Migrating
  <2> QED BY <2>1, <2>2
<1> QED BY <1>1, <1>2, <1>6, OneMoves DEF TypeOK

\* A commit of the seed's session leaves no venue without its week.
LEMMA Commits ==
  ASSUME IInv, NEW c \in Containers,
         rows' = rows \cup written[c], schedule' = Weeks(c), EndTransaction(c)
  PROVE  /\ rows' \subseteq Rows
         /\ schedule' \in [Venues -> {"none", "default", "24h", "saved"}]
         /\ RowsAreApart' /\ WeeksAreKnown'
<1> USE DEF IInv, EndTransaction
<1>1. rows' \subseteq Rows
  BY DEF TypeOK
<1>2. schedule' \in [Venues -> {"none", "default", "24h", "saved"}]
  BY DEF TypeOK, Weeks
<1>3. RowsAreApart'
  BY DEF RowsAreApart, TypeOK
<1>4. WeeksAreKnown'
  BY DEF WeeksAreKnown, Weeks
<1> QED BY <1>1, <1>2, <1>3, <1>4

LEMMA InvCommitFirstVenue ==
  ASSUME IInv, NEW c \in Containers, CommitFirstVenue(c)
  PROVE  IInv'
<1>1. /\ rows' \subseteq Rows
      /\ schedule' \in [Venues -> {"none", "default", "24h", "saved"}]
      /\ RowsAreApart' /\ WeeksAreKnown'
  BY Commits DEF CommitFirstVenue
<1> USE DEF IInv, CommitFirstVenue, Goto, EndTransaction
<1>2. TypeOK'
  <2>1. Flags'
    BY TypeIsFlagsAndData DEF Flags
  <2>2. Data'
    BY <1>1, TypeIsFlagsAndData DEF Data, Steps
  <2> QED BY <2>1, <2>2, TypeIsFlagsAndData
<1>3. pc'[c] = "queue" /\ at'[c] = 1 /\ stamped
  BY DEF TypeOK, Migrating
<1>4. Done(c, 2)'
  BY DemoVenuesIsAList DEF Seeding, Done, Has
<1>5. Seeding(c)' /\ Serves(c)'
  BY <1>3, <1>4 DEF Seeding, Serves, InLoop, InQueue, AtEnd
<1>6. Migrating(c)'
  BY <1>3 DEF Migrating
<1> QED BY <1>1, <1>2, <1>5, <1>6, OneMoves DEF TypeOK

-----------------------------------------------------------------------------
(* The demo queue. *)

\* What the steps of the demo queue rely on and leave.
LEMMA AtTheQueue ==
  ASSUME IInv, NEW c \in Containers, InQueue(c)
  PROVE  stamped /\ Done(c, 2)
BY DEF IInv, InQueue, Seeding, Migrating

LEMMA StaysAtTheQueue ==
  ASSUME NEW c \in Containers, stamped', Done(c, 2)', InQueue(c)', at'[c] = 1
  PROVE  (Migrating(c) /\ Seeding(c) /\ Serves(c))'
<1>1. pc'[c] \in {"queue", "insert", "commit queue"}
  BY DEF InQueue
<1>2. Migrating(c)'
  <2>1. at'[c] >= 1
    OBVIOUS
  <2>2. pc'[c] # "create"
    BY <1>1
  <2> QED BY <2>1, <2>2 DEF Migrating
<1>3. Seeding(c)' /\ Serves(c)'
  BY <1>1 DEF Seeding, Serves, InLoop, InQueue, AtEnd
<1> QED BY <1>2, <1>3

LEMMA LeavesTheQueue ==
  ASSUME NEW c \in Containers, stamped', Done(c, 2)', pc'[c] = "begin", at'[c] = 2,
         copies' > 0
  PROVE  (Migrating(c) /\ Seeding(c) /\ Serves(c))'
<1>1. Done(c, at[c])'
  BY DEF Done, Has
<1> QED BY <1>1 DEF Migrating, Seeding, Serves, InLoop, InQueue, AtEnd

LEMMA InvCountEntries ==
  ASSUME IInv, NEW c \in Containers, CountEntries(c)
  PROVE  IInv'
<1> USE DEF IInv, CountEntries, Goto, NoTransaction, database
<1>1. TypeOK'
  <2>1. Flags'
    BY TypeIsFlagsAndData DEF Flags
  <2>2. pc' \in [Containers -> Steps] /\ at' \in [Containers -> Nat]
    <3>1. CASE HasEntries
      <4>1. pc' = [pc EXCEPT ![c] = "begin"] /\ at' = [at EXCEPT ![c] = 2]
        BY <3>1
      <4> QED BY <4>1, TypeIsFlagsAndData DEF Data, Steps
    <3>2. CASE ~HasEntries
      <4>1. pc' = [pc EXCEPT ![c] = "insert"] /\ at' = [at EXCEPT ![c] = 1]
        BY <3>2
      <4> QED BY <4>1, TypeIsFlagsAndData DEF Data, Steps
    <3> QED BY <3>1, <3>2
  <2>3. Data'
    BY <2>2, TypeIsFlagsAndData DEF Data
  <2> QED BY <2>1, <2>3, TypeIsFlagsAndData
<1>2. RowsAreApart' /\ WeeksAreKnown'
  BY DEF RowsAreApart, WeeksAreKnown
<1>3. stamped' /\ Done(c, 2)'
  BY AtTheQueue, KeepsItsVenues DEF InQueue
<1>4. (Migrating(c) /\ Seeding(c) /\ Serves(c))'
  <2>1. CASE HasEntries
    <3>1. pc'[c] = "begin" /\ at'[c] = 2 /\ copies' > 0
      BY <2>1 DEF TypeOK, HasEntries
    <3> QED BY <1>3, <3>1, LeavesTheQueue
  <2>2. CASE ~HasEntries
    <3>1. InQueue(c)' /\ at'[c] = 1
      BY <2>2 DEF TypeOK, InQueue
    <3> QED BY <1>3, <3>1, StaysAtTheQueue
  <2> QED BY <2>1, <2>2
<1> QED BY <1>1, <1>2, <1>4, OneMoves DEF TypeOK

LEMMA InvInsertQueue ==
  ASSUME IInv, NEW c \in Containers, InsertQueue(c)
  PROVE  IInv'
<1>1. CASE active
  BY <1>1, InvExit DEF IInv, TypeOK, Fail, InsertQueue
<1>2. CASE ~active
  <2> USE <1>2 DEF IInv, InsertQueue, Goto, NoTransaction, database
  <2>1. TypeOK'
    <3>1. Flags'
      BY TypeIsFlagsAndData DEF Flags
    <3>2. pc' = [pc EXCEPT ![c] = "commit queue"] /\ at' = [at EXCEPT ![c] = 1]
      OBVIOUS
    <3>3. Data'
      BY <3>2, TypeIsFlagsAndData DEF Data, Steps
    <3> QED BY <3>1, <3>3, TypeIsFlagsAndData
  <2>2. RowsAreApart' /\ WeeksAreKnown'
    BY DEF RowsAreApart, WeeksAreKnown
  <2>3. stamped' /\ Done(c, 2)'
    BY AtTheQueue, KeepsItsVenues DEF InQueue
  <2>4. InQueue(c)' /\ at'[c] = 1
    BY DEF TypeOK, InQueue
  <2>5. (Migrating(c) /\ Seeding(c) /\ Serves(c))'
    BY <2>3, <2>4, StaysAtTheQueue
  <2>6. \A d \in Containers \ {c} :
            pc'[d] = pc[d] /\ at'[d] = at[d] /\ written'[d] = written[d]
    BY DEF TypeOK
  <2>7. UNCHANGED <<env, created, stamped, rows, copies>> /\ copies \in Nat
    BY DEF TypeOK
  <2>8. stamped' => created' = Objects
    <3>1. stamped => created = Objects
      OBVIOUS
    <3>2. stamped' = stamped /\ created' = created
      BY <2>7
    <3> HIDE DEF IInv, InsertQueue
    <3> QED BY <3>1, <3>2
  <2> HIDE DEF InsertQueue, Goto, NoTransaction, database
  <2> QED BY <2>1, <2>2, <2>5, <2>6, <2>7, <2>8, OneMoves
<1> QED BY <1>1, <1>2

LEMMA InvCommitQueue ==
  ASSUME IInv, NEW c \in Containers, CommitQueue(c)
  PROVE  IInv'
<1> USE DEF IInv, CommitQueue, Goto, NoTransaction
<1>6. copies' \in Nat /\ copies' > 0 /\ copies' >= copies
  <2>1. copies \in Nat
    BY TypeIsFlagsAndData DEF Data
  <2>2. copies' = copies + 1
    OBVIOUS
  <2> HIDE DEF IInv, CommitQueue
  <2> QED BY <2>1, <2>2
<1>1. TypeOK'
  <2>1. Flags'
    BY TypeIsFlagsAndData DEF Flags
  <2>2. Data'
    BY <1>6, TypeIsFlagsAndData DEF Data, Steps
  <2> QED BY <2>1, <2>2, TypeIsFlagsAndData
<1>2. RowsAreApart' /\ WeeksAreKnown'
  BY DEF RowsAreApart, WeeksAreKnown
<1>3. stamped' /\ Done(c, 2)'
  BY AtTheQueue, KeepsItsVenues DEF InQueue
<1>4. pc'[c] = "begin" /\ at'[c] = 2
  BY DEF TypeOK
<1>5. (Migrating(c) /\ Seeding(c) /\ Serves(c))'
  BY <1>6, <1>3, <1>4, LeavesTheQueue
<1> QED BY <1>6, <1>1, <1>2, <1>5, OneMoves DEF TypeOK

-----------------------------------------------------------------------------
(* The end of the seed, and the hosts. *)

LEMMA InvOpenAll ==
  ASSUME IInv, NEW c \in Containers, OpenAll(c)
  PROVE  IInv'
<1> USE DEF IInv, OpenAll, Goto, database
<1>1. TypeOK'
  <2>1. Flags'
    BY TypeIsFlagsAndData DEF Flags
  <2>2. Data'
    BY TypeIsFlagsAndData DEF Data, Steps
  <2> QED BY <2>1, <2>2, TypeIsFlagsAndData
<1>2. RowsAreApart' /\ WeeksAreKnown'
  BY DEF RowsAreApart, WeeksAreKnown
<1>3. pc'[c] = "commit" /\ at'[c] = 1 /\ stamped
  BY DEF TypeOK, Migrating
<1>4. Done(c, Len(DemoVenues) + 1)' /\ (env.demo => copies > 0)
  BY KeepsItsVenues DEF Seeding, AtEnd
<1>5. Seeding(c)' /\ Serves(c)'
  BY <1>3, <1>4 DEF Seeding, Serves, InLoop, InQueue, AtEnd
<1>6. Migrating(c)'
  BY <1>3 DEF Migrating
<1> QED BY <1>1, <1>2, <1>5, <1>6, OneMoves DEF TypeOK

LEMMA InvCommitSeed ==
  ASSUME IInv, NEW c \in Containers, CommitSeed(c)
  PROVE  IInv'
<1>1. /\ rows' \subseteq Rows
      /\ schedule' \in [Venues -> {"none", "default", "24h", "saved"}]
      /\ RowsAreApart' /\ WeeksAreKnown'
  BY Commits DEF CommitSeed
<1> USE DEF IInv, CommitSeed, Goto, EndTransaction
<1>2. TypeOK'
  <2>1. Flags'
    BY TypeIsFlagsAndData DEF Flags
  <2>2. Data'
    BY <1>1, TypeIsFlagsAndData DEF Data, Steps
  <2> QED BY <2>1, <2>2, TypeIsFlagsAndData
<1>3. pc'[c] = "serving" /\ at'[c] = 1 /\ stamped
  BY DEF TypeOK, Migrating
<1>4. Done(c, Len(DemoVenues) + 1) /\ (env.demo => copies > 0)
  BY DEF Seeding, AtEnd
<1>5. rows' = Rows
  <2>1. \A i \in DOMAIN DemoVenues :
          <<"venue", DemoVenues[i]>> \in rows' /\ <<"user", DemoVenues[i]>> \in rows'
    BY <1>4, DemoVenuesIsAList DEF Done, Has
  <2>2. Rows \subseteq rows'
    <3> SUFFICES ASSUME NEW kind \in {"venue", "user"}, NEW i \in DOMAIN DemoVenues
                 PROVE  <<kind, DemoVenues[i]>> \in rows'
      BY DEF Rows, Venues
    <3> QED BY <2>1
  <2> QED BY <1>1, <2>2
<1>6. Seeding(c)' /\ Serves(c)'
  BY <1>3, <1>4, <1>5 DEF Seeding, Serves, Ready, InLoop, InQueue, AtEnd
<1>7. Migrating(c)'
  BY <1>3 DEF Migrating
<1> QED BY <1>1, <1>2, <1>6, <1>7, OneMoves DEF TypeOK

\* The hosts change weeks and entries, and nothing a container relies on.
LEMMA InvHosts ==
  ASSUME IInv, EmptyQueue \/ \E v \in Venues : SaveWeek(v)
  PROVE  IInv'
<1> USE DEF IInv, EmptyQueue, SaveWeek
<1>1. schedule' \in [Venues -> {"none", "default", "24h", "saved"}] /\ active' \in BOOLEAN
  BY DEF TypeOK
<1>2. TypeOK'
  <2>1. Flags'
    BY <1>1, TypeIsFlagsAndData DEF Flags
  <2>2. Data'
    BY <1>1, TypeIsFlagsAndData DEF Data
  <2> QED BY <2>1, <2>2, TypeIsFlagsAndData
<1>3. RowsAreApart' /\ WeeksAreKnown'
  BY DEF RowsAreApart, WeeksAreKnown, TypeOK
<1>4. ASSUME NEW c \in Containers PROVE (Migrating(c) /\ Seeding(c) /\ Serves(c))'
  <2>1. UNCHANGED <<env, created, stamped, rows, copies, pc, at, written>>
    OBVIOUS
  <2> QED BY <1>2, <2>1, Stays DEF TypeOK
<1>5. stamped' => created' = Objects
  OBVIOUS
<1> QED BY <1>2, <1>3, <1>4, <1>5

-----------------------------------------------------------------------------
(* The invariant, and what it says. *)

LEMMA InvNext == IInv /\ [Next]_vars => IInv'
<1> SUFFICES ASSUME IInv, [Next]_vars PROVE IInv'
  OBVIOUS
<1>1. ASSUME NEW c \in Containers,
             Start(c) \/ ReadHeads(c) \/ Create(c) \/ Stamp(c) \/ Crash(c)
      PROVE  IInv'
  BY <1>1, InvStart, InvReadHeads, InvCreate, InvStamp, InvCrash
<1>2. ASSUME NEW c \in Containers,
             \/ Begin(c) \/ EnsureVenue(c) \/ EnsureUser(c)
             \/ NextVenue(c) \/ CommitFirstVenue(c)
      PROVE  IInv'
  BY <1>2, InvBegin, InvEnsureEither, InvNextVenue, InvCommitFirstVenue
<1>3. ASSUME NEW c \in Containers,
             \/ CountEntries(c) \/ InsertQueue(c) \/ CommitQueue(c)
             \/ OpenAll(c) \/ CommitSeed(c)
      PROVE  IInv'
  BY <1>3, InvCountEntries, InvInsertQueue, InvCommitQueue, InvOpenAll, InvCommitSeed
<1>4. CASE EmptyQueue \/ \E v \in Venues : SaveWeek(v)
  BY <1>4, InvHosts
<1>5. CASE UNCHANGED vars
  <2> USE <1>5 DEF vars, database
  <2>1. TypeOK' /\ RowsAreApart' /\ WeeksAreKnown'
    BY DEF IInv, TypeOK, RowsAreApart, WeeksAreKnown
  <2>2. ASSUME NEW c \in Containers PROVE (Migrating(c) /\ Seeding(c) /\ Serves(c))'
    BY <2>1, Stays DEF IInv, TypeOK
  <2> QED BY <2>1, <2>2 DEF IInv
<1> QED BY <1>1, <1>2, <1>3, <1>4, <1>5 DEF Next, Advance

LEMMA InvAlways == Spec => []IInv
BY InvInit, InvNext, PTL DEF Spec

\* The containers are always at a step of the script, and the database never
\* holds an object or a row that the migration or the seed does not make.
THEOREM StartupTypeCorrect == Spec => []TypeOK
<1>1. IInv => TypeOK
  BY DEF IInv
<1> QED BY <1>1, InvAlways, PTL

\* Whatever was killed, failed, or was done by another container, whoever serves
\* has the whole schema and, if it was asked for, the whole seed.
THEOREM ServingIsReady == Spec => []ServesOnlyWhenReady
<1>1. IInv => ServesOnlyWhenReady
  <2> SUFFICES ASSUME IInv, NEW c \in Containers, pc[c] = "serving"
               PROVE  /\ stamped /\ created = Objects
                      /\ env.seed => Ready /\ \A v \in Venues : schedule[v] # "none"
    BY DEF ServesOnlyWhenReady, Serving, Ready
  <2>1. stamped /\ created = Objects /\ (env.seed => Ready)
    BY DEF IInv, Migrating, Serves
  <2>2. rows = Rows => \A v \in Venues : schedule[v] # "none"
    BY DEF IInv, WeeksAreKnown, Rows
  <2> QED BY <2>1, <2>2 DEF Ready
<1> QED BY <1>1, InvAlways, PTL

-----------------------------------------------------------------------------
(* The demo queue is added once to a container's knowledge. *)

\* Who started with the demo queue there still finds it, and is never adding it.
MetItIsLeft ==
  \A c \in Containers : met[c] => copies > 0 /\ pc[c] \notin {"insert", "commit queue"}

LEMMA MetInit == Init => MetItIsLeft
BY DEF Init, MetItIsLeft

LEMMA MetNext == TypeOK /\ MetItIsLeft /\ [Next]_vars => MetItIsLeft'
<1> SUFFICES ASSUME TypeOK, MetItIsLeft, [Next]_vars, NEW d \in Containers, met'[d]
             PROVE  copies' > 0 /\ pc'[d] \notin {"insert", "commit queue"}
  BY DEF MetItIsLeft
<1>1. ASSUME NEW c \in Containers, Start(c)
      PROVE  copies' > 0 /\ pc'[d] \notin {"insert", "commit queue"}
  BY <1>1 DEF Start, Goto, database, TypeOK, MetItIsLeft
<1>2. ASSUME NEW c \in Containers, CountEntries(c)
      PROVE  copies' > 0 /\ pc'[d] \notin {"insert", "commit queue"}
  <2>1. met[d] /\ copies > 0 /\ copies' = copies
    BY <1>2 DEF CountEntries, database, MetItIsLeft
  <2>2. pc' = [pc EXCEPT ![c] = "begin"]
    BY <1>2, <2>1 DEF CountEntries, HasEntries, Goto
  <2> QED BY <2>1, <2>2 DEF TypeOK, MetItIsLeft
<1>3. ASSUME NEW c \in Containers, InsertQueue(c)
      PROVE  copies' > 0 /\ pc'[d] \notin {"insert", "commit queue"}
  <2>1. met[d] /\ copies > 0 /\ copies' = copies /\ c # d
    BY <1>3 DEF InsertQueue, database, MetItIsLeft
  <2>2. pc'[d] = pc[d]
    BY <1>3, <2>1 DEF InsertQueue, Fail, Exit, Goto, TypeOK
  <2> QED BY <2>1, <2>2 DEF MetItIsLeft
<1>4. ASSUME NEW c \in Containers, CommitQueue(c)
      PROVE  copies' > 0 /\ pc'[d] \notin {"insert", "commit queue"}
  <2>1. met[d] /\ copies > 0 /\ copies \in Nat /\ copies' = copies + 1
    BY <1>4 DEF CommitQueue, MetItIsLeft, TypeOK
  <2>2. copies' > 0
    BY <2>1
  <2>3. pc' = [pc EXCEPT ![c] = "begin"]
    BY <1>4 DEF CommitQueue, Goto
  <2> QED BY <2>1, <2>2, <2>3 DEF TypeOK, MetItIsLeft
<1>5. ASSUME NEW c \in Containers,
             NEW step \in Steps \ {"insert", "commit queue"}, NEW n, Goto(c, step, n),
             copies' = copies, met' = met
      PROVE  copies' > 0 /\ pc'[d] \notin {"insert", "commit queue"}
  BY <1>5 DEF Goto, TypeOK, MetItIsLeft
<1>6. ASSUME NEW c \in Containers, Crash(c) \/ ReadHeads(c) \/ Create(c) \/ Stamp(c)
      PROVE  copies' > 0 /\ pc'[d] \notin {"insert", "commit queue"}
  BY <1>5, <1>6
     DEF Crash, ReadHeads, Create, Stamp, Fail, Exit, AfterMigration, database, Steps
<1>7. ASSUME NEW c \in Containers,
             \/ Begin(c) \/ EnsureVenue(c) \/ EnsureUser(c)
             \/ NextVenue(c) \/ CommitFirstVenue(c)
      PROVE  copies' > 0 /\ pc'[d] \notin {"insert", "commit queue"}
  BY <1>5, <1>7
     DEF Begin, EnsureVenue, EnsureUser, Ensure, NextVenue, CommitFirstVenue,
         Fail, Exit, database, Steps
<1>8. ASSUME NEW c \in Containers, OpenAll(c) \/ CommitSeed(c)
      PROVE  copies' > 0 /\ pc'[d] \notin {"insert", "commit queue"}
  BY <1>5, <1>8 DEF OpenAll, CommitSeed, database, Steps
<1>9. CASE EmptyQueue \/ (\E v \in Venues : SaveWeek(v)) \/ UNCHANGED vars
  BY <1>9 DEF EmptyQueue, SaveWeek, vars, database, MetItIsLeft
<1> QED BY <1>1, <1>2, <1>3, <1>4, <1>6, <1>7, <1>8, <1>9 DEF Next, Advance

\* However often it is killed and whoever seeds beside it, a container that starts
\* when the demo queue was there never adds it again.
THEOREM SeededOnce == Spec => NoStartSeedsAgain
<1>1. MetItIsLeft =>
        [\A c \in Containers : pc[c] = "commit queue" /\ copies' > copies => ~met[c]]_vars
  BY DEF MetItIsLeft
<1>2. Spec => []MetItIsLeft
  BY StartupTypeCorrect, MetInit, MetNext, PTL DEF Spec
<1> QED BY <1>1, <1>2, PTL DEF NoStartSeedsAgain
=============================================================================
