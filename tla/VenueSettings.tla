---------------------------- MODULE VenueSettings ----------------------------
(***************************************************************************)
(* The settings of one venue, its pause and its weekly schedule, as the    *)
(* panels of its hosts change them at the same time (app/venues). A        *)
(* request reads the venue from its snapshot, changes the entity, and      *)
(* save() writes the whole entity over it; the UPDATEs that reach MySQL    *)
(* name only the columns that differ from the snapshot's, row by row in    *)
(* the order of the keys, and each locks its row until the commit.         *)
(***************************************************************************)
EXTENDS Schedule

CONSTANTS
  Requests,    \* the requests of the panels, each used once
  Asked        \* bound: the schedules a host may save

ASSUME SettingsAssumption == Asked \subseteq [Weekdays -> Windows]

VARIABLES
  schedule,    \* the committed rows of venue_schedule
  paused,      \* the committed column venue.paused
  pc,          \* where each request is
  op,          \* what it is: "pause", "resume" or "schedule"
  entity,      \* the venue it is to save: paused and windows
  seen,        \* the same as its snapshot had it
  wrote        \* the rows it has updated and not committed

vars == <<schedule, paused, pc, op, entity, seen, wrote>>

Venue == [paused : BOOLEAN, windows : [Weekdays -> Windows]]

NoRows == [d \in {} |-> ClosedDay]

Init ==
  /\ schedule \in Asked
  /\ paused \in BOOLEAN
  /\ pc = [r \in Requests |-> "idle"]
  /\ op = [r \in Requests |-> "none"]
  /\ entity = [r \in Requests |-> [paused |-> FALSE, windows |-> schedule]]
  /\ seen = [r \in Requests |-> [paused |-> FALSE, windows |-> schedule]]
  /\ wrote = [r \in Requests |-> NoRows]

Snapshot == [paused |-> paused, windows |-> schedule]

\* SetPausedUseCase: a venue that is so already is not written.
SetPaused(r, value) ==
  /\ pc[r] = "idle"
  /\ op' = [op EXCEPT ![r] = IF value THEN "pause" ELSE "resume"]
  /\ seen' = [seen EXCEPT ![r] = Snapshot]
  /\ entity' = [entity EXCEPT ![r] = [Snapshot EXCEPT !.paused = value]]
  /\ pc' = [pc EXCEPT ![r] = IF paused = value THEN "done" ELSE "save"]
  /\ UNCHANGED <<schedule, paused, wrote>>

\* UpdateScheduleUseCase, once validate_schedule has let the week in.
UpdateSchedule(r, week) ==
  /\ pc[r] = "idle"
  /\ op' = [op EXCEPT ![r] = "schedule"]
  /\ seen' = [seen EXCEPT ![r] = Snapshot]
  /\ entity' = [entity EXCEPT ![r] = [Snapshot EXCEPT !.windows = week]]
  /\ pc' = [pc EXCEPT ![r] = "save"]
  /\ UNCHANGED <<schedule, paused, wrote>>

\* The row an UPDATE leaves: the columns that differ from the snapshot's are
\* set, the others keep what the current row has.
DirtyColumns(old, new, current) ==
  [isOpen |-> IF new.isOpen # old.isOpen THEN new.isOpen ELSE current.isOpen,
   start  |-> IF new.start # old.start THEN new.start ELSE current.start,
   end    |-> IF new.end # old.end THEN new.end ELSE current.end]

\* The rows that save() has changed in the session and the flush has not sent. A
\* venue has a row for each weekday: the seed, the only code that makes venues,
\* gives it all of them.
Pending(r) ==
  {d \in Weekdays \ DOMAIN wrote[r] : entity[r].windows[d] # seen[r].windows[d]}

\* Fault: the rows are sent in no order.
RowsInAnyOrder(r) == Pending(r)

\* The row that the flush updates next: at most one, by primary key.
NextRow(r) == IF Pending(r) = {} THEN {} ELSE {Min(Pending(r))}

Locked(d) == \E r \in Requests : d \in DOMAIN wrote[r]

\* Fault: the pause is always written.
EveryColumnOfVenue(r) == TRUE

\* Is the row of venue written? Only by a pause or a resume, which writes no
\* other row: nobody's schedule waits for it, so its UPDATE and the commit are
\* one step here.
WritesPause(r) == entity[r].paused # seen[r].paused

NewRow(r, d) == DirtyColumns(seen[r].windows[d], entity[r].windows[d], schedule[d])

\* Fault: the table has no CHECK.
UpdateAnyRow(r) ==
  \E d \in NextRow(r) :
    /\ pc[r] = "save"
    /\ ~Locked(d)
    /\ wrote' = [wrote EXCEPT ![r] = [x \in DOMAIN @ \cup {d} |->
                                        IF x = d THEN NewRow(r, d) ELSE @[x]]]
    /\ UNCHANGED <<schedule, paused, pc, op, entity, seen>>

UpdateRow(r) ==
  \E d \in NextRow(r) :
    /\ pc[r] = "save"
    /\ ~Locked(d)
    /\ ValidWindow(NewRow(r, d))
    /\ wrote' = [wrote EXCEPT ![r] = [x \in DOMAIN @ \cup {d} |->
                                        IF x = d THEN NewRow(r, d) ELSE @[x]]]
    /\ UNCHANGED <<schedule, paused, pc, op, entity, seen>>

\* Fault: the failed transaction is not rolled back.
RefuseWithoutRollback(r) ==
  \E d \in NextRow(r) :
    /\ pc[r] = "save"
    /\ ~Locked(d)
    /\ ~ValidWindow(NewRow(r, d))
    /\ pc' = [pc EXCEPT ![r] = "error"]
    /\ UNCHANGED <<schedule, paused, op, entity, seen, wrote>>

\* The CHECK of the table refuses the row: the request fails and rolls back.
RefuseRow(r) ==
  \E d \in NextRow(r) :
    /\ pc[r] = "save"
    /\ ~Locked(d)
    /\ ~ValidWindow(NewRow(r, d))
    /\ pc' = [pc EXCEPT ![r] = "error"]
    /\ wrote' = [wrote EXCEPT ![r] = NoRows]
    /\ UNCHANGED <<schedule, paused, op, entity, seen>>

\* All is flushed and the transaction commits; then the change is announced.
Commit(r) ==
  /\ pc[r] = "save"
  /\ NextRow(r) = {}
  /\ schedule' = [d \in Weekdays |-> IF d \in DOMAIN wrote[r] THEN wrote[r][d] ELSE schedule[d]]
  /\ paused' = IF WritesPause(r) THEN entity[r].paused ELSE paused
  /\ wrote' = [wrote EXCEPT ![r] = NoRows]
  /\ pc' = [pc EXCEPT ![r] = "done"]
  /\ UNCHANGED <<op, entity, seen>>

\* The request dies before its commit.
Abort(r) ==
  /\ pc[r] = "save"
  /\ pc' = [pc EXCEPT ![r] = "error"]
  /\ wrote' = [wrote EXCEPT ![r] = NoRows]
  /\ UNCHANGED <<schedule, paused, op, entity, seen>>

Proceed(r) == UpdateRow(r) \/ RefuseRow(r) \/ Commit(r)

Next ==
  \E r \in Requests :
    \/ \E value \in BOOLEAN : SetPaused(r, value)
    \/ \E week \in Asked : UpdateSchedule(r, week)
    \/ Proceed(r)
    \/ Abort(r)

Spec == Init /\ [][Next]_vars

\* A statement that waits for a row's lock gets it when its turn comes.
FairSpec == Spec /\ \A r \in Requests : SF_vars(Proceed(r))

-----------------------------------------------------------------------------
\* Types; a request that has ended or failed leaves no row written.
TypeOK ==
  /\ schedule \in [Weekdays -> [isOpen : BOOLEAN, start : Hours, end : Hours]]
  /\ paused \in BOOLEAN
  /\ pc \in [Requests -> {"idle", "save", "done", "error"}]
  /\ op \in [Requests -> {"none", "pause", "resume", "schedule"}]
  /\ entity \in [Requests -> Venue]
  /\ \A r \in Requests :
       /\ DOMAIN wrote[r] \subseteq Weekdays
       /\ pc[r] # "save" => wrote[r] = NoRows

\* No open day is stored with one hour for its start and its end, though the
\* columns of two hosts may mix in a row after both were validated.
StoredWindowsAreValid == \A d \in Weekdays : ValidWindow(schedule[d])

\* save() writes the whole entity, pause and schedule; yet saving a schedule
\* never undoes another host's pause, nor a pause another host's schedule.
SettingsStayApart ==
  [][\A r \in Requests : Commit(r) =>
       IF op[r] = "schedule" THEN paused' = paused ELSE schedule' = schedule]_vars

\* Requests that wait for each other's rows end.
EverySaveEnds == \A r \in Requests : pc[r] = "save" ~> pc[r] # "save"

=============================================================================
