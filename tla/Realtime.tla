------------------------------- MODULE Realtime -------------------------------
(***************************************************************************)
(* How the screens follow a venue's list: requests that change it commit   *)
(* and then announce the change on the in-memory broker; the SSE generators *)
(* of diners and hosts wait for signals with a timeout, and reload the     *)
(* state from the database in a short session of their own.                *)
(*                                                                         *)
(* The state of the list is the number of changes committed so far, so a   *)
(* load returns a version and change c makes version c. The changes are    *)
(* those of module Waitlist, the pause and the schedule, which a request   *)
(* announces, and those that time makes (the list closes), which nobody    *)
(* does.                                                                   *)
(***************************************************************************)
EXTENDS Naturals, FiniteSets, Sequences

CONSTANTS
  Diners, Hosts,      \* connections to the stream of an entry, of the panel
  Requests,           \* the requests that change the list
  QueueSize,          \* capacity of a subscriber's queue
  RefreshEvery,       \* heartbeats from one periodic reload to the next
  MaxSilent           \* bound: changes that time makes

ASSUME RealtimeAssumption ==
  /\ QueueSize \in Nat \ {0}
  /\ RefreshEvery \in Nat \ {0}
  /\ MaxSilent \in Nat
  /\ Diners \cap Hosts = {}
  /\ IsFiniteSet(Requests)

Streams == Diners \cup Hosts

VARIABLES
  version,   \* changes committed so far
  silent,    \* how many of them time made
  change,    \* the change each request has committed, 0 before
  stage,     \* of each request: "idle", "committed", "announced" or "lost"
  pc,        \* where each stream's generator is
  queue,     \* the broker's queue of each stream
  batch,     \* the details it took from the queue and has not sent
  beats,     \* heartbeats since the last multiple of RefreshEvery
  read,      \* the version its last load returned
  shown,     \* the version its client has, 0 at first
  feed       \* the details its client got

request == <<version, silent, change, stage>>
stream  == <<pc, batch, beats, read, shown, feed>>
vars == <<version, silent, change, stage, pc, queue, batch, beats, read, shown, feed>>

\* An event of a queue: the signal queue_changed, which carries no data, or
\* the detail of a change, on the host's topic only.
Signal  == 0
Changes == 1 .. Cardinality(Requests) + MaxSilent

Details(events) ==
  LET among[n \in 0 .. Len(events)] ==
        IF n = 0 THEN <<>>
        ELSE IF events[n] = Signal THEN among[n - 1]
        ELSE Append(among[n - 1], events[n])
  IN among[Len(events)]

\* Fault: the generator subscribes after its first load.
SubscribedLate(s) == pc[s] \in {"waiting", "feeding"} \/ shown[s] # 0

Subscribed(s) == pc[s] # "closed"

Init ==
  /\ version = 0
  /\ silent = 0
  /\ change = [r \in Requests |-> 0]
  /\ stage = [r \in Requests |-> "idle"]
  /\ pc = [s \in Streams |-> "closed"]
  /\ queue = [s \in Streams |-> <<>>]
  /\ batch = [s \in Streams |-> <<>>]
  /\ beats = [s \in Streams |-> 0]
  /\ read = [s \in Streams |-> 0]
  /\ shown = [s \in Streams |-> 0]
  /\ feed = [s \in Streams |-> <<>>]

-----------------------------------------------------------------------------
(* The requests and the broker. *)

Commit(r) ==
  /\ stage[r] = "idle"
  /\ version' = version + 1
  /\ change' = [change EXCEPT ![r] = version + 1]
  /\ stage' = [stage EXCEPT ![r] = "committed"]
  /\ UNCHANGED <<silent, stream, queue>>

\* Fault: no room is made.
PutUnbounded(q, e) == Append(q, e)

\* InMemoryRealtimeBroker.publish to one queue: the oldest event makes room.
PutDroppingOldest(q, e) ==
  Append(IF Len(q) = QueueSize THEN Tail(q) ELSE q, e)

\* announce_entry_event: the signal to every subscriber of the venue, then the
\* detail to the hosts. No await inside suspends, so it is one step.
Announce(r) ==
  /\ stage[r] = "committed"
  /\ stage' = [stage EXCEPT ![r] = "announced"]
  /\ queue' = [s \in Streams |->
       IF ~Subscribed(s) THEN queue[s]
       ELSE IF s \in Diners THEN PutDroppingOldest(queue[s], Signal)
       ELSE PutDroppingOldest(PutDroppingOldest(queue[s], Signal), change[r])]
  /\ UNCHANGED <<version, silent, change, stream>>

\* The commit reached the database but not its answer: the request fails
\* before it announces.
LoseAnnouncement(r) ==
  /\ stage[r] = "committed"
  /\ stage' = [stage EXCEPT ![r] = "lost"]
  /\ UNCHANGED <<version, silent, change, stream, queue>>

\* What the screens show changes with the clock alone.
TimeChanges ==
  /\ silent < MaxSilent
  /\ silent' = silent + 1
  /\ version' = version + 1
  /\ UNCHANGED <<change, stage, stream, queue>>

-----------------------------------------------------------------------------
(* The generators diner_stream and host_stream. *)

\* The client connects and the generator subscribes. A diner's loads the entry
\* once before that, for the venue's id and the 404, and keeps nothing else.
Open(s) ==
  /\ pc[s] = "closed"
  /\ pc' = [pc EXCEPT ![s] = "loading"]
  /\ UNCHANGED <<request, queue, batch, beats, read, shown, feed>>

\* Fault: every load reads the snapshot of the stream's first one.
LoadFirstSnapshot(s) ==
  /\ pc[s] = "loading"
  /\ read' = [read EXCEPT ![s] = IF shown[s] = 0 THEN version ELSE @]
  /\ pc' = [pc EXCEPT ![s] = "sending"]
  /\ UNCHANGED <<request, queue, batch, beats, shown, feed>>

\* Fault: a load may be answered by a copy of the database that lags.
LoadFromReplica(s) ==
  /\ pc[s] = "loading"
  /\ \E v \in 0 .. version : read' = [read EXCEPT ![s] = v]
  /\ pc' = [pc EXCEPT ![s] = "sending"]
  /\ UNCHANGED <<request, queue, batch, beats, shown, feed>>

\* load(): a new session, so a snapshot of the committed state as it is.
Load(s) ==
  /\ pc[s] = "loading"
  /\ read' = [read EXCEPT ![s] = version]
  /\ pc' = [pc EXCEPT ![s] = "sending"]
  /\ UNCHANGED <<request, queue, batch, beats, shown, feed>>

\* The message with the loaded state goes out.
SendState(s) ==
  /\ pc[s] = "sending"
  /\ shown' = [shown EXCEPT ![s] = read[s]]
  /\ pc' = [pc EXCEPT ![s] = "waiting"]
  /\ UNCHANGED <<request, queue, batch, beats, read, feed>>

\* A signal arrives: the queue is drained, a host's details are kept.
Receive(s) ==
  /\ pc[s] = "waiting"
  /\ queue[s] # <<>>
  /\ queue' = [queue EXCEPT ![s] = <<>>]
  /\ batch' = [batch EXCEPT ![s] = Details(queue[s])]
  /\ pc' = [pc EXCEPT ![s] = IF Details(queue[s]) = <<>> THEN "loading" ELSE "feeding"]
  /\ UNCHANGED <<request, beats, read, shown, feed>>

\* One message "feed" per detail, then the queue is loaded.
SendFeed(s) ==
  /\ pc[s] = "feeding"
  /\ feed' = [feed EXCEPT ![s] = Append(@, Head(batch[s]))]
  /\ batch' = [batch EXCEPT ![s] = Tail(@)]
  /\ pc' = [pc EXCEPT ![s] = IF Len(batch[s]) = 1 THEN "loading" ELSE "feeding"]
  /\ UNCHANGED <<request, queue, beats, read, shown>>

\* Fault: a timeout only sends a heartbeat.
HeartbeatOnly(s) ==
  /\ pc[s] = "waiting"
  /\ beats' = [beats EXCEPT ![s] = (@ + 1) % RefreshEvery]
  /\ UNCHANGED <<request, queue, pc, batch, read, shown, feed>>

\* Nothing for a while: a heartbeat, or every RefreshEvery times a reload. The
\* timeout may also win against a signal that has just come, which then stays
\* in the queue.
Timeout(s) ==
  /\ pc[s] = "waiting"
  /\ beats' = [beats EXCEPT ![s] = (@ + 1) % RefreshEvery]
  /\ pc' = [pc EXCEPT ![s] = IF (beats[s] + 1) % RefreshEvery = 0 THEN "loading" ELSE "waiting"]
  /\ UNCHANGED <<request, queue, batch, read, shown, feed>>

\* The client goes away, the process restarts or a load fails: the generator
\* ends, and with it its subscription. A client that comes back opens a new one.
Close(s) ==
  /\ pc[s] # "closed"
  /\ pc' = [pc EXCEPT ![s] = "closed"]
  /\ queue' = [queue EXCEPT ![s] = <<>>]
  /\ batch' = [batch EXCEPT ![s] = <<>>]
  /\ beats' = [beats EXCEPT ![s] = 0]
  /\ read' = [read EXCEPT ![s] = 0]
  /\ shown' = [shown EXCEPT ![s] = 0]
  /\ feed' = [feed EXCEPT ![s] = <<>>]
  /\ UNCHANGED request

Work(s) == Load(s) \/ SendState(s) \/ Receive(s) \/ SendFeed(s)

Next ==
  \/ \E r \in Requests : Commit(r) \/ Announce(r) \/ LoseAnnouncement(r)
  \/ TimeChanges
  \/ \E s \in Streams : Open(s) \/ Work(s) \/ Timeout(s) \/ Close(s)

Spec == Init /\ [][Next]_vars

(***************************************************************************)
(* The event loop resumes every generator that can go on, the timer of     *)
(* wait_for fires, and the client of an open connection reads what it is   *)
(* sent. Nothing obliges a request to announce, or a client to stay.       *)
(***************************************************************************)
Fairness == \A s \in Streams : WF_vars(Work(s)) /\ WF_vars(Timeout(s))

FairSpec == Spec /\ Fairness

-----------------------------------------------------------------------------
(* Properties. *)

Versions == 0 .. Cardinality(Requests) + MaxSilent

\* Types; no queue of the broker ever holds more than QueueSize events.
TypeOK ==
  /\ version \in Versions
  /\ silent \in 0 .. MaxSilent
  /\ change \in [Requests -> Versions]
  /\ stage \in [Requests -> {"idle", "committed", "announced", "lost"}]
  /\ pc \in [Streams -> {"closed", "loading", "sending", "waiting", "feeding"}]
  /\ \A s \in Streams :
       /\ queue[s] \in Seq(Changes \cup {Signal}) /\ Len(queue[s]) <= QueueSize
       /\ batch[s] \in Seq(Changes) /\ Len(batch[s]) <= QueueSize
       /\ feed[s] \in Seq(Changes)
  /\ beats \in [Streams -> 0 .. RefreshEvery - 1]
  /\ read \in [Streams -> Versions]
  /\ shown \in [Streams -> Versions]

Announced == {change[r] : r \in {q \in Requests : stage[q] = "announced"}}

\* A stream that has nothing to read has shown every announced change: none
\* falls between the first load and the subscription, between a load and its
\* message, or out of a full queue.
NothingAnnouncedIsMissed ==
  \A s \in Streams : pc[s] = "waiting" /\ queue[s] = <<>> =>
    \A c \in Announced : c <= shown[s]

\* A notice is followed by a list at least as new as the change it tells.
FeedIsBackedByTheList ==
  \A s \in Hosts : pc[s] = "waiting" =>
    \A i \in 1 .. Len(feed[s]) : feed[s][i] <= shown[s]

\* No screen goes back to an older state while it is connected.
ShownGoesForward ==
  [][\A s \in Streams : pc'[s] # "closed" => shown'[s] >= shown[s]]_vars

\* Every change is shown at last on every screen that stays connected, even
\* when its announcement is lost or there is none.
EveryChangeIsShown ==
  \A s \in Streams, v \in Changes :
    version = v ~> (shown[s] >= v \/ pc[s] = "closed")

=============================================================================
