------------------------------- MODULE Outbox -------------------------------
(***************************************************************************)
(* The outbox of single-instance and of naive-scale.  Chat.Service stores  *)
(* a message and its outbox event in one transaction; relays claim batches *)
(* of events, hand them to the Broadcaster and stamp them, in one          *)
(* transaction per batch.  single-instance runs one relay and its          *)
(* Broadcaster is the hub of the process; naive-scale runs one relay per   *)
(* instance, claims with SKIP LOCKED and its Broadcaster publishes to      *)
(* Redis.  The hub of single-instance may get stuck (HubLoop); it takes no *)
(* envelope any more until the process is restarted.                       *)
(*                                                                         *)
(* Both ids are bigserial: a value is drawn when the row is inserted, not  *)
(* when it is committed, and is not returned by a rollback.                *)
(***************************************************************************)
EXTENDS Naturals, Sequences, FiniteSets, Functions

CONSTANTS
  Writers,        \* websocket read pumps: each handles one frame at a time
  Rooms,          \* rooms, by name
  Users,          \* users, by name
  Relays,         \* outbox relays
  Designs,        \* the programs to look at: "single", "naive" or both
  BatchSize,      \* batchSize
  MaxInserts,     \* bound: ids drawn
  MaxFaults       \* bound: failed transactions and crashes

ASSUME OutboxAssumption ==
  /\ BatchSize \in Nat \ {0}
  /\ Designs \subseteq {"single", "naive"}
  /\ MaxInserts \in Nat
  /\ MaxFaults \in Nat

VARIABLES
  design,       \* the program: single-instance or naive-scale
  rooms,        \* the rooms created
  users,        \* the users created
  lastMessage,  \* the last value drawn for messages.id
  lastEvent,    \* the last value drawn for outbox.id
  messages,     \* committed messages
  outbox,       \* committed outbox events
  dispatched,   \* ids of the events with dispatched_at set
  open,         \* what each writer's open transaction has inserted
  claim,        \* the events each relay has locked, in the order it hands them out
  handed,       \* how many of them it has handed to Broadcast
  log,          \* what Broadcast gave to the hub or to Redis, in order
  stuck,        \* single-instance: the hub waits for ever in a fan-out
  faults        \* failures so far

writers == <<design, rooms, users, lastMessage, lastEvent, messages, outbox, open>>
relays == <<design, dispatched, claim, handed, log, stuck>>
vars == <<writers, relays, faults>>

Messages == [id : 1 .. MaxInserts, room : Rooms, writer : Writers]
Events == [id : 1 .. MaxInserts, message : Messages]
NoTx == [message |-> {}, event |-> {}]

\* single-instance has one relay, naive-scale one per instance.
Running == IF design = "single" THEN {CHOOSE k \in Relays : TRUE} ELSE Relays

Locked == UNION {Range(claim[k]) : k \in Relays}

\* Mutant: the relay looks for ids after the last one it stamped.
PendingCursor ==
  {e \in outbox : \A i \in dispatched : i < e.id} \ Locked

\* The events the claiming SELECT finds: not dispatched and not locked.
Pending == {e \in outbox : e.id \notin dispatched} \ Locked

-----------------------------------------------------------------------------
Init ==
  /\ design \in Designs
  /\ rooms = {}
  /\ users = {}
  /\ lastMessage = 0
  /\ lastEvent = 0
  /\ messages = {}
  /\ outbox = {}
  /\ dispatched = {}
  /\ open = [w \in Writers |-> NoTx]
  /\ claim = [k \in Relays |-> <<>>]
  /\ handed = [k \in Relays |-> 0]
  /\ log = <<>>
  /\ stuck = FALSE
  /\ faults = 0

Fault == faults < MaxFaults /\ faults' = faults + 1

\* handleCreateRoom and handleCreateUser: names are unique, a second insert fails.
CreateRoom(r) ==
  /\ r \notin rooms
  /\ rooms' = rooms \cup {r}
  /\ UNCHANGED <<users, lastMessage, lastEvent, messages, outbox, open, relays, faults>>

CreateUser(u) ==
  /\ u \notin users
  /\ users' = users \cup {u}
  /\ UNCHANGED <<rooms, lastMessage, lastEvent, messages, outbox, open, relays, faults>>

\* HandleIncoming: begin, and the insert into messages.  handleWS does not ask
\* whether the room exists: a frame for a room or from a user that does not breaks a
\* foreign key and is rolled back, its id is not returned.
InsertMessage(w) ==
  /\ open[w] = NoTx
  /\ lastMessage < MaxInserts
  /\ lastMessage' = lastMessage + 1
  /\ \E r \in Rooms : \E u \in Users :
       \/ /\ r \in rooms /\ u \in users
          /\ open' = [open EXCEPT ![w].message =
                        {[id |-> lastMessage + 1, room |-> r, writer |-> w]}]
       \/ (r \notin rooms \/ u \notin users) /\ UNCHANGED open
  /\ UNCHANGED <<rooms, users, lastEvent, messages, outbox, relays, faults>>

\* Mutant: the event is inserted through the pool, outside the transaction.
EnqueueOutboxOnPool(w) ==
  /\ open[w].message # {}
  /\ open[w].event = {}
  /\ lastEvent' = lastEvent + 1
  /\ LET e == {[id |-> lastEvent + 1, message |-> m] : m \in open[w].message}
     IN outbox' = outbox \cup e /\ open' = [open EXCEPT ![w].event = e]
  /\ UNCHANGED <<rooms, users, lastMessage, messages, relays, faults>>

\* The insert into outbox, in the same transaction.
EnqueueOutbox(w) ==
  /\ open[w].message # {}
  /\ open[w].event = {}
  /\ lastEvent' = lastEvent + 1
  /\ open' = [open EXCEPT ![w].event =
                {[id |-> lastEvent + 1, message |-> m] : m \in open[w].message}]
  /\ UNCHANGED <<rooms, users, lastMessage, messages, outbox, relays, faults>>

\* WithTx commits.
CommitMessage(w) ==
  /\ open[w].event # {}
  /\ messages' = messages \cup open[w].message
  /\ outbox' = outbox \cup open[w].event
  /\ open' = [open EXCEPT ![w] = NoTx]
  /\ UNCHANGED <<rooms, users, lastMessage, lastEvent, relays, faults>>

\* A statement or the commit fails, or the process dies: the rows are rolled back,
\* the drawn ids are not.
AbortMessage(w) ==
  /\ Fault
  /\ open[w] # NoTx
  /\ open' = [open EXCEPT ![w] = NoTx]
  /\ UNCHANGED <<rooms, users, lastMessage, lastEvent, messages, outbox, relays>>

\* Mutant: no ORDER BY.
IsClaimUnordered(b) ==
  /\ \A i, j \in DOMAIN b : i < j => b[i] # b[j]
  /\ Range(b) = Pending \/ Len(b) = BatchSize

\* The claiming SELECT: pending events nobody has locked, by id, up to the limit.
IsClaim(b) ==
  /\ \A i, j \in DOMAIN b : i < j => b[i].id < b[j].id
  /\ \A e \in Pending \ Range(b) :
       Len(b) = BatchSize /\ \A i \in DOMAIN b : b[i].id < e.id

\* A relay of the program claims a batch.
Claim(k) ==
  /\ k \in Running
  /\ claim[k] = <<>>
  /\ \E size \in 1 .. BatchSize : \E b \in [1 .. size -> Pending] :
       /\ IsClaim(b)
       /\ claim' = [claim EXCEPT ![k] = b]
  /\ UNCHANGED <<writers, dispatched, handed, log, stuck, faults>>

\* Broadcast of the next event of the batch.  In single-instance it waits until the hub
\* takes the envelope, which a stuck hub never does.  In naive-scale an error of PUBLISH
\* is logged and Broadcast returns as if nothing had happened.
Dispatch(k) ==
  /\ ~stuck
  /\ handed[k] < Len(claim[k])
  /\ handed' = [handed EXCEPT ![k] = @ + 1]
  /\ \/ log' = Append(log, claim[k][handed[k] + 1]) /\ UNCHANGED faults
     \/ design = "naive" /\ Fault /\ UNCHANGED log
  /\ UNCHANGED <<writers, dispatched, claim, stuck>>

\* Mutant: the rows are stamped and released when they are read.
CommitBatchEarly(k) ==
  /\ claim[k] # <<>>
  /\ dispatched' = dispatched \cup {e.id : e \in Range(claim[k])}
  /\ claim' = [claim EXCEPT ![k] = <<>>]
  /\ handed' = [handed EXCEPT ![k] = 0]
  /\ UNCHANGED <<writers, log, stuck, faults>>

\* Mutant: the id of the last event of a batch is not collected.
CommitBatchShort(k) ==
  /\ claim[k] # <<>>
  /\ handed[k] = Len(claim[k])
  /\ dispatched' = dispatched \cup {claim[k][i].id : i \in 1 .. Len(claim[k]) - 1}
  /\ claim' = [claim EXCEPT ![k] = <<>>]
  /\ handed' = [handed EXCEPT ![k] = 0]
  /\ UNCHANGED <<writers, log, stuck, faults>>

\* The update of dispatched_at and the commit, which releases the locks.
CommitBatch(k) ==
  /\ claim[k] # <<>>
  /\ handed[k] = Len(claim[k])
  /\ dispatched' = dispatched \cup {e.id : e \in Range(claim[k])}
  /\ claim' = [claim EXCEPT ![k] = <<>>]
  /\ handed' = [handed EXCEPT ![k] = 0]
  /\ UNCHANGED <<writers, log, stuck, faults>>

\* The update or the commit fails, or an instance of naive-scale dies: nothing is
\* stamped, what was handed out stays handed out.
AbortBatch(k) ==
  /\ Fault
  /\ claim[k] # <<>>
  /\ design = "single" => handed[k] = Len(claim[k])
  /\ claim' = [claim EXCEPT ![k] = <<>>]
  /\ handed' = [handed EXCEPT ![k] = 0]
  /\ UNCHANGED <<writers, dispatched, log, stuck>>

\* The hub of single-instance sends the envelope it took to a client whose write pump
\* has left and whose channel is full (HubLoop: Stuck, StuckStays).
HubSticks ==
  /\ design = "single"
  /\ log # <<>>
  /\ ~stuck
  /\ stuck' = TRUE
  /\ UNCHANGED <<writers, dispatched, claim, handed, log, faults>>

\* The process of single-instance dies and starts again.  Open transactions are rolled
\* back, and the new hub is empty.
Restart ==
  /\ design = "single"
  /\ Fault
  /\ open' = [w \in Writers |-> NoTx]
  /\ claim' = [k \in Relays |-> <<>>]
  /\ handed' = [k \in Relays |-> 0]
  /\ stuck' = FALSE
  /\ UNCHANGED <<design, rooms, users, lastMessage, lastEvent, messages, outbox, dispatched, log>>

Step ==
  \/ \E r \in Rooms : CreateRoom(r)
  \/ \E u \in Users : CreateUser(u)
  \/ \E w \in Writers : \/ InsertMessage(w) \/ EnqueueOutbox(w)
                        \/ CommitMessage(w) \/ AbortMessage(w)
  \/ \E k \in Relays : Claim(k) \/ Dispatch(k) \/ CommitBatch(k) \/ AbortBatch(k)
  \/ HubSticks

Next == Step \/ Restart

Spec == Init /\ [][Next]_vars

\* A relay polls for ever, Postgres answers, PUBLISH returns by its deadline, and a hub
\* that is not stuck takes the next envelope.
Fairness == \A k \in Relays : WF_vars(Claim(k) \/ Dispatch(k) \/ CommitBatch(k))

FairSpec == Spec /\ Fairness

-----------------------------------------------------------------------------
TypeOK ==
  /\ design \in Designs
  /\ rooms \subseteq Rooms
  /\ users \subseteq Users
  /\ lastMessage \in 0 .. MaxInserts
  /\ lastEvent \in 0 .. MaxInserts
  /\ messages \subseteq Messages
  /\ outbox \subseteq Events
  /\ dispatched \subseteq {e.id : e \in outbox}
  /\ open \in [Writers -> [message : SUBSET Messages, event : SUBSET Events]]
  /\ claim \in [Relays -> Seq(Events)]
  /\ handed \in [Relays -> Nat]
  /\ log \in Seq(Events)
  /\ stuck \in BOOLEAN
  /\ faults \in 0 .. MaxFaults

\* How often event e was delivered, and whether it was before place j of the log.
Copies(e) == Cardinality({i \in DOMAIN log : log[i] = e})
Earlier(e, j) == \E i \in 1 .. j - 1 : log[i] = e

\* An event is delivered again only when a batch failed after it was handed out:
\* without failures "no event is ever dispatched twice" (DispatchBatch).
RepeatsNeedFailures == \A e \in outbox : Copies(e) <= 1 + faults

\* Only committed messages are delivered, and the history and the outbox agree:
\* nobody sees a message that is rolled back afterwards (HandleIncoming, WithTx).
DeliveredIsStored ==
  /\ Range(log) \subseteq outbox
  /\ messages = {e.message : e \in outbox}

\* In single-instance an event is stamped only after the hub took it (ARCHITECTURE.md:
\* "marks the row dispatched only after the broadcast hand-off succeeds"); in
\* naive-scale one that is stamped and did not get to Redis needs a failed PUBLISH.
StampedIsDelivered ==
  Cardinality({e \in outbox : e.id \in dispatched /\ e \notin Range(log)})
    <= IF design = "single" THEN 0 ELSE faults

\* The messages of one connection are delivered in the order it sent them in
\* single-instance, with its one relay: repeats aside, a later one never comes first.
SenderOrder ==
  design = "single" => \A d \in Range(log) : \A j \in DOMAIN log :
    (d.message.writer = log[j].message.writer /\ d.message.id < log[j].message.id)
      => Earlier(d, j)

\* Again and again every committed event is handed out and stamped, whatever batches fail
\* on the way: "a message is never stranded" (ARCHITECTURE.md).  The exception is the hub
\* of single-instance when it is stuck: the relay then waits in Broadcast, which has no
\* deadline, until the process is restarted.
NeverStranded == []<>(stuck \/ \A e \in outbox : e.id \in dispatched)

\* ARCHITECTURE.md:110: "Ordering by `id` preserves per-room message order."
RoomOrder ==
  \A d \in Range(log) : \A j \in DOMAIN log :
    (d.message.room = log[j].message.room /\ d.message.id < log[j].message.id)
      => Earlier(d, j)
=============================================================================
