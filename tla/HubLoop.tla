------------------------------ MODULE HubLoop -------------------------------
(***************************************************************************)
(* The hub of single-instance and of naive-scale: one goroutine owns the   *)
(* rooms and serves three unbuffered channels; every client has a read     *)
(* pump, a write pump and a bounded send channel.  In single-instance the  *)
(* relay hands an envelope to the hub and waits until it is taken; in      *)
(* naive-scale the envelope comes from Redis, through consume, and only    *)
(* while the instance is subscribed to the room.                           *)
(*                                                                         *)
(* The envelopes of a room are numbered in the order the hub takes them.   *)
(***************************************************************************)
EXTENDS Naturals, Sequences

CONSTANTS
  Clients,      \* websocket connections
  Rooms,        \* room ids
  RoomOf,       \* the room a connection asked for
  Designs,      \* the programs to look at: "single", "naive" or both
  SendBuffer,   \* sendBuffer
  MaxMessages   \* bound: messages broadcast to one room

ASSUME HubAssumption ==
  /\ RoomOf \in [Clients -> Rooms]
  /\ Designs \subseteq {"single", "naive"}
  /\ SendBuffer \in Nat \ {0}
  /\ MaxMessages \in Nat

VARIABLES
  design,    \* the program: single-instance or naive-scale
  rooms,     \* hub.rooms: the registered clients
  todo,      \* clients the envelope in hand has still to be sent to
  taken,     \* envelopes the hub has taken, per room
  incoming,  \* rooms of the envelopes that wait for the hub
  sent,      \* messages broadcast, per room
  send,      \* the send channel of each client
  closed,    \* clients whose send channel is closed
  reader,    \* ReadPump: "none", "reading", "leaving" (in Unregister) or "gone"
  writer,    \* WritePump: "none", "running" or "exited"
  open,      \* clients whose socket is open on this side
  joined,    \* envelopes taken when the client was registered
  got,       \* what the client received
  down       \* ctx is cancelled and Run has returned

queue == <<taken, incoming, sent>>
pumps == <<reader, writer, open, got>>
vars == <<design, rooms, todo, queue, send, closed, pumps, joined, down>>

Registered == UNION {rooms[r] : r \in Rooms}
Idle == todo = {} /\ ~down

-----------------------------------------------------------------------------
Init ==
  /\ design \in Designs
  /\ rooms = [r \in Rooms |-> {}]
  /\ todo = {}
  /\ taken = [r \in Rooms |-> 0]
  /\ incoming = <<>>
  /\ sent = [r \in Rooms |-> 0]
  /\ send = [c \in Clients |-> <<>>]
  /\ closed = {}
  /\ reader = [c \in Clients |-> "none"]
  /\ writer = [c \in Clients |-> "none"]
  /\ open = {}
  /\ joined = [c \in Clients |-> 0]
  /\ got = [c \in Clients |-> <<>>]
  /\ down = FALSE

\* handleWS: the hub takes the client from the register channel, then both pumps
\* start.
Register(c) ==
  /\ Idle
  /\ reader[c] = "none"
  /\ rooms' = [rooms EXCEPT ![RoomOf[c]] = @ \cup {c}]
  /\ joined' = [joined EXCEPT ![c] = taken[RoomOf[c]]]
  /\ reader' = [reader EXCEPT ![c] = "reading"]
  /\ writer' = [writer EXCEPT ![c] = "running"]
  /\ open' = open \cup {c}
  /\ UNCHANGED <<design, todo, queue, send, closed, got, down>>

\* Broadcast: single-instance blocks until the hub has the envelope; naive-scale
\* publishes, and Redis keeps nothing for an instance that is not subscribed, or not
\* yet, or has lost its connection.
Broadcast(r) ==
  /\ sent[r] < MaxMessages
  /\ sent' = [sent EXCEPT ![r] = @ + 1]
  /\ \/ design = "single" /\ incoming = <<>> /\ incoming' = <<r>>
     \/ design = "naive" /\ rooms[r] # {} /\ incoming' = Append(incoming, r)
     \/ design = "naive" /\ UNCHANGED incoming
  /\ UNCHANGED <<design, rooms, todo, taken, send, closed, pumps, joined, down>>

\* Run takes an envelope and starts to fan it out.
Take ==
  /\ Idle
  /\ incoming # <<>>
  /\ taken' = [taken EXCEPT ![Head(incoming)] = @ + 1]
  /\ todo' = rooms[Head(incoming)]
  /\ incoming' = Tail(incoming)
  /\ UNCHANGED <<design, rooms, sent, send, closed, pumps, joined, down>>

\* Mutant: a select with a default case drops the message when the channel is full.
SendOrDrop(c) ==
  /\ c \in todo
  /\ send' = IF Len(send[c]) < SendBuffer
             THEN [send EXCEPT ![c] = Append(@, taken[RoomOf[c]])] ELSE send
  /\ todo' = todo \ {c}
  /\ UNCHANGED <<design, rooms, queue, closed, pumps, joined, down>>

\* c.send <- env.payload: waits while the channel is full.
Send(c) ==
  /\ c \in todo
  /\ Len(send[c]) < SendBuffer
  /\ send' = [send EXCEPT ![c] = Append(@, taken[RoomOf[c]])]
  /\ todo' = todo \ {c}
  /\ UNCHANGED <<design, rooms, queue, closed, pumps, joined, down>>

\* The hub takes the client from the unregister channel, removes it and closes its
\* send channel; ReadPump then closes the socket and returns.
Unregister(c) ==
  /\ Idle
  /\ reader[c] = "leaving"
  /\ rooms' = [rooms EXCEPT ![RoomOf[c]] = @ \ {c}]
  /\ closed' = IF c \in Registered THEN closed \cup {c} ELSE closed
  /\ reader' = [reader EXCEPT ![c] = "gone"]
  /\ open' = open \ {c}
  /\ UNCHANGED <<design, todo, queue, send, writer, joined, got, down>>

\* WritePump writes the next message.
Write(c) ==
  /\ writer[c] = "running"
  /\ c \in open
  /\ send[c] # <<>>
  /\ got' = [got EXCEPT ![c] = Append(@, Head(send[c]))]
  /\ send' = [send EXCEPT ![c] = Tail(@)]
  /\ UNCHANGED <<design, rooms, todo, queue, closed, reader, writer, open, joined, down>>

\* Mutant: WritePump closes its channel as it leaves.
WriterExitsClosing(c) ==
  /\ writer[c] = "running"
  /\ writer' = [writer EXCEPT ![c] = "exited"]
  /\ open' = open \ {c}
  /\ closed' = closed \cup {c}
  /\ UNCHANGED <<design, rooms, todo, queue, send, reader, joined, got, down>>

\* Mutant: WritePump leaves the socket open.
WriterExitsQuietly(c) ==
  /\ writer[c] = "running"
  /\ writer' = [writer EXCEPT ![c] = "exited"]
  /\ send' \in {send, [send EXCEPT ![c] = IF @ = <<>> THEN @ ELSE Tail(@)]}
  /\ UNCHANGED <<design, rooms, todo, queue, closed, reader, open, joined, got, down>>

\* A message or a ping cannot be written within writeWait, or ctx is cancelled, or
\* the send channel is closed and empty: WritePump closes the socket and returns.
WriterExits(c) ==
  /\ writer[c] = "running"
  /\ writer' = [writer EXCEPT ![c] = "exited"]
  /\ open' = open \ {c}
  /\ send' \in {send, [send EXCEPT ![c] = IF @ = <<>> THEN @ ELSE Tail(@)]}
  /\ UNCHANGED <<design, rooms, todo, queue, closed, reader, joined, got, down>>

\* ReadMessage fails: the peer left, was silent for pongWait, or the socket is
\* closed.  ReadPump enters Unregister.
ReadFails(c) ==
  /\ reader[c] = "reading"
  /\ reader' = [reader EXCEPT ![c] = "leaving"]
  /\ UNCHANGED <<design, rooms, todo, queue, send, closed, writer, open, joined, got, down>>

\* ctx is cancelled while the hub is between two events.
Shutdown ==
  /\ Idle
  /\ down' = TRUE
  /\ UNCHANGED <<design, rooms, todo, queue, send, closed, pumps, joined>>

Next ==
  \/ Take \/ Shutdown
  \/ \E r \in Rooms : Broadcast(r)
  \/ \E c \in Clients : \/ Register(c) \/ Send(c) \/ Unregister(c)
                        \/ Write(c) \/ WriterExits(c) \/ ReadFails(c)

Spec == Init /\ [][Next]_vars

\* Goroutines that can run do; select is fair between ready channels.  A write ends
\* one way or the other by its deadline, and a read of a closed socket fails.
\* Nothing makes a healthy socket fail.
Fairness ==
  /\ WF_vars(Take)
  /\ \A c \in Clients :
       /\ WF_vars(Send(c))
       /\ SF_vars(Unregister(c))
       /\ WF_vars(send[c] # <<>> /\ (Write(c) \/ WriterExits(c)))
       /\ WF_vars((c \notin open \/ c \in closed) /\ WriterExits(c))
       /\ WF_vars(c \notin open /\ ReadFails(c))

FairSpec == Spec /\ Fairness

-----------------------------------------------------------------------------
TypeOK ==
  /\ design \in Designs
  /\ rooms \in [Rooms -> SUBSET Clients]
  /\ todo \subseteq Clients
  /\ taken \in [Rooms -> 0 .. MaxMessages]
  /\ incoming \in Seq(Rooms)
  /\ sent \in [Rooms -> 0 .. MaxMessages]
  /\ send \in [Clients -> Seq(1 .. MaxMessages)]
  /\ closed \subseteq Clients
  /\ reader \in [Clients -> {"none", "reading", "leaving", "gone"}]
  /\ writer \in [Clients -> {"none", "running", "exited"}]
  /\ open \subseteq Clients
  /\ joined \in [Clients -> 0 .. MaxMessages]
  /\ got \in [Clients -> Seq(1 .. MaxMessages)]
  /\ down \in BOOLEAN

\* The hub never sends on a closed channel and never closes one twice, which would
\* panic: a client it still has to serve or to remove has an open channel, and its
\* read pump has not been released.
NoSendOnClosed ==
  /\ todo \cap closed = {}
  /\ \A c \in Registered : c \notin closed /\ reader[c] \in {"reading", "leaving"}

\* Nothing is dropped and nothing is repeated or reordered on the way from the hub
\* to the socket: while a client's write pump runs, what it received and what is
\* queued for it are exactly the envelopes of its room since it was registered, save
\* the one in the hub's hand ("blocking send: never drop a message").
NeverDropped ==
  \A c \in Registered : writer[c] = "running" =>
    LET last == taken[RoomOf[c]] - (IF c \in todo THEN 1 ELSE 0)
    IN  got[c] \o send[c] = [i \in 1 .. last - joined[c] |-> joined[c] + i]

\* Run waits in c.send <- on a channel that nobody drains any more.
Stuck == \E c \in todo : writer[c] = "exited" /\ Len(send[c]) = SendBuffer

\* Nothing ends that wait: from then on the hub registers and removes nobody, closes no
\* channel and takes no envelope of any room, not even at shutdown.
StuckStays == [][Stuck => Stuck' /\ UNCHANGED <<rooms, taken, closed, down>>]_vars

\* A client whose write pump gave up is removed from the hub, unless the hub gets
\* stuck on such a client first: that is the only way to keep one.
DeadWritersRemoved ==
  \A c \in Clients :
    (writer[c] = "exited" /\ c \in Registered) ~> (c \notin Registered \/ down \/ Stuck)
=============================================================================
