----------------------------- MODULE HubDispatch ----------------------------
(***************************************************************************)
(* How message_service gets frames to its sockets: the Redis consumer      *)
(* dispatches the events of a room to the Send channels of the room's      *)
(* connections while it holds the hub's mutex for reading; each connection *)
(* has a read loop, which answers every request with an acknowledgement on *)
(* the same channel, and a write pump that drains it.  Registering and     *)
(* unregistering take the mutex for writing.                               *)
(*                                                                         *)
(* One room.  Its events are numbered from 1 as they are published on the  *)
(* channel of the instance.  Connections have distinct client ids:         *)
(* Sessions has those that share one.                                      *)
(***************************************************************************)
EXTENDS Contracts, Sequences, FiniteSets

CONSTANTS
  Conns,       \* connections
  Senders,     \* those whose clients send requests
  ChanSize,    \* capacity of the channel of the Redis subscription
  SendBuffer,  \* capacity of Send
  MaxEvents,   \* bound: events of the room
  MaxRequests  \* bound: requests of a connection

ASSUME DispatchAssumption ==
  /\ Senders \subseteq Conns
  /\ ChanSize \in Nat \ {0} /\ SendBuffer \in Nat \ {0}
  /\ MaxEvents \in Nat /\ MaxRequests \in Nat

VARIABLES
  clients,    \* the connections of the room in the hub
  todo,       \* connections Dispatch has still to send to; it holds the mutex
  subscribed, \* Redis has the subscription of the instance
  arrived,    \* events published on the channel of the instance
  backlog,    \* those in the channel of the subscription
  taken,      \* history: those Dispatch was called with
  Send,       \* the Send channel of each connection
  reader,     \* ServeWS: "none", "reading", "acking", "leaving" or "gone"
  answer,     \* the frame it enqueues, when "acking"
  writer,     \* WritePump: "none", "running" or "exited"
  open,       \* connections whose socket is open
  asked,      \* history: the client_message_id of each request read
  joined,     \* history: how many events were taken before the registration
  got         \* history: frames written to the socket by the running write pump

redis == <<subscribed, arrived, backlog, taken>>
requests == <<asked, answer>>
sockets == <<writer, open, got>>
vars == <<clients, todo, redis, Send, reader, requests, sockets, joined>>

Unlocked == todo = {}

-----------------------------------------------------------------------------
Init ==
  /\ clients = {}
  /\ todo = {}
  /\ subscribed = FALSE
  /\ arrived = 0
  /\ backlog = <<>>
  /\ taken = <<>>
  /\ Send = [c \in Conns |-> <<>>]
  /\ reader = [c \in Conns |-> "none"]
  /\ writer = [c \in Conns |-> "none"]
  /\ open = {}
  /\ asked = [c \in Conns |-> <<>>]
  /\ answer = [c \in Conns |-> <<>>]
  /\ joined = [c \in Conns |-> 0]
  /\ got = [c \in Conns |-> <<>>]

\* ServeWS: hub.Register under the mutex, then WritePump starts.
Register(c) ==
  /\ Unlocked
  /\ reader[c] = "none"
  /\ clients' = clients \cup {c}
  /\ joined' = [joined EXCEPT ![c] = Len(taken)]
  /\ reader' = [reader EXCEPT ![c] = "reading"]
  /\ writer' = [writer EXCEPT ![c] = "running"]
  /\ open' = open \cup {c}
  /\ UNCHANGED <<todo, redis, Send, requests, got>>

\* Run has its subscription confirmed; when that fails runRedisConsumer tries again.
Run ==
  /\ ~subscribed
  /\ subscribed' = TRUE
  /\ UNCHANGED <<clients, todo, arrived, backlog, taken, Send, reader, requests,
                 sockets, joined>>

\* An event is published on the channel of the instance.  Without a subscription it
\* is lost; the client library puts it in its channel and, when that stays full,
\* drops it.
Arrive ==
  /\ arrived < MaxEvents
  /\ arrived' = arrived + 1
  /\ backlog' = IF subscribed /\ Len(backlog) < ChanSize THEN Append(backlog, arrived + 1)
                ELSE backlog
  /\ UNCHANGED <<clients, todo, subscribed, taken, Send, reader, requests,
                 sockets, joined>>

\* Consumer.Run calls Dispatch, which takes the mutex for reading.  Without the room
\* in the hub it returns an error, which is logged.
Dispatch ==
  /\ Unlocked
  /\ backlog # <<>>
  /\ taken' = Append(taken, Head(backlog))
  /\ backlog' = Tail(backlog)
  /\ todo' = clients
  /\ UNCHANGED <<clients, subscribed, arrived, Send, reader, requests, sockets,
                 joined>>

\* Mutant: a full channel is skipped.
DispatchToOrSkip(c) ==
  /\ c \in todo
  /\ Send' = IF Len(Send[c]) < SendBuffer THEN [Send EXCEPT ![c] = Append(@, Event(taken[Len(taken)]))]
             ELSE Send
  /\ todo' = todo \ {c}
  /\ UNCHANGED <<clients, redis, reader, sockets, requests, joined>>

\* c.Send <- serialized: waits while the channel is full, with the mutex held.
DispatchTo(c) ==
  /\ c \in todo
  /\ Len(Send[c]) < SendBuffer
  /\ Send' = [Send EXCEPT ![c] = Append(@, Event(taken[Len(taken)]))]
  /\ todo' = todo \ {c}
  /\ UNCHANGED <<clients, redis, reader, sockets, requests, joined>>

\* What a client may send: a frame that is not JSON, in the place of a request, and
\* requests that lack a field or have another type.
SendRequests ==
  [type : {"send", "other"}, version : {0, Version}, client_message_id : {Blank, "id"},
   room_id : {Blank, "room"}, payload : {Blank, "json"}]
NotJSON == [type |-> "not JSON", client_message_id |-> Blank]

\* What HandleIncoming returns for a request: an error, in the empty sequence, or the
\* event of the message.
HandleIncoming(r) ==
  {<<>>} \cup {<<[Event(1) EXCEPT !.client_message_id = r.client_message_id]>>}

\* The rejection that answers a request, unless it is not valid itself.
enqueueRejected(id, code) ==
  IF ValidRejectedAck(RejectedAck(id, code)) THEN <<RejectedAck(id, code)>> ELSE <<>>

\* The frames handleMessage may answer a request with.
Answers(r) ==
  IF r = NotJSON THEN {enqueueRejected(Blank, "invalid_request")}
  ELSE IF ~ValidSendRequest(r) THEN {enqueueRejected(r.client_message_id, "invalid_request")}
  ELSE {IF e # <<>> /\ ValidAcceptedAck(AcceptedAck(Head(e))) THEN <<AcceptedAck(Head(e))>>
        ELSE enqueueRejected(r.client_message_id, "not_accepted") : e \in HandleIncoming(r)}

\* The requests by what matters of them: their name and a possible answer.
Handled ==
  UNION {{[id |-> r.client_message_id, answer |-> a] : a \in Answers(r)} :
           r \in SendRequests \cup {NotJSON}}

\* A request is read and handled; without an answer it is dropped.
handleMessage(c) ==
  /\ c \in Senders
  /\ reader[c] = "reading"
  /\ c \in open
  /\ Len(asked[c]) < MaxRequests
  /\ \E h \in Handled :
       /\ asked' = [asked EXCEPT ![c] = Append(@, h.id)]
       /\ answer' = [answer EXCEPT ![c] = h.answer]
       /\ reader' = [reader EXCEPT ![c] = IF h.answer = <<>> THEN "reading" ELSE "acking"]
  /\ UNCHANGED <<clients, todo, redis, Send, sockets, joined>>

\* enqueue: waits while the channel is full; its ctx ends only with ServeWS.
enqueue(c) ==
  /\ reader[c] = "acking"
  /\ Len(Send[c]) < SendBuffer
  /\ Send' = [Send EXCEPT ![c] = @ \o answer[c]]
  /\ answer' = [answer EXCEPT ![c] = <<>>]
  /\ reader' = [reader EXCEPT ![c] = "reading"]
  /\ UNCHANGED <<clients, todo, redis, sockets, asked, joined>>

\* The peer leaves, or runPing closes the socket.
Close(c) ==
  /\ c \in open
  /\ open' = open \ {c}
  /\ UNCHANGED <<clients, todo, redis, Send, reader, writer, got, requests, joined>>

\* ReadMessage fails and ServeWS enters disconnect.
ReadFails(c) ==
  /\ reader[c] = "reading"
  /\ reader' = [reader EXCEPT ![c] = "leaving"]
  /\ UNCHANGED <<clients, todo, redis, Send, sockets, requests, joined>>

\* Mutant: disconnect returns early and leaves the hub as it is.
UnregisterNot(c) ==
  /\ Unlocked
  /\ reader[c] = "leaving"
  /\ reader' = [reader EXCEPT ![c] = "gone"]
  /\ open' = open \ {c}
  /\ UNCHANGED <<clients, todo, redis, Send, writer, requests, joined, got>>

\* hub.Unregister under the mutex; the socket is closed and ctx cancelled.
Unregister(c) ==
  /\ Unlocked
  /\ reader[c] = "leaving"
  /\ clients' = clients \ {c}
  /\ reader' = [reader EXCEPT ![c] = "gone"]
  /\ open' = open \ {c}
  /\ UNCHANGED <<todo, redis, Send, writer, requests, joined, got>>

\* WritePump writes the next frame.
Write(c) ==
  /\ writer[c] = "running"
  /\ c \in open
  /\ Send[c] # <<>>
  /\ got' = [got EXCEPT ![c] = Append(@, Head(Send[c]))]
  /\ Send' = [Send EXCEPT ![c] = Tail(@)]
  /\ UNCHANGED <<clients, todo, redis, reader, writer, open, requests, joined>>

\* A write on a closed or broken socket fails, losing its frame, or ctx is
\* cancelled: WritePump closes the socket and returns.
WriterExits(c) ==
  /\ writer[c] = "running"
  /\ \/ Send[c] # <<>> /\ Send' = [Send EXCEPT ![c] = Tail(@)]
     \/ reader[c] = "gone" /\ UNCHANGED Send
  /\ writer' = [writer EXCEPT ![c] = "exited"]
  /\ open' = open \ {c}
  /\ got' = [got EXCEPT ![c] = <<>>]
  /\ UNCHANGED <<clients, todo, redis, reader, requests, joined>>

Next ==
  \/ Run \/ Arrive \/ Dispatch
  \/ \E c \in Conns :
       \/ Register(c) \/ DispatchTo(c) \/ handleMessage(c) \/ enqueue(c)
       \/ Close(c) \/ ReadFails(c) \/ Unregister(c) \/ Write(c) \/ WriterExits(c)

Spec == Init /\ [][Next]_vars

\* Goroutines that can run do: the Redis consumer, and of each connection the read
\* loop and the write pump.  Neither reads nor writes of a closed socket hang; a
\* healthy socket need not fail.
Fairness ==
  /\ WF_vars(Dispatch \/ \E c \in Conns : DispatchTo(c))
  /\ \A c \in Conns :
       /\ WF_vars(enqueue(c) \/ (c \notin open /\ ReadFails(c)) \/ Unregister(c))
       /\ WF_vars(Write(c) \/ WriterExits(c))

FairSpec == Spec /\ Fairness

-----------------------------------------------------------------------------
TypeOK ==
  /\ clients \subseteq Conns
  /\ todo \subseteq clients
  /\ subscribed \in BOOLEAN
  /\ arrived \in 0 .. MaxEvents
  /\ backlog \in Seq(1 .. arrived) /\ Len(backlog) <= ChanSize
  /\ taken \in Seq(1 .. arrived)
  /\ \A c \in Conns : Len(Send[c]) <= SendBuffer
  /\ reader \in [Conns -> {"none", "reading", "acking", "leaving", "gone"}]
  /\ \A c \in Conns : reader[c] = "acking" <=> answer[c] # <<>>
  /\ writer \in [Conns -> {"none", "running", "exited"}]
  /\ open \subseteq Conns
  /\ \A c \in Conns : Len(asked[c]) <= MaxRequests
  /\ joined \in [Conns -> 0 .. MaxEvents]

\* What was or will be written to the socket, as long as the write pump runs, with
\* the answer that waits for its place.
Stream(c) == got[c] \o Send[c] \o answer[c]

\* Where the client's decoder finds events, and where answers, in the frames s; and
\* the number of a place i when the places S are counted from the first.
Events(s) == {i \in DOMAIN s : decodeServerFrame(s[i]) = "event"}
Acks(s) == {i \in DOMAIN s : decodeServerFrame(s[i]) \in {"accepted", "rejected"}}
Rank(S, i) == Cardinality({j \in S : j <= i})

\* The events in s are those numbered from + 1 to to of the messages ms, and the
\* answers in s are those to the first n requests of ids, both in order.
EventsAre(s, ms, from, to) ==
  /\ Cardinality(Events(s)) = to - from
  /\ \A i \in Events(s) : s[i].room_seq = ms[from + Rank(Events(s), i)]
AcksAre(s, ids, n) ==
  /\ Cardinality(Acks(s)) = n
  /\ \A i \in Acks(s) : s[i].client_message_id = ids[Rank(Acks(s), i)]

\* How many of the messages taken have been sent to a connection of the room.
Reached(c) == Len(taken) - (IF c \in todo THEN 1 ELSE 0)

\* All connections get the same events, in the order of publication: what Redis or
\* its client library lost is lost to all of them, and between the subscription and
\* a socket nothing is dropped, repeated or reordered by the dispatch to several
\* connections, the acknowledgements in between and connections that come and go.
EventsInOrder ==
  /\ \A i, j \in DOMAIN taken : i < j => taken[i] < taken[j]
  /\ \A c \in clients :
       writer[c] = "running" => EventsAre(Stream(c), taken, joined[c], Reached(c))

\* Every request, also one that cannot be decoded, is answered once, in order, by a
\* frame that the client's decoder takes for an answer: a client that waits gets its
\* answer unless the connection goes down.  The frame names a request that was decoded;
\* one that json.Unmarshal refuses, a field of the wrong type included, has no name for
\* handleMessage, which answers it with an empty client_message_id.
RequestsAnswered ==
  \A c \in Conns :
    writer[c] = "running" => AcksAre(Stream(c), asked[c], Len(asked[c]))

\* Dispatch waits on a channel that nobody drains any more, with the mutex held; or a
\* read loop waits in enqueue on the channel of its own connection.
Stuck(c) ==
  /\ Len(Send[c]) = SendBuffer
  /\ writer[c] = "exited"
  /\ c \in todo \/ reader[c] = "acking"

\* Such a wait does not end: nobody drains the channel again, so that a Dispatch which
\* waits keeps the mutex, and no connection joins or leaves the room any more.
StuckStays ==
  [][\A c \in Conns : Stuck(c) =>
       Stuck(c)' /\ (c \in todo => c \in todo' /\ UNCHANGED clients)]_vars

\* A connection whose socket is closed leaves the hub, unless some goroutine gets
\* stuck on a full channel first: that is the only way to keep it.
LeavesUnlessStuck ==
  \A c \in Conns :
    (c \in clients /\ c \notin open) ~> (c \notin clients \/ \E d \in Conns : Stuck(d))
=============================================================================
