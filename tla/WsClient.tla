------------------------------ MODULE WsClient ------------------------------
(***************************************************************************)
(* wsClient's runClient against message_service: a client sends its one    *)
(* request on every connection it opens until a frame answers it, and each *)
(* connection's handler joins the hub and hands the request to             *)
(* Store.Accept.  A worker of MessageStore is the handler of one           *)
(* connection here; a connection is used once.  The handler of a broken    *)
(* connection goes on with the request it has read while the client opens  *)
(* the next connection, so that attempts of one client overlap.            *)
(***************************************************************************)
EXTENDS MessageStore, FiniteSets

CONSTANTS
  Clients,      \* wsClient processes; a client's request has its name as key
  RoomOf,       \* WS_SEND_ROOM_ID of each client
  NoConn,       \* a client that is not connected
  MaxFaults     \* bound: broken connections, errors and crashes

ASSUME WsClientAssumption ==
  /\ RoomOf \in [Clients -> Rooms]
  /\ NoConn \notin Workers
  /\ MaxFaults \in Nat

VARIABLES
  conn,            \* the connection each client reads, or NoConn
  requestPending,  \* runClient's requestPending
  told,            \* what the frame that answered each client said
  wire,            \* per connection, the request: "sent", "joined" (sent, and the
                   \* handler is in the hub), "stuck" (sent, and the handler never
                   \* gets into the hub), "read"; "quiet" without, "unused" before
  frame,           \* per connection: the answers on their way to the client
  owner,           \* per connection: the clients that opened it
  faults

clientVars == <<conn, requestPending, told, owner>>
allVars == <<vars, clientVars, wire, frame, faults>>

Fault == faults < MaxFaults /\ faults' = faults + 1

ClientInit ==
  /\ Init
  /\ conn = [c \in Clients |-> NoConn]
  /\ requestPending = [c \in Clients |-> TRUE]
  /\ told = [c \in Clients |-> {}]
  /\ wire = [w \in Workers |-> "unused"]
  /\ frame = [w \in Workers |-> {}]
  /\ owner = [w \in Workers |-> {}]
  /\ faults = 0

-----------------------------------------------------------------------------
\* Mutant: a request id for every attempt.
RequestKeyFresh(c, w) == w

\* sampleSendRequest: the id is drawn once, before the first connection.
RequestKey(c, w) == c

\* The next connection.  Unused ones are alike: it does not matter which is taken.
NewConn ==
  LET unused == {w \in Workers : wire[w] = "unused"}
  IN  IF unused = {} THEN {} ELSE {CHOOSE w \in unused : TRUE}

\* Mutant: a request that was written is no longer pending.
DialForgets(c) == \E w \in NewConn :
  /\ conn[c] = NoConn
  /\ conn' = [conn EXCEPT ![c] = w]
  /\ owner' = [owner EXCEPT ![w] = {c}]
  /\ wire' = [wire EXCEPT ![w] = IF requestPending[c] THEN "sent" ELSE "quiet"]
  /\ requestPending' = [requestPending EXCEPT ![c] = FALSE]
  /\ UNCHANGED <<vars, told, frame, faults>>

\* The client connects and, while its request is pending, writes it.  A dial that
\* fails changes nothing; a write that fails is a connection that breaks with the
\* request unread.
Dial(c) == \E w \in NewConn :
  /\ conn[c] = NoConn
  /\ conn' = [conn EXCEPT ![c] = w]
  /\ owner' = [owner EXCEPT ![w] = {c}]
  /\ wire' = [wire EXCEPT ![w] = IF requestPending[c] THEN "sent" ELSE "quiet"]
  /\ UNCHANGED <<vars, requestPending, told, frame, faults>>

\* ServeWS enters the connection in the hub before its read loop starts.  A
\* connection without a request does so too, which nothing here tells apart.
Register(w) ==
  /\ wire[w] = "sent"
  /\ wire' = [wire EXCEPT ![w] = "joined"]
  /\ UNCHANGED <<vars, clientVars, frame, faults>>

\* Register never gets the hub's mutex: a Dispatch holds it and waits for ever for a
\* connection that nobody drains (HubDispatch's Stuck and StuckStays).  The read loop
\* does not start, while runPing keeps the socket open.
RegisterWaits(w) ==
  /\ wire[w] = "sent"
  /\ wire' = [wire EXCEPT ![w] = "stuck"]
  /\ UNCHANGED <<vars, clientVars, frame, faults>>

\* The read loop of the connection decodes the request and calls Accept.
Receive(w) ==
  /\ wire[w] = "joined"
  /\ wire' = [wire EXCEPT ![w] = "read"]
  /\ Start(w)
  /\ \E c \in owner[w], p \in Payloads :
       req'[w] = [key |-> RequestKey(c, w), room |-> RoomOf[c], payload |-> p]
  /\ UNCHANGED <<clientVars, frame, faults>>

\* handleMessage enqueues the ack for the event e, or with no event a rejection.
Answer(w, e) ==
  frame' = [frame EXCEPT ![w] = IF e = {} THEN {[ok |-> FALSE, seq |-> 0]}
                                ELSE {[ok |-> TRUE, seq |-> m.seq] : m \in e}]

\* What Accept can return to w without an error: the accepted row or its own.
Returned(w) == IF pc[w] = "commit" THEN {NewEvent(w)} ELSE Found(w)

\* Accept goes on; when it returns an event, that event is acknowledged.
AcceptStep(w) ==
  /\ \/ FindAccepted(w) \/ FindInTx(w) \/ AllocateSeq(w) \/ InsertMessage(w)
     \/ FindConflicting(w) \/ InsertOutbox(w) \/ Commit(w)
  /\ IF pc'[w] = "idle" THEN Answer(w, Returned(w)) ELSE UNCHANGED frame
  /\ UNCHANGED <<clientVars, wire, faults>>

\* Accept returns an error, before or after the commit: not_accepted.
AcceptError(w) ==
  /\ Fault
  /\ Fail(w) \/ CommitUnknown(w)
  /\ Answer(w, {})
  /\ UNCHANGED <<clientVars, wire>>

\* The client reads a frame that answers it.  There is one request per client, so
\* runClient does not look at the frame's client_message_id.
ReadFrame(c) ==
  /\ conn[c] # NoConn
  /\ \E f \in frame[conn[c]] : told' = [told EXCEPT ![c] = @ \cup {f}]
  /\ requestPending' = [requestPending EXCEPT ![c] = FALSE]
  /\ frame' = [frame EXCEPT ![conn[c]] = {}]
  /\ UNCHANGED <<vars, conn, owner, wire, faults>>

\* The connection breaks: frames not read are lost, the request may be lost or may
\* still be read by the server.  The client waits and dials again.
Break(c) ==
  /\ conn[c] # NoConn
  /\ Fault
  /\ conn' = [conn EXCEPT ![c] = NoConn]
  /\ frame' = [frame EXCEPT ![conn[c]] = {}]
  /\ \/ UNCHANGED wire
     \/ wire[conn[c]] \in {"sent", "joined"} /\ wire' = [wire EXCEPT ![conn[c]] = "quiet"]
  /\ UNCHANGED <<vars, requestPending, told, owner>>

\* The instance that serves the connection dies in Accept, perhaps just after the
\* commit; the client's read fails.
ServerCrash(w) ==
  /\ Fault
  /\ Fail(w) \/ CommitUnknown(w)
  /\ conn' = [c \in Clients |-> IF conn[c] = w THEN NoConn ELSE conn[c]]
  /\ UNCHANGED <<requestPending, told, owner, wire, frame>>

ClientStep(c) == Dial(c) \/ ReadFrame(c)
ServerStep(w) == Register(w) \/ Receive(w) \/ AcceptStep(w)

ClientNext ==
  \/ \E c \in Clients : ClientStep(c) \/ Break(c)
  \/ \E w \in Workers : ServerStep(w) \/ RegisterWaits(w) \/ AcceptError(w) \/ ServerCrash(w)

ClientSpec == ClientInit /\ [][ClientNext]_allVars

\* The client dials until it succeeds and reads its socket; a handler that gets the
\* hub's mutex goes on, one that never does is RegisterWaits' and owes nothing; and
\* PostgreSQL answers, granting its locks in order.
ClientFairness ==
  /\ \A c \in Clients : WF_allVars(ClientStep(c))
  /\ \A w \in Workers : SF_allVars(ServerStep(w))

FairClientSpec == ClientSpec /\ ClientFairness

-----------------------------------------------------------------------------
\* However often a request was sent, on whatever connections and with whatever
\* answers lost, the client that is told a place has one message in the history, and
\* it is there: runClient keeps client_message_id over reconnects, Accept looks it
\* up, and the attempt that is acknowledged need not be the one that stored it.
ToldIsStored ==
  \A c \in Clients : \A f \in told[c] :
    f.ok => \E m \in messages :
              /\ m.room = RoomOf[c] /\ m.seq = f.seq
              /\ {n \in messages : n.key \in {RequestKey(c, w) : w \in Workers}} = {m}

\* A client does not stop sending before it has an answer, and it gets one when
\* connections stop breaking, unless it ends on a connection whose handler waits for a
\* hub that is stuck: the socket stays open and runClient's read has no deadline, so
\* that it neither gets an answer nor sends again.  Whatever became of earlier
\* connections, that is the only way to be left without one.
EveryClientAnswered ==
  \A c \in Clients :
    <>[](\/ ~requestPending[c] /\ told[c] # {}
         \/ conn[c] # NoConn /\ wire[conn[c]] = "stuck")
=============================================================================
