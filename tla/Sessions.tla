------------------------------ MODULE Sessions ------------------------------
(***************************************************************************)
(* The life of websocket connections in message_service (ServeWS, runPing, *)
(* disconnect), the registry of its hub, and the presence they maintain in *)
(* Redis.  A connection registers its presence, then itself in the hub of  *)
(* its instance; a pinger keeps the presence alive; when reading fails the *)
(* connection is removed from the hub by client id and Disconnect is       *)
(* called, without an instance name.                                       *)
(*                                                                         *)
(* Time is discrete.  It does not pass a ticker that is due, a frame that  *)
(* WriteControl has tried to write for writeTimeout, or a caller of Ping   *)
(* that has waited for pingTimeout.  Nothing limits how long Connect takes *)
(* or how late Redis executes a Ping whose caller has gone.  The code's    *)
(* 54 s, 10 s and 5 s add up to more than connTTL, 60 s, so a Ping may     *)
(* come too late.                                                          *)
(***************************************************************************)
EXTENDS Presence

CONSTANTS
  Conns,         \* connections; a client that reconnects uses another one
  ClientOf,      \* client_id of a connection
  InstanceOf,    \* the message_service instance that serves it
  RoomsOf,       \* room_ids of a connection
  Instances,     \* message_service instances
  NoInstance,    \* the empty instance name
  pingPeriod,    \* pingPeriod
  writeTimeout,  \* writeTimeout
  pingTimeout,   \* the deadline of the Ping RPC
  MaxFaults      \* bound: failed RPCs and writes, and crashes

KeyOf(c) == <<ClientOf[c], InstanceOf[c]>>
Unnamed(c) == <<ClientOf[c], NoInstance>>

ASSUME SessionsAssumption ==
  /\ RoomsOf \in [Conns -> SUBSET Rooms]
  /\ InstanceOf \in [Conns -> Instances]
  /\ NoInstance \notin Instances
  /\ \A c \in Conns : {KeyOf(c), Unnamed(c)} \subseteq Keys
  /\ {pingPeriod, writeTimeout, pingTimeout} \subseteq Nat
  /\ writeTimeout + pingTimeout <= pingPeriod
  /\ pingPeriod < connTTL
  /\ MaxFaults \in Nat

VARIABLES
  stage,    \* of ServeWS: "none", "connecting", "present", "serving", "left" or "done"
  open,     \* connections whose socket is open
  hub,      \* hub.rooms of all instances: the connections registered in a room
  pinger,   \* runPing: "off", "waiting", "writing" (WriteControl) or "calling" (Ping)
  since,    \* time since the ticker of runPing started or fired
  waited,   \* time since runPing called Ping
  call,     \* Ping in presence_service: "none", "sent", or "read" after SMEMBERS
  held,     \* the rooms an unfinished Ping has read
  latest,   \* history: the last connection that registered a key, if any
  overdue,  \* history: open connections that did not renew their presence in time
  raced,    \* history: the rooms that Pings held when the key expired
  faults    \* failures so far

conn == <<stage, open, hub>>
ping == <<pinger, since, waited, call, held>>
history == <<latest, overdue, raced>>
vars == <<redis, conn, ping, history, faults>>

Fault == faults < MaxFaults /\ faults' = faults + 1

\* The connections Unregister(clientID) and addClient compare equal with c.
SameEntry(c) == {d \in Conns : ClientOf[d] = ClientOf[c] /\ InstanceOf[d] = InstanceOf[c]}

\* runPing of the connections cs returns.
PingEnds(cs) ==
  /\ pinger' = [c \in Conns |-> IF c \in cs THEN "off" ELSE pinger[c]]
  /\ since' = [c \in Conns |-> IF c \in cs THEN 0 ELSE since[c]]
  /\ waited' = [c \in Conns |-> IF c \in cs THEN 0 ELSE waited[c]]

-----------------------------------------------------------------------------
Init ==
  /\ PresenceInit
  /\ stage = [c \in Conns |-> "none"]
  /\ open = {}
  /\ hub = [r \in Rooms |-> {}]
  /\ pinger = [c \in Conns |-> "off"]
  /\ since = [c \in Conns |-> 0]
  /\ waited = [c \in Conns |-> 0]
  /\ call = [c \in Conns |-> "none"]
  /\ held = [c \in Conns |-> {}]
  /\ latest = [k \in Keys |-> {}]
  /\ overdue = {}
  /\ raced = [k \in Keys |-> {}]
  /\ faults = 0

\* configureConnection: the upgrade, and Redis executes Connect.
Connect(c) ==
  /\ stage[c] = "none"
  /\ ConnectTx(KeyOf(c), RoomsOf[c])
  /\ stage' = [stage EXCEPT ![c] = "connecting"]
  /\ open' = open \cup {c}
  /\ latest' = [latest EXCEPT ![KeyOf(c)] = {c}]
  /\ raced' = [raced EXCEPT ![KeyOf(c)] = {}]
  /\ UNCHANGED <<hub, ping, overdue, faults>>

\* Connect returns, however long after; the ticker of runPing starts.
StartPing(c) ==
  /\ stage[c] = "connecting"
  /\ stage' = [stage EXCEPT ![c] = "present"]
  /\ pinger' = [pinger EXCEPT ![c] = "waiting"]
  /\ UNCHANGED <<redis, open, hub, since, waited, call, held, history, faults>>

\* Connect fails, whether or not Redis executed it: the socket is closed and
\* ServeWS returns.
ConnectFails(c) ==
  /\ stage[c] \in {"none", "connecting"}
  /\ Fault
  /\ stage' = [stage EXCEPT ![c] = "done"]
  /\ open' = open \ {c}
  /\ UNCHANGED <<redis, hub, ping, history>>

\* Mutant: the registry is keyed by connection.
RegisterBoth(c) ==
  /\ stage[c] = "present"
  /\ stage' = [stage EXCEPT ![c] = "serving"]
  /\ hub' = [r \in Rooms |-> IF r \in RoomsOf[c] THEN hub[r] \cup {c} ELSE hub[r]]
  /\ UNCHANGED <<redis, open, ping, history, faults>>

\* hub.Register: in each of its rooms the connection takes the place of one with the
\* same client id.
Register(c) ==
  /\ stage[c] = "present"
  /\ stage' = [stage EXCEPT ![c] = "serving"]
  /\ hub' = [r \in Rooms |->
               IF r \in RoomsOf[c] THEN (hub[r] \ SameEntry(c)) \cup {c} ELSE hub[r]]
  /\ UNCHANGED <<redis, open, ping, history, faults>>

\* ReadMessage fails; disconnect calls hub.Unregister with the client id and closes
\* the socket.
Unregister(c) ==
  /\ stage[c] = "serving"
  /\ stage' = [stage EXCEPT ![c] = "left"]
  /\ hub' = [r \in Rooms |-> hub[r] \ SameEntry(c)]
  /\ open' = open \ {c}
  /\ UNCHANGED <<redis, ping, history, faults>>

\* Mutant: Disconnect is called with the instance name, as Connect and Ping are.
DisconnectNamed(c) ==
  /\ stage[c] = "left"
  /\ stage' = [stage EXCEPT ![c] = "done"]
  /\ IF SMembers(KeyOf(c)) = {} THEN UNCHANGED redis
     ELSE DisconnectTx(KeyOf(c), SMembers(KeyOf(c)))
  /\ PingEnds({c})
  /\ UNCHANGED <<open, hub, call, held, history, faults>>

\* The Disconnect RPC names no instance.  It ends at once when it reads no rooms.
\* Its failure changes nothing either.  Then ServeWS returns and cancels ctx, and
\* runPing ends: its socket is closed, its call is cancelled.
Disconnect(c) ==
  /\ stage[c] = "left"
  /\ stage' = [stage EXCEPT ![c] = "done"]
  /\ IF SMembers(Unnamed(c)) = {} THEN UNCHANGED redis
     ELSE DisconnectTx(Unnamed(c), SMembers(Unnamed(c)))
  /\ PingEnds({c})
  /\ UNCHANGED <<open, hub, call, held, history, faults>>

\* The ticker fires.
TickerFires(c) ==
  /\ pinger[c] = "waiting"
  /\ since[c] = pingPeriod
  /\ pinger' = [pinger EXCEPT ![c] = "writing"]
  /\ since' = [since EXCEPT ![c] = 0]
  /\ UNCHANGED <<redis, conn, waited, call, held, history, faults>>

\* WriteControl returns, after up to writeTimeout.  Ping is called, or the frame could
\* not be written: runPing closes the socket and ends.
WritePing(c) ==
  /\ pinger[c] = "writing"
  /\ \/ /\ c \in open
        /\ pinger' = [pinger EXCEPT ![c] = "calling"]
        /\ call' = [call EXCEPT ![c] = "sent"]
        /\ UNCHANGED <<open, since, waited, faults>>
     \/ /\ IF c \in open THEN Fault ELSE UNCHANGED faults
        /\ PingEnds({c})
        /\ open' = open \ {c}
        /\ UNCHANGED call
  /\ UNCHANGED <<redis, stage, hub, held, history>>

\* Ping reads the rooms of its key; an error is ignored and leaves no rooms.
PingRead(c) ==
  /\ call[c] = "sent"
  /\ call' = [call EXCEPT ![c] = "read"]
  /\ \/ held' = [held EXCEPT ![c] = SMembers(KeyOf(c))] /\ UNCHANGED <<overdue, faults>>
     \/ Fault /\ overdue' = overdue \cup {c} /\ UNCHANGED held
  /\ UNCHANGED <<redis, conn, pinger, since, waited, latest, raced>>

\* Redis executes the transaction of Ping, with or without a caller that waits.
PingExec(c) ==
  /\ call[c] = "read"
  /\ PingTx(KeyOf(c), held[c])
  /\ call' = [call EXCEPT ![c] = "none"]
  /\ held' = [held EXCEPT ![c] = {}]
  /\ overdue' = IF held[c] # {} /\ keyTTL[KeyOf(c)] > 0 THEN overdue \ {c} ELSE overdue
  /\ UNCHANGED <<conn, pinger, since, waited, latest, raced, faults>>

\* Ping returns to runPing.
PingReturns(c) ==
  /\ pinger[c] = "calling"
  /\ call[c] = "none"
  /\ pinger' = [pinger EXCEPT ![c] = "waiting"]
  /\ waited' = [waited EXCEPT ![c] = 0]
  /\ UNCHANGED <<redis, conn, since, call, held, history, faults>>

\* Ping fails or does not answer within pingTimeout, whether or not Redis executes it:
\* runPing closes the socket and ends.
PingFails(c) ==
  /\ pinger[c] = "calling"
  /\ Fault
  /\ PingEnds({c})
  /\ open' = open \ {c}
  /\ UNCHANGED <<redis, stage, hub, call, held, history>>

\* A call nobody waits for is given up.
PingDropped(c) ==
  /\ call[c] # "none"
  /\ pinger[c] # "calling"
  /\ call' = [call EXCEPT ![c] = "none"]
  /\ held' = [held EXCEPT ![c] = {}]
  /\ UNCHANGED <<redis, conn, pinger, since, waited, history, faults>>

\* An instance dies with its hub; a Ping already sent may still be executed.
Crash(i) ==
  /\ Fault
  /\ LET dead == {c \in Conns : InstanceOf[c] = i /\ stage[c] # "none"}
     IN  /\ dead # {}
         /\ stage' = [c \in Conns |-> IF c \in dead THEN "done" ELSE stage[c]]
         /\ open' = open \ dead
         /\ hub' = [r \in Rooms |-> hub[r] \ dead]
         /\ PingEnds(dead)
  /\ UNCHANGED <<redis, call, held, history>>

\* When time passes, the ticker of c has not started although Redis has its presence,
\* or connTTL - pingPeriod is over since the tick and its Ping is not executed.
Late(c) ==
  \/ stage[c] = "connecting"
  \/ (pinger[c] = "writing" \/ call[c] # "none") /\ since[c] + 1 >= connTTL - pingPeriod

Tick ==
  /\ \A c \in Conns : /\ pinger[c] = "waiting" => since[c] < pingPeriod
                      /\ pinger[c] = "writing" => since[c] < writeTimeout
                      /\ pinger[c] = "calling" => waited[c] < pingTimeout
  /\ Elapse
  /\ since' = [c \in Conns |-> IF pinger[c] = "off" THEN 0 ELSE since[c] + 1]
  /\ waited' = [c \in Conns |-> IF pinger[c] = "calling" THEN waited[c] + 1 ELSE 0]
  /\ overdue' = {c \in open : c \in overdue \/ Late(c)}
  /\ raced' = [k \in Keys |-> IF keyTTL[k] = 1 THEN UNION {held[c] : c \in {d \in Conns : KeyOf(d) = k}}
                               ELSE raced[k]]
  /\ UNCHANGED <<conn, pinger, call, held, latest, faults>>

Next ==
  \/ \E c \in Conns : \/ Connect(c) \/ StartPing(c) \/ ConnectFails(c) \/ Register(c)
                      \/ Unregister(c) \/ Disconnect(c)
                      \/ TickerFires(c) \/ WritePing(c) \/ PingRead(c) \/ PingExec(c)
                      \/ PingReturns(c) \/ PingFails(c) \/ PingDropped(c)
  \/ \E i \in Instances : Crash(i)
  \/ Tick

Spec == Init /\ [][Next]_vars

\* Time passes; runPing goes on, and so does a call of Ping.  Nothing is assumed of
\* Register and Unregister, which may wait for the hub's mutex for ever.
Fairness ==
  /\ WF_vars(Tick)
  /\ \A c \in Conns :
       /\ WF_vars(TickerFires(c) \/ WritePing(c) \/ PingReturns(c) \/ PingFails(c))
       /\ WF_vars(PingRead(c) \/ PingExec(c) \/ PingDropped(c))

FairSpec == Spec /\ Fairness

-----------------------------------------------------------------------------
TypeOK ==
  /\ PresenceTypeOK
  /\ stage \in [Conns -> {"none", "connecting", "present", "serving", "left", "done"}]
  /\ open \subseteq Conns
  /\ hub \in [Rooms -> SUBSET Conns]
  /\ pinger \in [Conns -> {"off", "waiting", "writing", "calling"}]
  /\ since \in [Conns -> 0 .. pingPeriod]
  /\ waited \in [Conns -> 0 .. pingTimeout]
  /\ call \in [Conns -> {"none", "sent", "read"}]
  /\ held \in [Conns -> SUBSET Rooms]
  /\ latest \in [Keys -> SUBSET Conns]
  /\ overdue \subseteq Conns
  /\ raced \in [Keys -> SUBSET Rooms]
  /\ faults \in 0 .. MaxFaults

\* Messages of its rooms are routed to the instance of a connection that is being
\* served, whatever older connections of the same client and Pings they left behind do:
\* the last connection to register a key finds its key in every one of its rooms.  This
\* is suspended only for a connection that is overdue: its ticker started after its
\* Connect was executed, its Ping is not executed connTTL - pingPeriod (6 s) after the
\* tick, though WriteControl and the RPC may take 15 s, or its Ping swallowed an error
\* of SMEMBERS; and it is restored by a Ping that still finds the key.
Routable ==
  \A c \in Conns :
    (stage[c] = "serving" /\ c \in open /\ latest[KeyOf(c)] = {c} /\ c \notin overdue)
      => \A r \in RoomsOf[c] : KeyOf(c) \in HGetAll(r)

\* The hub sends only to connections whose ServeWS is running, and to one of those
\* of a client on an instance.
HubIsServed ==
  \A r \in Rooms : \A c \in hub[r] : stage[c] = "serving" /\ hub[r] \cap SameEntry(c) = {c}

\* A room holds the field of a client key that is gone only if the key expired between
\* the SMEMBERS and the EXEC of a Ping that had read this very room; otherwise the field
\* goes no later than the key, and Ping does not write it back (grpc_test.go: "Ping must
\* not resurrect room membership").
NoResurrection ==
  \A k \in Keys : \A r \in Rooms :
    fieldTTL[r][k] <= keyTTL[k] \/ (keyTTL[k] = 0 /\ r \in raced[k])

\* The presence of a client goes away once none of its connections is left, though
\* no Disconnect ever names its key and though its instance may have crashed.
Quiet(k) == \A c \in Conns : KeyOf(c) = k => stage[c] \in {"none", "done"}
Vanishes ==
  \A k \in {KeyOf(c) : c \in Conns} :
    Quiet(k) ~> (~Quiet(k) \/ \A r \in Rooms : k \notin HGetAll(r))

\* e2e_test.go, TestE2EReconnectReceivesRoomMessage: a client that closed its
\* connection and opened another receives the messages of its rooms, so the new
\* connection is in the hub of its instance.
ReconnectedIsRegistered ==
  \A c \in Conns :
    (/\ stage[c] = "serving" /\ c \in open
     /\ \A d \in SameEntry(c) \ {c} : stage[d] \in {"none", "left", "done"})
      => \A r \in RoomsOf[c] : c \in hub[r]
=============================================================================
