---------------------------- MODULE MessagePath -----------------------------
(***************************************************************************)
(* The path of a message through proper-scale, put together: the history   *)
(* that the transactions of Store.Accept implement (RoomLog, which         *)
(* MessageStore refines), the relays that publish the outbox (OutboxRelay, *)
(* whose names are used as they are) and the consumer group that delivers  *)
(* the topic to the instances (Delivery).                                  *)
(*                                                                         *)
(* The parts meet in the tables and in the topic only.  The commit of      *)
(* Accept adds the message and its outbox row in one step (MessageStore,   *)
(* OutboxMatchesHistory); an append of the broker is the step that adds a  *)
(* record to the consumers' topic.                                         *)
(***************************************************************************)
EXTENDS OutboxRelay, Delivery

CONSTANT Keys          \* of RoomLog

VARIABLES log, acked   \* of RoomLog

storeVars == <<log, acked>>
groupVars == <<committed, owner, claim, present, subscribed, steady, handled, channel, failures>>
pathVars == <<storeVars, vars, groupVars>>

Store == INSTANCE RoomLog

-----------------------------------------------------------------------------
PathInit == Init /\ Store!Init /\ DeliveryInit

\* Accept commits a message, with the outbox row the relays read, or it answers a
\* retry from the history.
AcceptStep ==
  /\ \E r \in Rooms :
       \/ (\E k \in Keys : Store!Accept(k, r)) /\ Accepted(r)
       \/ (\E i \in 1 .. Len(log[r]) : Store!Acknowledge(r, i)) /\ UNCHANGED vars
  /\ UNCHANGED groupVars

\* A step of a relay or of the broker.
RelayStep ==
  /\ Work
  /\ \A p \in Partitions : Len(topic'[p]) <= MaxRecords
  /\ UNCHANGED <<storeVars, groupVars>>

\* A step of the consumer group or of the instances.
ConsumerStep ==
  /\ Consume
  /\ UNCHANGED <<storeVars, rows, published, inflight, relayVars, faults>>

PathNext == AcceptStep \/ RelayStep \/ ConsumerStep

PathSpec == PathInit /\ [][PathNext]_pathVars

-----------------------------------------------------------------------------
\* A place in the history, and the key of the message there.
InHistory(e) == e[1] \in Rooms /\ e[2] \in 1 .. Len(log[e[1]])
KeyOf(e) == log[e[1]][e[2]]

\* Nothing but accepted messages reaches an instance, and a message gets there only
\* when all earlier ones of its room are marked as published.
OnlyAccepted ==
  \A i \in Instances : \A x \in Received(i) :
    InHistory(Event(x)) /\ Follows(Event(x))

\* A client may send a message any number of times, the relays may publish it and the
\* consumers deliver it any number of times: whatever instances receive for one
\* (client_id, client_message_id) is the same message, at the same place of its room.
OnePlacePerKey ==
  \A i, j \in Instances : \A x \in Received(i), y \in Received(j) :
    KeyOf(Event(x)) = KeyOf(Event(y)) => Event(x) = Event(y)

\* A message that was acknowledged to its sender and marked as published is in the
\* topic, at a place the group does not commit before every instance that was
\* connected all along has it: between the answer of Accept and the instance it
\* cannot be lost, whatever crashes, retries and rebalances there are.
AckedArrives ==
  \A a \in acked :
    LET e == <<a.room, a.seq>>
        p == PartitionOf[a.room]
    IN  /\ InHistory(e) /\ KeyOf(e) = a.key
        /\ e \in published =>
             \E o \in 1 .. Len(topic[p]) :
               /\ topic[p][o] = e
               /\ committed[p] >= o => \A i \in steady : <<p, o>> \in Received(i)

\* An instance that was connected all along has, before it gets a message, got all
\* earlier ones of the history of the room.
HistoryInOrder ==
  \A i \in steady : \A n \in DOMAIN channel[i] :
    LET e == Event(channel[i][n])
    IN  \A s \in 1 .. e[2] - 1 : \E k \in 1 .. n - 1 : Event(channel[i][k]) = <<e[1], s>>
=============================================================================
