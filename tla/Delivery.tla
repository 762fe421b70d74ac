------------------------------ MODULE Delivery ------------------------------
(***************************************************************************)
(* delivery_service: members of a Kafka consumer group read the message    *)
(* topic, ask presence which instances have clients in the room of a       *)
(* record, and publish the record on the Redis channels of those           *)
(* instances.  A record is marked when its handler returns nil; marks are  *)
(* committed in the background; a handler error ends the session and       *)
(* reading resumes after the last committed offset.                        *)
(*                                                                         *)
(* The topic is what the outbox relay makes of it (RoomTopic).  Instances  *)
(* receive a record as its partition and its offset, from 1.  A member     *)
(* that lost a partition goes on with the record in hand until it notices; *)
(* the group coordinator refuses its commits.                              *)
(***************************************************************************)
EXTENDS RoomTopic

CONSTANTS
  Members,     \* delivery_service processes
  Instances,   \* message_service instances
  MaxRecords,  \* bound: records per partition
  MaxFailures  \* bound: ended sessions, failed publishes and lost instances

ASSUME DeliveryAssumption ==
  /\ MaxRecords \in Nat
  /\ MaxFailures \in Nat

VARIABLES
  committed,  \* the committed offset of the group
  owner,      \* the members a partition is assigned to: one, or none yet
  claim,      \* what each member does with each partition
  present,    \* instances presence names for the rooms of the topic
  subscribed, \* instances subscribed to their channel
  steady,     \* history: instances that have been both all along
  handled,    \* history: offsets whose handler returned nil
  channel,    \* what each instance received, in order
  failures    \* failures so far

group == <<topic, committed, owner>>
env == <<present, subscribed, steady>>
deliveryVars == <<group, claim, env, handled, channel, failures>>

\* next: the offset to handle; marked: the last marked one; dest: the instances
\* looked up for the record in hand.
NoClaim == [state |-> "off", next |-> 0, marked |-> 0, dest |-> {}]
Claims == [state : {"off", "reading", "publishing"}, next : Nat, marked : Nat,
           dest : SUBSET Instances]

end == [p \in Partitions |-> Len(topic[p])]

Failure == failures < MaxFailures /\ failures' = failures + 1

-----------------------------------------------------------------------------
DeliveryInit ==
  /\ TopicInit
  /\ committed = [p \in Partitions |-> 0]
  /\ owner = [p \in Partitions |-> {}]
  /\ claim = [m \in Members |-> [p \in Partitions |-> NoClaim]]
  /\ present \in SUBSET Instances
  /\ subscribed = Instances
  /\ steady = present
  /\ handled = [p \in Partitions |-> {}]
  /\ channel = [i \in Instances |-> <<>>]
  /\ failures = 0

\* The relay appends a record, a new one or one it has published before.
Produce(e) ==
  /\ end[PartitionOf[e[1]]] < MaxRecords
  /\ AppendRecord(e)
  /\ UNCHANGED <<committed, owner, claim, env, handled, channel, failures>>

\* Mutant: the committed offset is taken for the next one.
StartAfter(m, p) ==
  claim' = [claim EXCEPT ![m][p] = [state |-> "reading", next |-> committed[p] + 2,
                                    marked |-> committed[p], dest |-> {}]]

\* Consume starts ConsumeClaim after the committed offset, with the oldest record
\* when there is none.
Start(m, p) ==
  claim' = [claim EXCEPT ![m][p] = [state |-> "reading", next |-> committed[p] + 1,
                                    marked |-> committed[p], dest |-> {}]]

\* A rebalance gives the partition to a member.  One that takes it while the owner
\* still has a claim means that the owner exceeded a timeout: it is not told.
Assign(m, p) ==
  /\ claim[m][p].state = "off"
  /\ \/ (\A o \in owner[p] : claim[o][p].state = "off") /\ UNCHANGED failures
     \/ (\E o \in owner[p] : claim[o][p].state # "off") /\ Failure
  /\ owner' = [owner EXCEPT ![p] = {m}]
  /\ Start(m, p)
  /\ UNCHANGED <<topic, committed, env, handled, channel>>

\* ConsumeClaim takes the next record; Handle asks presence for the instances.
IsConnected(m, p) ==
  /\ claim[m][p].state = "reading"
  /\ claim[m][p].next <= end[p]
  /\ claim' = [claim EXCEPT ![m][p].state = "publishing", ![m][p].dest = present]
  /\ UNCHANGED <<group, env, handled, channel, failures>>

\* What PUBLISH on the channels of the instances is delivers to them: a channel
\* without a subscriber takes it and keeps nothing.
Deliver(is, p, o) ==
  channel' = [i \in Instances |-> IF i \in is \cap subscribed
                                  THEN Append(channel[i], <<p, o>>) ELSE channel[i]]

\* Mutant: only the first instance is published to.
PublishOne(m, p) ==
  LET c == claim[m][p]
  IN  /\ c.state = "publishing"
      /\ \E is \in SUBSET c.dest :
           /\ \A i, j \in is : i = j
           /\ is = {} => c.dest = {}
           /\ Deliver(is, p, c.next)
      /\ handled' = [handled EXCEPT ![p] = @ \cup {c.next}]
      /\ claim' = [claim EXCEPT ![m][p] = [state |-> "reading", next |-> c.next + 1,
                                           marked |-> c.next, dest |-> {}]]
      /\ UNCHANGED <<group, env, failures>>

\* Mutant: the record is not marked.
PublishUnmarked(m, p) ==
  LET c == claim[m][p]
  IN  /\ c.state = "publishing"
      /\ Deliver(c.dest, p, c.next)
      /\ handled' = [handled EXCEPT ![p] = @ \cup {c.next}]
      /\ claim' = [claim EXCEPT ![m][p] = [@ EXCEPT !.state = "reading", !.next = @ + 1]]
      /\ UNCHANGED <<group, env, failures>>

\* PublishMessage publishes on the channel of every instance in one pipeline (no
\* instance: a live delivery miss); Handle returns nil and the record is marked.
PublishMessage(m, p) ==
  LET c == claim[m][p]
  IN  /\ c.state = "publishing"
      /\ Deliver(c.dest, p, c.next)
      /\ handled' = [handled EXCEPT ![p] = @ \cup {c.next}]
      /\ claim' = [claim EXCEPT ![m][p] = [state |-> "reading", next |-> c.next + 1,
                                           marked |-> c.next, dest |-> {}]]
      /\ UNCHANGED <<group, env, failures>>

EndSession(m) == claim' = [claim EXCEPT ![m] = [p \in Partitions |-> NoClaim]]

\* Mutant: the error is logged and the record is marked all the same.
PublishErrorLogged(m, p) ==
  LET c == claim[m][p]
  IN  /\ c.state = "publishing"
      /\ Failure
      /\ \E is \in SUBSET c.dest : Deliver(is, p, c.next)
      /\ claim' = [claim EXCEPT ![m][p] = [state |-> "reading", next |-> c.next + 1,
                                           marked |-> c.next, dest |-> {}]]
      /\ UNCHANGED <<group, env, handled>>

\* The pipeline fails, after some of its commands were executed: Handle returns the
\* error, ConsumeClaim returns it and the session of the member ends.
PublishError(m, p) ==
  LET c == claim[m][p]
  IN  /\ c.state = "publishing"
      /\ Failure
      /\ \E is \in SUBSET c.dest : Deliver(is, p, c.next)
      /\ EndSession(m)
      /\ UNCHANGED <<group, env, handled>>

\* The lookup fails, the session is cancelled by a rebalance, or the process dies.
SessionEnds(m) ==
  /\ \E p \in Partitions : claim[m][p].state # "off"
  /\ Failure
  /\ EndSession(m)
  /\ UNCHANGED <<group, env, handled, channel>>

\* The offset manager commits what is marked, every second and when a session is
\* released; the coordinator accepts it from the owner only.
Commit(m, p) ==
  /\ claim[m][p].state # "off"
  /\ owner[p] = {m}
  /\ claim[m][p].marked # committed[p]
  /\ committed' = [committed EXCEPT ![p] = claim[m][p].marked]
  /\ UNCHANGED <<topic, owner, claim, env, handled, channel, failures>>

\* Presence starts or stops to name an instance; the Redis consumer of an instance
\* loses its subscription or gets it back (Run, runRedisConsumer).
Appears(i) ==
  /\ present' = present \cup {i}
  /\ subscribed' \in {subscribed, subscribed \cup {i}}
  /\ UNCHANGED <<group, claim, steady, handled, channel, failures>>

Lost(i) ==
  /\ Failure
  /\ steady' = steady \ {i}
  /\ \/ present' = present \ {i} /\ UNCHANGED subscribed
     \/ subscribed' = subscribed \ {i} /\ UNCHANGED present
  /\ UNCHANGED <<group, claim, handled, channel>>

\* The steps of the members and of the instances.
Consume ==
  \/ \E i \in Instances : Appears(i) \/ Lost(i)
  \/ \E m \in Members :
       \/ SessionEnds(m)
       \/ \E p \in Partitions : \/ Assign(m, p) \/ IsConnected(m, p) \/ Commit(m, p)
                                \/ PublishMessage(m, p) \/ PublishError(m, p)

DeliveryNext == Consume \/ \E e \in Rooms \X Seqs : Produce(e)

DeliverySpec == DeliveryInit /\ [][DeliveryNext]_deliveryVars

\* The group assigns a partition nobody reads, members handle records until their
\* session ends, and marks are committed.
DeliveryFairness ==
  /\ \A p \in Partitions : WF_deliveryVars(\E m \in Members : UNCHANGED failures /\ Assign(m, p))
  /\ \A m \in Members : \A p \in Partitions :
       /\ WF_deliveryVars(IsConnected(m, p))
       /\ WF_deliveryVars(PublishMessage(m, p) \/ PublishError(m, p))
       /\ WF_deliveryVars(Commit(m, p))

FairDelivery == DeliverySpec /\ DeliveryFairness

-----------------------------------------------------------------------------
DeliveryTypeOK ==
  /\ topic \in [Partitions -> Seq(Rooms \X Seqs)]
  /\ committed \in [Partitions -> 0 .. MaxRecords]
  /\ owner \in [Partitions -> SUBSET Members]
  /\ claim \in [Members -> [Partitions -> Claims]]
  /\ present \subseteq Instances
  /\ subscribed \subseteq Instances
  /\ steady \subseteq present \cap subscribed
  /\ handled \in [Partitions -> SUBSET (1 .. MaxRecords)]
  /\ channel \in [Instances -> Seq(Partitions \X (1 .. MaxRecords))]
  /\ failures \in 0 .. MaxFailures

\* Nothing is skipped: every record up to the committed offset was handled to the
\* end, whatever sessions ended and partitions moved before (MarkMessage after
\* Handle).
CommittedIsHandled ==
  \A p \in Partitions : 1 .. committed[p] \subseteq handled[p]

Received(i) == {channel[i][n] : n \in DOMAIN channel[i]}

\* An instance that has been connected all along receives every record that was
\* handled, though a pipeline may have failed half way.
SteadyMissNothing ==
  \A i \in steady : \A p \in Partitions : \A o \in handled[p] : <<p, o>> \in Received(i)

Event(x) == topic[x[1]][x[2]]

\* From Accept to the instance: an instance that has been connected all along gets
\* the messages of a room in the order of room_seq and without a gap, repeats aside,
\* though both the relay and this service repeat records, out of step with each
\* other.
RoomsInOrder ==
  \A i \in steady : \A n \in DOMAIN channel[i] :
    LET e == Event(channel[i][n])
    IN  e[2] > 1 => \E k \in 1 .. n - 1 : Event(channel[i][k]) = <<e[1], e[2] - 1>>

\* Every record is handled and committed in the end.
EventuallyCommitted ==
  \A p \in Partitions : \A o \in 1 .. MaxRecords : (end[p] >= o) ~> (committed[p] >= o)
=============================================================================
