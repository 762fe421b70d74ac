------------------------------ MODULE RoomTopic ------------------------------
(***************************************************************************)
(* What the outbox relay promises to the readers of the message topic: the *)
(* messages of a room are in one partition, and none is there before the   *)
(* first copies of all earlier ones of its room.  Any message may come     *)
(* again at any time.  OutboxRelay implements this; Delivery reads it.     *)
(*                                                                         *)
(* A record <<r, n>> is the event of room r with room_seq n.               *)
(***************************************************************************)
EXTENDS Naturals, Sequences

CONSTANTS
  Rooms,        \* room ids
  Partitions,   \* partitions of the topic
  PartitionOf,  \* the hash partitioner: the partition of a room
  MaxSeq        \* bound: room_seq

ASSUME PartitionOfAssumption == PartitionOf \in [Rooms -> Partitions]
ASSUME MaxSeqAssumption == MaxSeq \in Nat

VARIABLE topic  \* the log of each partition

Seqs == 1 .. MaxSeq

\* The records of a room are all in the room's partition.
Log(r) == topic[PartitionOf[r]]
Has(e) == \E i \in 1 .. Len(Log(e[1])) : Log(e[1])[i] = e

TopicInit == topic = [p \in Partitions |-> <<>>]

\* A record is appended whose predecessors are all there.
AppendRecord(e) ==
  /\ \A n \in 1 .. e[2] - 1 : Has(<<e[1], n>>)
  /\ topic' = [topic EXCEPT ![PartitionOf[e[1]]] = Append(@, e)]

TopicNext == \E e \in Rooms \X Seqs : AppendRecord(e)

TopicSpec == TopicInit /\ [][TopicNext]_topic
=============================================================================
