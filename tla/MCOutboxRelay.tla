--------------------------- MODULE MCOutboxRelay ---------------------------
(***************************************************************************)
(* Instances of OutboxRelay for TLC.                                       *)
(***************************************************************************)
EXTENDS OutboxRelay

\* All rooms share one partition: the harder case for the order of the topic.
OnePartition == [r \in Rooms |-> 1]
=============================================================================
