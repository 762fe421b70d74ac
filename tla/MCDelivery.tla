----------------------------- MODULE MCDelivery -----------------------------
(***************************************************************************)
(* Instances of Delivery for TLC.                                          *)
(***************************************************************************)
EXTENDS Delivery

\* All rooms share one partition.
OnePartition == [r \in Rooms |-> CHOOSE p \in Partitions : TRUE]
=============================================================================
