--------------------------- MODULE MCLogConsumer ----------------------------
(***************************************************************************)
(* Instances of LogConsumer for TLC.                                       *)
(***************************************************************************)
EXTENDS LogConsumer
=============================================================================
