--------------------------- MODULE MCHubDispatch ----------------------------
(***************************************************************************)
(* Instances of HubDispatch for TLC.                                       *)
(***************************************************************************)
EXTENDS HubDispatch
=============================================================================
