----------------------------- MODULE MCHubLoop ------------------------------
(***************************************************************************)
(* An instance of HubLoop for TLC: the clients share a room.               *)
(***************************************************************************)
EXTENDS HubLoop

CONSTANT r1

MCRooms == {r1}
MCRoomOf == [c \in Clients |-> r1]
=============================================================================
