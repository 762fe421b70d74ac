----------------------------- MODULE MCWsClient -----------------------------
(***************************************************************************)
(* Instances of WsClient for TLC: the clients send to one room.  Keys also *)
(* holds the connections, so that a request with another key would be seen.*)
(***************************************************************************)
EXTENDS WsClient

CONSTANT r1
MCRooms == {r1}
MCKeys == Clients \cup Workers
MCRoomOf == [c \in Clients |-> r1]
=============================================================================
