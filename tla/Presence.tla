------------------------------ MODULE Presence ------------------------------
(***************************************************************************)
(* What presence_service keeps in Redis, and what each of its RPCs does to *)
(* it.  A client key (client id and instance name) has a set of rooms and  *)
(* a TTL; the hash of a room has one field per client key, with a TTL of   *)
(* its own.  A TTL of 0 means that the key or the field does not exist.    *)
(*                                                                         *)
(* Every RPC ends in one MULTI/EXEC transaction, the operators ...Tx; Ping *)
(* and Disconnect read the set of rooms in an earlier round trip, so the   *)
(* rooms they write are a parameter.                                       *)
(***************************************************************************)
EXTENDS Naturals

CONSTANTS
  Keys,     \* client keys
  Rooms,    \* room ids
  connTTL   \* connTTL, in units of Elapse

ASSUME PresenceAssumption == connTTL \in Nat \ {0}

VARIABLES
  members,  \* the set of rooms of a client key
  keyTTL,   \* the TTL of that set
  fieldTTL  \* the TTL of the field of a client key in the hash of a room

redis == <<members, keyTTL, fieldTTL>>

PresenceInit ==
  /\ members = [k \in Keys |-> {}]
  /\ keyTTL = [k \in Keys |-> 0]
  /\ fieldTTL = [r \in Rooms |-> [k \in Keys |-> 0]]

PresenceTypeOK ==
  /\ members \in [Keys -> SUBSET Rooms]
  /\ keyTTL \in [Keys -> 0 .. connTTL]
  /\ fieldTTL \in [Rooms -> [Keys -> 0 .. connTTL]]

\* SMEMBERS: the empty set when the key does not exist.
SMembers(k) == members[k]

\* HSET and HEXPIRE of the field of k in every room.
saveRooms(k, rs) ==
  fieldTTL' = [r \in Rooms |-> IF r \in rs THEN [fieldTTL[r] EXCEPT ![k] = connTTL]
                               ELSE fieldTTL[r]]

\* DEL, SADD and EXPIRE of the client key.
saveClient(k, rs) ==
  /\ members' = [members EXCEPT ![k] = rs]
  /\ keyTTL' = [keyTTL EXCEPT ![k] = connTTL]

ConnectTx(k, rs) == saveRooms(k, rs) /\ saveClient(k, rs)

\* Mutant: Ping renews the fields and not the key.
PingTxNoExpire(k, rs) == saveRooms(k, rs) /\ UNCHANGED <<members, keyTTL>>

\* EXPIRE does nothing when the key does not exist.
PingTx(k, rs) ==
  /\ saveRooms(k, rs)
  /\ keyTTL' = [keyTTL EXCEPT ![k] = IF @ = 0 THEN 0 ELSE connTTL]
  /\ UNCHANGED members

\* DEL of the client key and HDEL in the rooms that were read.
DisconnectTx(k, rs) ==
  /\ members' = [members EXCEPT ![k] = {}]
  /\ keyTTL' = [keyTTL EXCEPT ![k] = 0]
  /\ fieldTTL' = [r \in Rooms |-> IF r \in rs THEN [fieldTTL[r] EXCEPT ![k] = 0]
                                  ELSE fieldTTL[r]]

\* Mutant: fields are written without HEXPIRE.
ElapseKeys ==
  /\ keyTTL' = [k \in Keys |-> IF keyTTL[k] = 0 THEN 0 ELSE keyTTL[k] - 1]
  /\ members' = [k \in Keys |-> IF keyTTL[k] <= 1 THEN {} ELSE members[k]]
  /\ UNCHANGED fieldTTL

\* One unit of time: TTLs run down, and what reaches 0 is gone.
Elapse ==
  LET less(n) == IF n = 0 THEN 0 ELSE n - 1
  IN  /\ keyTTL' = [k \in Keys |-> less(keyTTL[k])]
      /\ members' = [k \in Keys |-> IF keyTTL[k] <= 1 THEN {} ELSE members[k]]
      /\ fieldTTL' = [r \in Rooms |-> [k \in Keys |-> less(fieldTTL[r][k])]]

\* IsConnected, before the instance names are read off the keys.
HGetAll(r) == {k \in Keys : fieldTTL[r][k] > 0}
=============================================================================
