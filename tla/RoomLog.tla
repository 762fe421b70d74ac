------------------------------ MODULE RoomLog -------------------------------
(***************************************************************************)
(* What proper-scale's message_service promises its clients: every room is *)
(* an append-only log, a (client_id, client_message_id) pair is appended   *)
(* to at most one log and at most once, and an acknowledgement names the   *)
(* place the message really has.  Accepting is atomic here; MessageStore   *)
(* shows that the transactions of Store.Accept implement it.               *)
(***************************************************************************)
EXTENDS Naturals, Sequences

CONSTANTS Rooms, Keys

VARIABLES
  log,          \* the keys accepted in each room, in room_seq order
  acked         \* the places that were acknowledged

Place(k, r, i) == [key |-> k, room |-> r, seq |-> i]

Accepted(k) == \E r \in Rooms : \E i \in 1 .. Len(log[r]) : log[r][i] = k

Init ==
  /\ log = [r \in Rooms |-> << >>]
  /\ acked = {}

\* A new message gets the next place of its room.  Its sender may or may not
\* be told.
Accept(k, r) ==
  /\ ~Accepted(k)
  /\ log' = [log EXCEPT ![r] = Append(@, k)]
  /\ \/ UNCHANGED acked
     \/ acked' = acked \cup {Place(k, r, Len(log[r]) + 1)}

\* A retry is told the place the message already has.
Acknowledge(r, i) ==
  /\ i \in 1 .. Len(log[r])
  /\ acked' = acked \cup {Place(log[r][i], r, i)}
  /\ UNCHANGED log

Next == \E r \in Rooms : \/ \E k \in Keys : Accept(k, r)
                         \/ \E i \in 1 .. Len(log[r]) : Acknowledge(r, i)

Spec == Init /\ [][Next]_<<log, acked>>
=============================================================================
