----------------------------- MODULE Contracts -----------------------------
(***************************************************************************)
(* The frames between clients and message_service and the events of rooms, *)
(* with their Validate methods and the client's decoder.  A field is Blank *)
(* when it is absent, white space only or a zero time; the fields that     *)
(* only one kind of frame has are left out where nothing looks at them.    *)
(***************************************************************************)
EXTENDS Naturals

CONSTANT Blank

\* Blank is no number and none of the words that a field may hold.
ASSUME BlankAssumption ==
  /\ Blank \notin Nat
  /\ Blank \notin {"accepted", "rejected", "id", "room", "now", "json", "invalid_request",
                   "not_accepted"}

Version == 1

ValidSendRequest(r) ==
  /\ r.type = "send"
  /\ r.version = Version
  /\ r.client_message_id # Blank
  /\ r.room_id # Blank
  /\ r.payload # Blank

ValidEvent(e) ==
  /\ e.version = Version
  /\ e.message_id # Blank
  /\ e.client_message_id # Blank
  /\ e.room_id # Blank
  /\ e.room_seq >= 1
  /\ e.created_at # Blank
  /\ e.payload # Blank

\* Mutant: a rejection has to name the request it answers.
ValidRejectedNamed(a) ==
  /\ a.type = "rejected"
  /\ a.version = Version
  /\ a.client_message_id # Blank
  /\ a.error_code # Blank

ValidRejectedAck(a) ==
  /\ a.type = "rejected"
  /\ a.version = Version
  /\ a.error_code # Blank

ValidAcceptedAck(a) ==
  /\ a.type = "accepted"
  /\ a.version = Version
  /\ a.message_id # Blank
  /\ a.client_message_id # Blank
  /\ a.room_id # Blank
  /\ a.room_seq >= 1
  /\ a.created_at # Blank

\* decodeServerFrame of the client: the kind of a frame, or Blank for one that it
\* ignores.  An event has no type.
decodeServerFrame(f) ==
  CASE f.type = "accepted" -> IF ValidAcceptedAck(f) THEN "accepted" ELSE Blank
    [] f.type = "rejected" -> IF ValidRejectedAck(f) THEN "rejected" ELSE Blank
    [] OTHER               -> IF ValidEvent(f) THEN "event" ELSE Blank

-----------------------------------------------------------------------------
\* The event of the room's message n as Hub.Dispatch serialises it.
Event(n) ==
  [type |-> Blank, version |-> Version, message_id |-> n, client_message_id |-> n,
   room_id |-> "room", room_seq |-> n, created_at |-> "now", payload |-> "json"]

\* handleMessage's acknowledgement of an event, and enqueueRejected's rejection.
AcceptedAck(e) ==
  [type |-> "accepted", version |-> Version, message_id |-> e.message_id,
   client_message_id |-> e.client_message_id, room_id |-> e.room_id,
   room_seq |-> e.room_seq, created_at |-> e.created_at]

RejectedAck(id, code) ==
  [type |-> "rejected", version |-> Version, client_message_id |-> id,
   error_code |-> code]
=============================================================================
