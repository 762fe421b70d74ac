---------------------------- MODULE MessageStore ----------------------------
(***************************************************************************)
(* Store.Accept of proper-scale's message_service: the transaction that    *)
(* gives a client's message its place in its room.  Several websocket read *)
(* loops, of one or of several instances, run Accept at the same time      *)
(* against one PostgreSQL database (isolation level READ COMMITTED).       *)
(*                                                                         *)
(* One action is one statement sent to the database.  The locks PostgreSQL *)
(* holds for an open transaction are read off the program counters:        *)
(*   - the row of room_counters, from the upsert until the transaction     *)
(*     ends;                                                               *)
(*   - the entry of messages_client_idempotency_unique, from the insert    *)
(*     into messages until the transaction ends.                           *)
(* A key stands for the pair (client_id, client_message_id).  message_id   *)
(* is a fresh random UUID and is left out: a committed message is known by *)
(* its key.  A payload is the JSON value, which the jsonb columns keep;    *)
(* its spelling, which they do not keep, is left out.                      *)
(***************************************************************************)
EXTENDS Naturals

CONSTANTS
  Workers,      \* websocket read loops that call Accept
  Rooms,        \* room ids
  Keys,         \* (client_id, client_message_id) pairs
  Payloads,     \* JSON values a message can carry
  NoRequest     \* a worker that is not in Accept

ASSUME NoRequestAssumption ==
  NoRequest \notin [key : Keys, room : Rooms, payload : Payloads]

VARIABLES
  counters,     \* room_counters.last_seq as committed; 0 when there is no row
  messages,     \* committed rows of messages
  outbox,       \* committed rows of message_outbox
  pc,           \* the statement each worker is about to send
  req,          \* the SendRequest each worker is serving
  tx,           \* what each worker's open transaction has written
  acks          \* every event Accept has returned without an error

tables == <<counters, messages, outbox>>
vars == <<counters, messages, outbox, pc, req, tx, acks>>

Requests == [key : Keys, room : Rooms, payload : Payloads]
Events == [key : Keys, room : Rooms, seq : Nat \ {0}, payload : Payloads]
Steps == {"idle", "find", "findTx", "allocate", "insert", "outbox", "commit",
          "conflict"}

\* An open transaction's own writes: the last_seq it put in its room's counter
\* and the rows it inserted.  No other transaction sees them before the commit.
Txs == [seq : Nat, messages : SUBSET Events, outbox : SUBSET Events]
NoWrites == [seq |-> 0, messages |-> {}, outbox |-> {}]

\* Mutant: the counter is locked before the upsert, by another connection.
HoldsRoomEarly(w, r) ==
  pc[w] \in {"allocate", "insert", "outbox", "commit"} /\ req[w].room = r

\* The transactions that hold the row lock on the counter of room r.
HoldsRoom(w, r) == pc[w] \in {"insert", "outbox", "commit"} /\ req[w].room = r

\* The transactions that inserted key k into messages and have not ended.
HoldsKey(w, k) == pc[w] \in {"outbox", "commit"} /\ req[w].key = k

\* findEvent: the committed rows with the worker's key.
Found(w) == {m \in messages : m.key = req[w].key}

-----------------------------------------------------------------------------
Init ==
  /\ counters = [r \in Rooms |-> 0]
  /\ messages = {}
  /\ outbox = {}
  /\ pc = [w \in Workers |-> "idle"]
  /\ req = [w \in Workers |-> NoRequest]
  /\ tx = [w \in Workers |-> NoWrites]
  /\ acks = {}

Goto(w, step) == pc' = [pc EXCEPT ![w] = step]

\* Accept is over; a transaction still open is rolled back by the deferred
\* Rollback, which releases its locks.
Leave(w) ==
  /\ Goto(w, "idle")
  /\ req' = [req EXCEPT ![w] = NoRequest]
  /\ tx' = [tx EXCEPT ![w] = NoWrites]

\* Accept returns the event e and no error.
Return(w, e) ==
  /\ Leave(w)
  /\ acks' = acks \cup {e}

\* A read loop decoded a valid SendRequest and calls Accept.
Start(w) ==
  /\ pc[w] = "idle"
  /\ \E q \in Requests : req' = [req EXCEPT ![w] = q]
  /\ Goto(w, "find")
  /\ UNCHANGED <<tables, tx, acks>>

\* findEvent: the key is already accepted, or the step `next` follows.
FindEvent(w, step, next) ==
  /\ pc[w] = step
  /\ \/ \E m \in Found(w) : Return(w, m)
     \/ /\ Found(w) = {}
        /\ Goto(w, next)
        /\ UNCHANGED <<req, tx, acks>>
  /\ UNCHANGED tables

\* The lookup on the pool, before a transaction is opened.
FindAccepted(w) == FindEvent(w, "find", "findTx")

\* Begin, and the same lookup inside the transaction.
FindInTx(w) == FindEvent(w, "findTx", "allocate")

\* Mutant: the upsert is committed on its own, as a database sequence would be.
AllocateSeqAlone(w) ==
  /\ pc[w] = "allocate"
  /\ counters' = [counters EXCEPT ![req[w].room] = @ + 1]
  /\ tx' = [tx EXCEPT ![w].seq = counters[req[w].room] + 1]
  /\ Goto(w, "insert")
  /\ UNCHANGED <<messages, outbox, req, acks>>

\* Mutant: the counter is read without a row lock.
AllocateSeqUnlocked(w) ==
  /\ pc[w] = "allocate"
  /\ tx' = [tx EXCEPT ![w].seq = counters[req[w].room] + 1]
  /\ Goto(w, "insert")
  /\ UNCHANGED <<tables, req, acks>>

\* The upsert of room_counters waits for the row lock, then reads the last
\* committed value.
AllocateSeq(w) ==
  /\ pc[w] = "allocate"
  /\ \A v \in Workers : ~HoldsRoom(v, req[w].room)
  /\ tx' = [tx EXCEPT ![w].seq = counters[req[w].room] + 1]
  /\ Goto(w, "insert")
  /\ UNCHANGED <<tables, req, acks>>

\* The row built from the request and the allocated room_seq.
NewEvent(w) ==
  [key |-> req[w].key, room |-> req[w].room, seq |-> tx[w].seq,
   payload |-> req[w].payload]

\* Mutant: there is no messages_client_idempotency_unique.
InsertMessageTwice(w) ==
  /\ pc[w] = "insert"
  /\ tx' = [tx EXCEPT ![w].messages = {NewEvent(w)}]
  /\ Goto(w, "outbox")
  /\ UNCHANGED <<tables, req, acks>>

\* Mutant: the insert fails at once on a key an open transaction has inserted.
InsertMessageNoWait(w) ==
  /\ pc[w] = "insert"
  /\ LET taken == Found(w) # {} \/ \E v \in Workers : HoldsKey(v, req[w].key)
     IN \/ /\ ~taken
           /\ tx' = [tx EXCEPT ![w].messages = {NewEvent(w)}]
           /\ Goto(w, "outbox")
        \/ /\ taken
           /\ tx' = [tx EXCEPT ![w] = NoWrites]
           /\ Goto(w, "conflict")
  /\ UNCHANGED <<tables, req, acks>>

\* The insert into messages waits for an open transaction that inserted the
\* same key; a committed one makes it fail on the idempotency constraint, and
\* the transaction is rolled back.
InsertMessage(w) ==
  /\ pc[w] = "insert"
  /\ \A v \in Workers : ~HoldsKey(v, req[w].key)
  /\ \/ /\ Found(w) = {}
        /\ tx' = [tx EXCEPT ![w].messages = {NewEvent(w)}]
        /\ Goto(w, "outbox")
     \/ /\ Found(w) # {}
        /\ tx' = [tx EXCEPT ![w] = NoWrites]
        /\ Goto(w, "conflict")
  /\ UNCHANGED <<tables, req, acks>>

\* After the conflict, findEvent on the pool returns the accepted event.
FindConflicting(w) ==
  /\ pc[w] = "conflict"
  /\ \E m \in Found(w) : Return(w, m)
  /\ UNCHANGED tables

\* Mutant: the outbox row is inserted on the pool, not in the transaction.
InsertOutboxOnPool(w) ==
  /\ pc[w] = "outbox"
  /\ outbox' = outbox \cup {NewEvent(w)}
  /\ Goto(w, "commit")
  /\ UNCHANGED <<counters, messages, tx, req, acks>>

InsertOutbox(w) ==
  /\ pc[w] = "outbox"
  /\ tx' = [tx EXCEPT ![w].outbox = {NewEvent(w)}]
  /\ Goto(w, "commit")
  /\ UNCHANGED <<tables, req, acks>>

\* The commit makes the transaction's writes visible, all at once.
ApplyTx(w) ==
  /\ counters' = [counters EXCEPT ![req[w].room] = tx[w].seq]
  /\ messages' = messages \cup tx[w].messages
  /\ outbox' = outbox \cup tx[w].outbox

\* The commit succeeds and Accept returns the event it built.
Commit(w) ==
  /\ pc[w] = "commit"
  /\ ApplyTx(w)
  /\ Return(w, NewEvent(w))

\* The commit succeeds but its answer is lost: Accept returns an error.
CommitUnknown(w) ==
  /\ pc[w] = "commit"
  /\ ApplyTx(w)
  /\ Leave(w)
  /\ UNCHANGED acks

\* Mutant: the error of the commit is ignored.
FailIgnored(w) ==
  /\ pc[w] = "commit"
  /\ Return(w, NewEvent(w))
  /\ UNCHANGED tables

\* A statement fails, the context ends or the instance stops: the deferred
\* Rollback, or the server, undoes the transaction and Accept returns an error.
Fail(w) ==
  /\ pc[w] # "idle"
  /\ Leave(w)
  /\ UNCHANGED <<tables, acks>>

Step(w) ==
  \/ FindAccepted(w) \/ FindInTx(w) \/ AllocateSeq(w) \/ InsertMessage(w)
  \/ FindConflicting(w) \/ InsertOutbox(w) \/ Commit(w) \/ CommitUnknown(w)

Next == \E w \in Workers : Start(w) \/ Step(w) \/ Fail(w)

Spec == Init /\ [][Next]_vars

\* A worker keeps sending its statements, and PostgreSQL's lock queues are
\* first come first served: a transaction that waits for a lock that is
\* released again and again gets it.
Fairness ==
  \A w \in Workers : /\ WF_vars(Step(w))
                     /\ SF_vars(AllocateSeq(w))
                     /\ SF_vars(InsertMessage(w))

FairSpec == Spec /\ Fairness

-----------------------------------------------------------------------------
TypeOK ==
  /\ counters \in [Rooms -> Nat]
  /\ messages \subseteq Events
  /\ outbox \subseteq Events
  /\ pc \in [Workers -> Steps]
  /\ req \in [Workers -> Requests \cup {NoRequest}]
  /\ tx \in [Workers -> Txs]
  /\ acks \subseteq Events

\* The committed sequence numbers of a room are exactly 1 .. last_seq: rolled
\* back and conflicting transactions leave no gap, and a reader that sees a
\* message also sees every earlier message of the room (Accept, the row lock on
\* room_counters is held until the commit).
Gapless ==
  \A r \in Rooms :
    {m.seq : m \in {n \in messages : n.room = r}} = 1 .. counters[r]

\* A (client_id, client_message_id) pair is accepted at most once and a place in
\* a room is given at most once, whatever retries, reconnects to another
\* instance and concurrent Accepts do.
AcceptedOnce ==
  \A m, n \in messages :
    (m.key = n.key \/ (m.room = n.room /\ m.seq = n.seq)) => m = n

\* Every message of the history is in the outbox and the other way round: no
\* crash or failed statement between the two inserts can separate them.
OutboxMatchesHistory == outbox = messages

\* Every event Accept returned is a committed row, with its room, room_seq and
\* payload: a retry that carries another room or another payload, or that comes
\* after an acknowledgement was lost, is told what the first attempt stored.
AckedIsCommitted == acks \subseteq messages

\* A transaction that ran into the idempotency constraint finds the message it
\* ran into, so Accept never reports an error for a message that was accepted by
\* a concurrent attempt (store.go: findErr == nil after the rollback).
ConflictFindsMessage ==
  \A w \in Workers : pc[w] = "conflict" => Found(w) # {}

\* An accepted message is never changed or removed, and a commit adds the
\* message that follows the last one of its room, and only that one.
CommitsInOrder ==
  [][/\ messages \subseteq messages'
     /\ \A m \in messages' \ messages :
          m.seq = counters[m.room] + 1 /\ counters'[m.room] = m.seq]_vars

\* The open transaction of worker w: the room_seq it allocated is still the next
\* one, the key it inserted is still new, and at the commit it has written the
\* same row to both tables.
TxOK(w) ==
  /\ pc[w] # "idle" => req[w] \in Requests
  /\ pc[w] \in {"insert", "outbox", "commit"} =>
       tx[w].seq = counters[req[w].room] + 1
  /\ pc[w] \in {"outbox", "commit"} =>
       /\ Found(w) = {}
       /\ tx[w].messages = {NewEvent(w)}
  /\ pc[w] = "commit" => tx[w].outbox = tx[w].messages

\* What the locks guarantee: a transaction is alone on its room from the upsert of
\* room_counters on and alone on its key from the insert into messages on, and
\* therefore nothing it read or wrote is out of date when it commits.
TransactionsInv ==
  /\ \A v, w \in Workers, r \in Rooms : HoldsRoom(v, r) /\ HoldsRoom(w, r) => v = w
  /\ \A v, w \in Workers, k \in Keys : HoldsKey(v, k) /\ HoldsKey(w, k) => v = w
  /\ \A w \in Workers : TxOK(w)

\* Every call of Accept returns: the row lock on a room and the wait for a
\* concurrent insert of the same key cannot block each other.
AcceptReturns == \A w \in Workers : []<>(pc[w] = "idle")

\* The key at place i of room r, in a set of rows.
KeyAt(rows, r, i) == CHOOSE k \in Keys : \E m \in rows :
                       m.room = r /\ m.seq = i /\ m.key = k

\* The history of each room as a log, and the places that were acknowledged.
RoomLogs ==
  [r \in Rooms |-> [i \in 1 .. counters[r] |-> KeyAt(messages, r, i)]]
AckedPlaces == {[key |-> a.key, room |-> a.room, seq |-> a.seq] : a \in acks}

Log == INSTANCE RoomLog WITH log <- RoomLogs, acked <- AckedPlaces

\* The interleaved transactions of Accept implement an atomic append to the
\* room's log, with acknowledgements that never contradict each other.
ImplementsRoomLog == Log!Spec

=============================================================================
