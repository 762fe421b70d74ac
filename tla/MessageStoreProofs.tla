------------------------- MODULE MessageStoreProofs -------------------------
(***************************************************************************)
(* Proofs about MessageStore for every set of workers, rooms and keys, and *)
(* about WsClient, which composes it with clients, for any number of       *)
(* clients, connections and failures.                                      *)
(*                                                                         *)
(* Tables: the row lock and the index entry an open transaction holds      *)
(* (TransactionsInv) keep the room_seq it allocated and the key it         *)
(* inserted valid until it commits.  The properties of the tables follow,  *)
(* since only a commit changes them.                                       *)
(*                                                                         *)
(* Refinement: the history of each room, read in room_seq order, is the    *)
(* log of RoomLog; a commit is an abstract Accept, the answer to a retry   *)
(* an abstract Acknowledge, and every other step a stutter.                *)
(*                                                                         *)
(* Clients: a step of the composition is a step of MessageStore or leaves  *)
(* it alone, so the invariants of the store hold there too.  What is added *)
(* follows a request from its client to the row and the row's place back.  *)
(***************************************************************************)
EXTENDS WsClient, Sequences, SequenceTheorems, TLAPS

\* A worker's step either leaves the tables alone and acknowledges at most a
\* committed message with its own key, or is the commit of its transaction.
LEMMA StepKinds ==
  ASSUME NEW w \in Workers, Start(w) \/ Step(w) \/ Fail(w)
  PROVE  \/ /\ UNCHANGED tables
            /\ \/ UNCHANGED acks
               \/ \E m \in Found(w) : acks' = acks \cup {m}
         \/ /\ pc[w] = "commit"
            /\ ApplyTx(w)
            /\ Leave(w)
            /\ \/ UNCHANGED acks
               \/ acks' = acks \cup {NewEvent(w)}
BY DEF Step, Start, FindAccepted, FindInTx, FindEvent, AllocateSeq, InsertMessage,
       FindConflicting, InsertOutbox, Commit, CommitUnknown, Fail, Return, tables

\* A worker's step changes only its own program counter, request and writes.
LEMMA OthersUntouched ==
  ASSUME TypeOK, NEW w \in Workers, Start(w) \/ Step(w) \/ Fail(w),
         NEW v \in Workers, v # w
  PROVE  pc'[v] = pc[v] /\ req'[v] = req[v] /\ tx'[v] = tx[v]
BY DEF TypeOK, Step, Start, FindAccepted, FindInTx, FindEvent, AllocateSeq,
       InsertMessage, FindConflicting, InsertOutbox, Commit, CommitUnknown, Fail,
       Return, Leave, Goto

-----------------------------------------------------------------------------
\* The row a worker inserts is a well-formed event.
LEMMA NewEventType ==
  ASSUME TypeOK, NEW w \in Workers, TxOK(w),
         pc[w] \in {"insert", "outbox", "commit"}
  PROVE  NewEvent(w) \in Events
BY DEF TypeOK, TxOK, NewEvent, Events, Requests

\* Ending a call of Accept keeps the types of the worker's own state.
LEMMA LeaveType ==
  ASSUME TypeOK, NEW w \in Workers, Leave(w)
  PROVE  /\ pc' \in [Workers -> Steps]
         /\ req' \in [Workers -> Requests \cup {NoRequest}]
         /\ tx' \in [Workers -> Txs]
<1>1. NoWrites \in Txs
  BY Zenon DEF NoWrites, Txs
<1> QED
  BY <1>1, Zenon DEF TypeOK, Leave, Goto, Steps

\* Types are kept by every step of a worker whose transaction is in order.
LEMMA TypeStep ==
  ASSUME TypeOK, NEW w \in Workers, TxOK(w), Start(w) \/ Step(w) \/ Fail(w)
  PROVE  TypeOK'
<1>1. CASE Start(w)
  BY <1>1, Zenon DEF TypeOK, Start, Goto, tables, Steps
<1>2. ASSUME NEW s, NEW n \in Steps, FindEvent(w, s, n)
      PROVE  TypeOK'
  <2>1. CASE \E m \in Found(w) : Return(w, m)
    <3>1. Leave(w) /\ acks' \subseteq Events
      BY <2>1, Zenon DEF Return, Found, TypeOK
    <3> QED
      BY <1>2, <3>1, LeaveType, Zenon DEF FindEvent, TypeOK, tables
  <2>2. CASE Goto(w, n) /\ UNCHANGED <<req, tx, acks>>
    BY <1>2, <2>2, Zenon DEF FindEvent, Goto, TypeOK, tables
  <2> QED
    BY <1>2, <2>1, <2>2, Zenon DEF FindEvent
<1>3. CASE FindAccepted(w) \/ FindInTx(w)
  BY <1>2, <1>3, Zenon DEF FindAccepted, FindInTx, Steps
<1>4. CASE AllocateSeq(w)
  <2>1. counters[req[w].room] + 1 \in Nat
    BY <1>4 DEF TypeOK, AllocateSeq, TxOK, Requests
  <2>2. tx' \in [Workers -> Txs]
    BY <1>4, <2>1 DEF TypeOK, AllocateSeq, Txs
  <2> QED
    BY <1>4, <2>2, Zenon DEF TypeOK, AllocateSeq, Goto, tables, Steps
<1>5. CASE InsertMessage(w)
  <2>1. NewEvent(w) \in Events
    BY <1>5, NewEventType, Zenon DEF InsertMessage
  <2>2. tx' \in [Workers -> Txs]
    BY <1>5, <2>1 DEF TypeOK, InsertMessage, Txs, NoWrites
  <2>3. pc' \in [Workers -> Steps]
    BY <1>5, Zenon DEF TypeOK, InsertMessage, Goto, Steps
  <2> QED
    BY <1>5, <2>2, <2>3, Zenon DEF TypeOK, InsertMessage, tables
<1>6. CASE FindConflicting(w)
  <2>1. Leave(w) /\ acks' \subseteq Events
    BY <1>6, Zenon DEF FindConflicting, Return, Found, TypeOK
  <2> QED
    BY <1>6, <2>1, LeaveType, Zenon DEF FindConflicting, TypeOK, tables
<1>7. CASE InsertOutbox(w)
  <2>1. NewEvent(w) \in Events
    BY <1>7, NewEventType, Zenon DEF InsertOutbox
  <2> QED
    BY <1>7, <2>1 DEF TypeOK, InsertOutbox, Goto, tables, Steps, Txs, NoWrites
<1>8. CASE Commit(w) \/ CommitUnknown(w)
  <2>1. pc[w] = "commit" /\ req[w] \in Requests
    BY <1>8, Zenon DEF Commit, CommitUnknown, TxOK
  <2>2. NewEvent(w) \in Events
    BY <2>1, <1>8, NewEventType, Zenon
  <2>3. Leave(w) /\ ApplyTx(w)
    BY <1>8, Zenon DEF Commit, CommitUnknown, Return
  <2>4. counters' \in [Rooms -> Nat] /\ messages' \subseteq Events /\ outbox' \subseteq Events
    BY <2>1, <2>3, Zenon DEF TypeOK, ApplyTx, Txs, Requests
  <2>5. acks' \subseteq Events
    BY <1>8, <2>2, Zenon DEF TypeOK, Commit, CommitUnknown, Return
  <2> QED
    BY <2>3, <2>4, <2>5, LeaveType, Zenon DEF TypeOK
<1>9. CASE Fail(w)
  BY <1>9, LeaveType, Zenon DEF TypeOK, Fail, tables
<1> QED
  BY <1>1, <1>3, <1>4, <1>5, <1>6, <1>7, <1>8, <1>9, Zenon DEF Step

\* The locks exclude: a step gives a room or a key to a worker only when no other
\* worker holds it.
LEMMA LockStep ==
  ASSUME TypeOK, TransactionsInv, NEW w \in Workers, Start(w) \/ Step(w) \/ Fail(w)
  PROVE  /\ \A u, v \in Workers, r \in Rooms :
              HoldsRoom(u, r)' /\ HoldsRoom(v, r)' => u = v
         /\ \A u, v \in Workers, k \in Keys :
              HoldsKey(u, k)' /\ HoldsKey(v, k)' => u = v
<1>1. \A v \in Workers \ {w} : pc'[v] = pc[v] /\ req'[v] = req[v]
  BY OthersUntouched, Zenon
<1>2. ASSUME NEW r \in Rooms, HoldsRoom(w, r)'
      PROVE  HoldsRoom(w, r) \/ \A v \in Workers : ~HoldsRoom(v, r)
  BY <1>2 DEF TypeOK, HoldsRoom, Step, Start, FindAccepted, FindInTx, FindEvent, AllocateSeq,
       InsertMessage, FindConflicting, InsertOutbox, Commit, CommitUnknown, Fail,
       Return, Leave, Goto
<1>3. ASSUME NEW k \in Keys, HoldsKey(w, k)'
      PROVE  HoldsKey(w, k) \/ \A v \in Workers : ~HoldsKey(v, k)
  BY <1>3 DEF TypeOK, HoldsKey, Step, Start, FindAccepted, FindInTx, FindEvent, AllocateSeq,
       InsertMessage, FindConflicting, InsertOutbox, Commit, CommitUnknown, Fail,
       Return, Leave, Goto
<1>4. \A v \in Workers \ {w}, r \in Rooms : HoldsRoom(v, r)' => HoldsRoom(v, r)
  BY <1>1, Zenon DEF HoldsRoom
<1>5. \A v \in Workers \ {w}, k \in Keys : HoldsKey(v, k)' => HoldsKey(v, k)
  BY <1>1, Zenon DEF HoldsKey
<1> QED
  BY <1>2, <1>3, <1>4, <1>5 DEF TransactionsInv

\* The worker that takes the step leaves its own transaction in order.
LEMMA OwnTxStep ==
  ASSUME TypeOK, NEW w \in Workers, TxOK(w), Start(w) \/ Step(w) \/ Fail(w)
  PROVE  TxOK(w)'
<1> USE DEF TypeOK, TxOK, Goto, tables
<1>1. CASE Start(w)
  BY <1>1, Zenon DEF Start
<1>2. CASE FindAccepted(w)
  BY <1>2, Zenon DEF FindAccepted, FindEvent, Return, Leave
<1>3. CASE FindInTx(w)
  BY <1>3, Zenon DEF FindInTx, FindEvent, Return, Leave
<1>4. CASE AllocateSeq(w)
  BY <1>4, Zenon DEF AllocateSeq, Txs
<1>5. CASE InsertMessage(w)
  BY <1>5 DEF InsertMessage, Txs, NewEvent, Found
<1>6. CASE FindConflicting(w)
  BY <1>6, Zenon DEF FindConflicting, Return, Leave
<1>7. CASE InsertOutbox(w)
  BY <1>7 DEF InsertOutbox, Txs, NewEvent, Found
<1>8. CASE Commit(w) \/ CommitUnknown(w) \/ Fail(w)
  BY <1>8, Zenon DEF Commit, CommitUnknown, Fail, Return, Leave
<1> QED
  BY <1>1, <1>2, <1>3, <1>4, <1>5, <1>6, <1>7, <1>8, Zenon DEF Step

\* A step of worker w does not disturb the transaction of another worker: a commit
\* of w is in another room and of another key.
LEMMA OtherTxStep ==
  ASSUME TypeOK, TransactionsInv, NEW w \in Workers, Start(w) \/ Step(w) \/ Fail(w),
         NEW v \in Workers, v # w
  PROVE  TxOK(v)'
<1>0. TxOK(v) /\ TxOK(w)
  BY Zenon DEF TransactionsInv
<1>1. pc'[v] = pc[v] /\ req'[v] = req[v] /\ tx'[v] = tx[v]
  BY OthersUntouched, Zenon
<1>2. CASE UNCHANGED tables
  BY <1>0, <1>1, <1>2 DEF TxOK, Found, NewEvent, tables
<1>3. CASE pc[w] = "commit" /\ ApplyTx(w)
  <2>1. req[w] \in Requests /\ tx[w].messages = {NewEvent(w)}
    BY <1>0, <1>3, Zenon DEF TxOK
  <2>2. pc[v] \in {"insert", "outbox", "commit"} => counters'[req[v].room] = counters[req[v].room]
    BY <1>0, <1>3, <2>1, Zenon DEF TransactionsInv, TxOK, HoldsRoom, ApplyTx, TypeOK, Requests
  <2>3. pc[v] \in {"outbox", "commit"} => Found(v)' = Found(v)
    BY <1>0, <1>1, <1>3, <2>1 DEF TransactionsInv, TxOK, HoldsKey, ApplyTx, Found, NewEvent, Requests
  <2> QED
    BY <1>0, <1>1, <2>2, <2>3, Zenon DEF TxOK, NewEvent
<1> QED
  BY <1>2, <1>3, StepKinds, Zenon

\* The inductive invariant behind all the others.
LEMMA TransactionsStep ==
  TypeOK /\ TransactionsInv /\ [Next]_vars => TypeOK' /\ TransactionsInv'
<1> SUFFICES ASSUME TypeOK, TransactionsInv, [Next]_vars
             PROVE  TypeOK' /\ TransactionsInv'
  BY Zenon
<1>1. ASSUME NEW w \in Workers, Start(w) \/ Step(w) \/ Fail(w)
      PROVE  TypeOK' /\ TransactionsInv'
  <2>1. TxOK(w)
    BY Zenon DEF TransactionsInv
  <2>2. TypeOK'
    BY <1>1, <2>1, TypeStep, Zenon
  <2>3. \A v \in Workers : TxOK(v)'
    BY <1>1, <2>1, OwnTxStep, OtherTxStep, Zenon
  <2> QED
    BY <1>1, <2>2, <2>3, LockStep, Zenon DEF TransactionsInv
<1>2. CASE UNCHANGED vars
  BY <1>2 DEF vars, TypeOK, TransactionsInv, HoldsRoom, HoldsKey, TxOK, Found, NewEvent
<1> QED
  BY <1>1, <1>2, Zenon DEF Next

\* Initially nothing is in progress and the tables are empty.
LEMMA InitTransactions == Init => TypeOK /\ TransactionsInv
BY DEF Init, TypeOK, TransactionsInv, HoldsRoom, HoldsKey, TxOK, Txs, NoWrites, Steps

\* The tables, the open transactions and the acks keep their types.
THEOREM TypeCorrect == Spec => []TypeOK
BY InitTransactions, TransactionsStep, PTL DEF Spec

\* A transaction is alone on its room and on its key, and what it read and wrote
\* stays valid until it ends.
THEOREM TransactionsCorrect == Spec => []TransactionsInv
BY InitTransactions, TransactionsStep, PTL DEF Spec

-----------------------------------------------------------------------------
\* What a commit does to the tables, from the invariant on its transaction.
LEMMA CommitEffect ==
  ASSUME TypeOK, TransactionsInv, NEW w \in Workers, pc[w] = "commit", ApplyTx(w)
  PROVE  LET e == NewEvent(w)
         IN  /\ e \in Events
             /\ e.key = req[w].key /\ e.room = req[w].room
             /\ req[w] \in Requests
             /\ e.seq = counters[e.room] + 1
             /\ \A m \in messages : m.key # e.key
             /\ messages' = messages \cup {e}
             /\ outbox' = outbox \cup {e}
             /\ counters' = [counters EXCEPT ![e.room] = e.seq]
<1>1. TxOK(w)
  BY Zenon DEF TransactionsInv
<1>2. NewEvent(w) \in Events
  BY <1>1, NewEventType, Zenon
<1> QED
  BY <1>1, <1>2, Zenon DEF TxOK, NewEvent, ApplyTx, Found

\* The properties of the tables that only a commit could break.
TablesInv == Gapless /\ AcceptedOnce /\ OutboxMatchesHistory /\ AckedIsCommitted

\* A commit extends its room by the next number, with a new key, in both tables.
LEMMA TablesStep ==
  ASSUME TypeOK, TransactionsInv, TablesInv, [Next]_vars
  PROVE  TablesInv'
<1> USE DEF TablesInv
<1>1. ASSUME NEW w \in Workers, UNCHANGED tables,
             UNCHANGED acks \/ \E m \in Found(w) : acks' = acks \cup {m}
      PROVE  TablesInv'
  <2>1. Gapless' /\ AcceptedOnce' /\ OutboxMatchesHistory'
    BY <1>1, Zenon DEF Gapless, AcceptedOnce, OutboxMatchesHistory, tables
  <2>2. AckedIsCommitted'
    BY <1>1, Zenon DEF AckedIsCommitted, Found, tables
  <2> QED
    BY <2>1, <2>2, Zenon
<1>2. ASSUME NEW w \in Workers, pc[w] = "commit", ApplyTx(w),
             UNCHANGED acks \/ acks' = acks \cup {NewEvent(w)}
      PROVE  TablesInv'
  <2> DEFINE e == NewEvent(w)
  <2>1. /\ e \in Events /\ e.room \in Rooms
        /\ e.seq = counters[e.room] + 1
        /\ \A m \in messages : m.key # e.key
        /\ messages' = messages \cup {e}
        /\ outbox' = outbox \cup {e}
        /\ counters' = [counters EXCEPT ![e.room] = e.seq]
    BY <1>2, CommitEffect, Zenon DEF Requests
  <2>2. UNCHANGED acks \/ acks' = acks \cup {e}
    BY <1>2, Zenon
  <2> HIDE DEF e
  <2>3. Gapless'
    <3> SUFFICES ASSUME NEW r \in Rooms
                 PROVE  {m.seq : m \in {n \in messages' : n.room = r}} = 1 .. counters'[r]
      BY Zenon DEF Gapless
    <3>1. {m.seq : m \in {n \in messages : n.room = r}} = 1 .. counters[r]
      BY Zenon DEF Gapless
    <3>2. CASE r # e.room
      BY <2>1, <3>1, <3>2, Zenon DEF TypeOK
    <3>3. CASE r = e.room
      <4>1. {m.seq : m \in {n \in messages' : n.room = r}}
              = {m.seq : m \in {n \in messages : n.room = r}} \cup {e.seq}
        BY <2>1, <3>3, Zenon
      <4>2. counters[r] \in Nat /\ counters'[r] = counters[r] + 1 /\ e.seq = counters[r] + 1
        BY <2>1, <3>3, Zenon DEF TypeOK
      <4>3. (1 .. counters[r]) \cup {counters[r] + 1} = 1 .. (counters[r] + 1)
        BY <4>2
      <4> QED
        BY <3>1, <4>1, <4>2, <4>3, Zenon
    <3> QED
      BY <3>2, <3>3, Zenon
  <2>4. AcceptedOnce'
    <3>1. ASSUME NEW m \in messages, m.room = e.room
          PROVE  m.seq # e.seq
      <4>1. m.seq \in {n.seq : n \in {o \in messages : o.room = e.room}}
        BY <3>1, Zenon
      <4>2. m.seq \in 1 .. counters[e.room]
        BY <4>1, <2>1, Zenon DEF Gapless
      <4> QED
        BY <4>2, <2>1 DEF TypeOK
    <3> QED
      BY <2>1, <3>1 DEF AcceptedOnce
  <2>5. OutboxMatchesHistory'
    BY <2>1, Zenon DEF OutboxMatchesHistory
  <2>6. AckedIsCommitted'
    BY <2>1, <2>2, Zenon DEF AckedIsCommitted
  <2> QED
    BY <2>3, <2>4, <2>5, <2>6, Zenon
<1>3. CASE UNCHANGED vars
  BY <1>3, Zenon DEF vars, Gapless, AcceptedOnce, OutboxMatchesHistory, AckedIsCommitted
<1> QED
  BY <1>1, <1>2, <1>3, StepKinds, Zenon DEF Next

\* Empty tables satisfy the properties of the tables.
LEMMA InitTables == Init => TablesInv
BY DEF Init, TablesInv, Gapless, AcceptedOnce, OutboxMatchesHistory, AckedIsCommitted

\* In every room the committed messages are numbered 1 .. last_seq, without gaps.
THEOREM RoomsGapless == Spec => []Gapless
BY InitTransactions, TransactionsStep, InitTables, TablesStep, PTL DEF Spec, TablesInv

\* No retry and no concurrent attempt makes a second message of one
\* (client_id, client_message_id) pair, or a second message at one place.
THEOREM Idempotent == Spec => []AcceptedOnce
BY InitTransactions, TransactionsStep, InitTables, TablesStep, PTL DEF Spec, TablesInv

\* The history and the outbox always hold the same messages.
THEOREM OutboxComplete == Spec => []OutboxMatchesHistory
BY InitTransactions, TransactionsStep, InitTables, TablesStep, PTL DEF Spec, TablesInv

\* Every event Accept returned is a committed message, payload included.
THEOREM AcksDurable == Spec => []AckedIsCommitted
BY InitTransactions, TransactionsStep, InitTables, TablesStep, PTL DEF Spec, TablesInv

\* A message that made an insert fail stays in the history.
LEMMA ConflictStep ==
  ASSUME TypeOK, TransactionsInv, ConflictFindsMessage, [Next]_vars
  PROVE  ConflictFindsMessage'
<1>1. ASSUME NEW w \in Workers, Start(w) \/ Step(w) \/ Fail(w)
      PROVE  ConflictFindsMessage'
  <2>1. messages \subseteq messages'
    BY <1>1, StepKinds, Zenon DEF tables, ApplyTx
  <2>2. ASSUME NEW v \in Workers, v # w, pc'[v] = "conflict"
        PROVE  Found(v)' # {}
    BY <1>1, <2>1, <2>2, OthersUntouched DEF ConflictFindsMessage, Found
  <2>3. ASSUME pc'[w] = "conflict"
        PROVE  InsertMessage(w)
    BY <1>1, <2>3 DEF TypeOK, Step, Start, FindAccepted, FindInTx, FindEvent, AllocateSeq,
         FindConflicting, InsertOutbox, Commit, CommitUnknown, Fail, Return, Leave, Goto
  <2>4. ASSUME pc'[w] = "conflict"
        PROVE  Found(w)' # {}
    BY <2>3, <2>4 DEF InsertMessage, Goto, TypeOK, Found, tables
  <2> QED
    BY <2>2, <2>4, Zenon DEF ConflictFindsMessage
<1>2. CASE UNCHANGED vars
  BY <1>2, Zenon DEF vars, ConflictFindsMessage, Found
<1> QED
  BY <1>1, <1>2, Zenon DEF Next

\* Accept never reports an error for a message a concurrent attempt accepted: the
\* lookup after the conflict always finds it.
THEOREM ConflictsResolve == Spec => []ConflictFindsMessage
<1>1. Init => ConflictFindsMessage
  BY Zenon DEF Init, ConflictFindsMessage
<1> QED
  BY <1>1, InitTransactions, TransactionsStep, ConflictStep, PTL DEF Spec

\* Messages are committed in room_seq order and never change.
THEOREM CommitOrder == Spec => CommitsInOrder
<1> DEFINE Ordered ==
      /\ messages \subseteq messages'
      /\ \A m \in messages' \ messages :
           m.seq = counters[m.room] + 1 /\ counters'[m.room] = m.seq
<1>1. ASSUME TypeOK, TransactionsInv, [Next]_vars
      PROVE  [Ordered]_vars
  <2>1. ASSUME NEW w \in Workers, pc[w] = "commit", ApplyTx(w)
        PROVE  Ordered
    <3> DEFINE e == NewEvent(w)
    <3>1. /\ e.room \in Rooms
          /\ e.seq = counters[e.room] + 1
          /\ messages' = messages \cup {e}
          /\ counters' = [counters EXCEPT ![e.room] = e.seq]
      BY <1>1, <2>1, CommitEffect, Zenon DEF Requests
    <3> HIDE DEF e
    <3> QED
      BY <1>1, <3>1, Zenon DEF TypeOK
  <2>2. ASSUME UNCHANGED tables
        PROVE  Ordered
    BY <2>2, Zenon DEF tables
  <2> QED
    BY <1>1, <2>1, <2>2, StepKinds, Zenon DEF Next
<1> QED
  BY <1>1, InitTransactions, TransactionsStep, PTL DEF Spec, CommitsInOrder

-----------------------------------------------------------------------------
\* Where places are given once, the log entry at a message's place is its key.
LEMMA KeyAtPlace ==
  ASSUME NEW M \in SUBSET Events,
         \A m, n \in M : m.room = n.room /\ m.seq = n.seq => m = n,
         NEW e \in M
  PROVE  KeyAt(M, e.room, e.seq) = e.key
<1>1. \E k \in Keys : \E m \in M : m.room = e.room /\ m.seq = e.seq /\ m.key = k
  BY Zenon DEF Events
<1>2. \A k \in Keys : (\E m \in M : m.room = e.room /\ m.seq = e.seq /\ m.key = k) => k = e.key
  BY Zenon
<1> QED
  BY <1>1, <1>2, Zenon DEF KeyAt

\* Every place up to last_seq holds a message.
LEMMA PlaceFilled ==
  ASSUME Gapless, NEW r \in Rooms, NEW i \in 1 .. counters[r]
  PROVE  \E m \in messages : m.room = r /\ m.seq = i
BY Zenon DEF Gapless

\* The log of a room is a sequence of keys, as long as its counter says.
LEMMA RoomLogsType ==
  ASSUME TypeOK, Gapless, AcceptedOnce, NEW r \in Rooms
  PROVE  RoomLogs[r] \in Seq(Keys) /\ Len(RoomLogs[r]) = counters[r]
<1>1. ASSUME NEW i \in 1 .. counters[r]
      PROVE  KeyAt(messages, r, i) \in Keys
  BY PlaceFilled, KeyAtPlace DEF AcceptedOnce, TypeOK, Events
<1> QED
  BY <1>1 DEF RoomLogs, TypeOK

\* Acknowledging a committed message is an Acknowledge step of the abstract log.
LEMMA AcknowledgeStep ==
  ASSUME TypeOK, Gapless, AcceptedOnce, UNCHANGED tables,
         NEW m \in messages, acks' = acks \cup {m}
  PROVE  Log!Next
<1>1. m.room \in Rooms /\ m.seq \in 1 .. counters[m.room]
  BY DEF TypeOK, Events, Gapless
<1>2. RoomLogs[m.room][m.seq] = m.key
  BY <1>1, KeyAtPlace, Zenon DEF RoomLogs, AcceptedOnce, TypeOK
<1>3. RoomLogs' = RoomLogs
  BY Zenon DEF RoomLogs, tables
<1>4. AckedPlaces' = AckedPlaces \cup {[key |-> m.key, room |-> m.room, seq |-> m.seq]}
  BY Zenon DEF AckedPlaces
<1>5. m.seq \in 1 .. Len(RoomLogs[m.room])
  BY <1>1, RoomLogsType, Zenon
<1>6. Log!Acknowledge(m.room, m.seq)
  BY <1>2, <1>3, <1>4, <1>5, Zenon DEF Log!Acknowledge, Log!Place
<1> QED
  BY <1>1, <1>5, <1>6, Zenon DEF Log!Next

\* A commit is an Accept step of the abstract log.
LEMMA CommitStep ==
  ASSUME TypeOK, TransactionsInv, TablesInv, AcceptedOnce', Gapless', TypeOK',
         NEW w \in Workers, pc[w] = "commit", ApplyTx(w),
         UNCHANGED acks \/ acks' = acks \cup {NewEvent(w)}
  PROVE  Log!Next
<1> DEFINE e == NewEvent(w)
<1>1. /\ e \in Events /\ e.room \in Rooms /\ e.key \in Keys
      /\ e.seq = counters[e.room] + 1
      /\ \A m \in messages : m.key # e.key
      /\ messages' = messages \cup {e}
      /\ counters' = [counters EXCEPT ![e.room] = e.seq]
  BY CommitEffect, Zenon DEF Requests
<1>2. UNCHANGED acks \/ acks' = acks \cup {e}
  BY Zenon
<1> HIDE DEF e
<1>3. \A r \in Rooms : RoomLogs[r] \in Seq(Keys) /\ Len(RoomLogs[r]) = counters[r]
  BY RoomLogsType, Zenon DEF TablesInv
<1>4. ASSUME NEW m \in messages
      PROVE  KeyAt(messages, m.room, m.seq) = m.key /\ KeyAt(messages', m.room, m.seq) = m.key
  BY <1>1, KeyAtPlace, Zenon DEF TablesInv, AcceptedOnce, TypeOK
<1>5. KeyAt(messages', e.room, e.seq) = e.key
  BY <1>1, KeyAtPlace, Zenon DEF AcceptedOnce, TypeOK
<1>6. ASSUME NEW r \in Rooms, NEW i \in 1 .. counters[r]
      PROVE  KeyAt(messages', r, i) = KeyAt(messages, r, i) /\ KeyAt(messages, r, i) # e.key
  <2>1. PICK m \in messages : m.room = r /\ m.seq = i
    BY <1>6, PlaceFilled DEF TablesInv
  <2> QED
    BY <1>1, <1>4, <2>1, Zenon
<1>7. ~Log!Accepted(e.key)
  BY <1>3, <1>6, Zenon DEF Log!Accepted, RoomLogs
<1>8. RoomLogs' = [RoomLogs EXCEPT ![e.room] = Append(@, e.key)]
  <2>1. ASSUME NEW r \in Rooms, r # e.room
        PROVE  RoomLogs'[r] = RoomLogs[r]
    BY <1>1, <1>6, <2>1, Zenon DEF RoomLogs, TypeOK
  <2>2. RoomLogs'[e.room] = Append(RoomLogs[e.room], e.key)
    <3> DEFINE n == counters[e.room]
               new == RoomLogs'[e.room]
               app == Append(RoomLogs[e.room], e.key)
    <3>1. n \in Nat /\ counters'[e.room] = n + 1
      BY <1>1, Zenon DEF TypeOK
    <3>2. new = [i \in 1 .. n + 1 |-> KeyAt(messages', e.room, i)]
      BY <1>1, <3>1, Zenon DEF RoomLogs
    <3>3. app \in Seq(Keys) /\ Len(app) = n + 1 /\ app[n + 1] = e.key
          /\ \A i \in 1 .. n : app[i] = RoomLogs[e.room][i]
      BY <1>1, <1>3, AppendProperties
    <3>4. \A i \in 1 .. n : new[i] = app[i]
      <4> SUFFICES ASSUME NEW i \in 1 .. n
                   PROVE  new[i] = app[i]
        BY Zenon
      <4>1. new[i] = KeyAt(messages', e.room, i)
        BY <3>1, <3>2
      <4>2. app[i] = KeyAt(messages, e.room, i)
        BY <1>1, <3>3, Zenon DEF RoomLogs
      <4> QED
        BY <1>1, <1>6, <4>1, <4>2, Zenon
    <3> HIDE DEF new, app
    <3>5. new[n + 1] = app[n + 1]
      BY <1>1, <1>5, <3>1, <3>2, <3>3
    <3> HIDE DEF n
    <3>6. app = [i \in 1 .. n + 1 |-> app[i]]
      BY <3>1, <3>3
    <3>7. \A i \in 1 .. n + 1 : new[i] = app[i]
      BY <3>1, <3>4, <3>5
    <3> QED
      BY <3>2, <3>6, <3>7, Zenon DEF new, app
  <2>3. RoomLogs = [r \in Rooms |-> RoomLogs[r]] /\ RoomLogs' = [r \in Rooms |-> RoomLogs'[r]]
    BY Zenon DEF RoomLogs
  <2> HIDE DEF RoomLogs
  <2> QED
    BY <1>1, <2>1, <2>2, <2>3, Zenon
<1>9. UNCHANGED AckedPlaces \/ AckedPlaces' = AckedPlaces \cup {Log!Place(e.key, e.room, e.seq)}
  BY <1>2, Zenon DEF AckedPlaces, Log!Place
<1>10. Log!Accept(e.key, e.room)
  BY <1>1, <1>3, <1>7, <1>8, <1>9, Zenon DEF Log!Accept
<1> QED
  BY <1>1, <1>10, Zenon DEF Log!Next

\* Store.Accept, with all its interleavings, failures and lost answers, implements
\* the atomic append-once log of RoomLog.
THEOREM Refinement == Spec => ImplementsRoomLog
<1>1. Init => Log!Init
  BY DEF Init, Log!Init, RoomLogs, AckedPlaces
<1>2. ASSUME TypeOK, TransactionsInv, TablesInv, [Next]_vars,
             TypeOK', TablesInv'
      PROVE  [Log!Next]_<<RoomLogs, AckedPlaces>>
  <2>1. ASSUME NEW w \in Workers, Start(w) \/ Step(w) \/ Fail(w)
        PROVE  [Log!Next]_<<RoomLogs, AckedPlaces>>
    <3>1. CASE UNCHANGED tables /\ UNCHANGED acks
      BY <3>1, Zenon DEF tables, RoomLogs, AckedPlaces
    <3>2. ASSUME UNCHANGED tables, NEW m \in Found(w), acks' = acks \cup {m}
          PROVE  Log!Next
      BY <1>2, <3>2, AcknowledgeStep, Zenon DEF Found, TablesInv
    <3>3. ASSUME pc[w] = "commit", ApplyTx(w),
                 UNCHANGED acks \/ acks' = acks \cup {NewEvent(w)}
          PROVE  Log!Next
      BY <1>2, <3>3, CommitStep, Zenon DEF TablesInv
    <3> QED
      BY <2>1, <3>1, <3>2, <3>3, StepKinds, Zenon
  <2>2. CASE UNCHANGED vars
    BY <2>2, Zenon DEF vars, RoomLogs, AckedPlaces
  <2> QED
    BY <1>2, <2>1, <2>2, Zenon DEF Next
<1> QED
  BY <1>1, <1>2, InitTransactions, TransactionsStep, InitTables, TablesStep, PTL
     DEF Spec, ImplementsRoomLog, Log!Spec

-----------------------------------------------------------------------------
Answers == [ok : BOOLEAN, seq : Nat]

ClientTypes ==
  /\ conn \in [Clients -> Workers \cup {NoConn}]
  /\ told \in [Clients -> SUBSET Answers]
  /\ wire \in [Workers -> {"unused", "sent", "joined", "stuck", "read", "quiet"}]
  /\ frame \in [Workers -> SUBSET Answers]
  /\ owner \in [Workers -> SUBSET Clients]

\* A client is alone on its connection.
ConnInv ==
  \A c \in Clients : conn[c] # NoConn => owner[conn[c]] = {c} /\ wire[conn[c]] # "unused"

\* A connection that was not opened has neither a call of Accept nor an answer.
UnusedInv ==
  \A w \in Workers : wire[w] = "unused" => pc[w] = "idle" /\ frame[w] = {}

\* Accept serves the request of the client that opened the connection.
RequestInv ==
  \A w \in Workers : pc[w] # "idle" =>
    req[w].key \in owner[w] /\ req[w].room = RoomOf[req[w].key]

\* Every message is the message of a client, in the client's room, and came on a
\* connection.
RoomInv ==
  \A m \in messages : m.key \in Clients /\ m.room = RoomOf[m.key] /\ Workers # {}

\* An answer that accepts names the place of the message of the connection's client.
FrameInv ==
  \A w \in Workers : \A f \in frame[w] :
    f.ok => \E m \in messages : m.key \in owner[w] /\ m.seq = f.seq

ToldInv ==
  \A c \in Clients : \A f \in told[c] :
    f.ok => \E m \in messages : m.key = c /\ m.seq = f.seq

StoreInv == TypeOK /\ TransactionsInv /\ TablesInv
ClientInv == StoreInv /\ ClientTypes /\ ConnInv /\ UnusedInv /\ RequestInv /\ RoomInv /\ FrameInv /\ ToldInv

-----------------------------------------------------------------------------
\* A read loop takes a step of MessageStore.
LEMMA ServerStoreStep ==
  ASSUME NEW w \in Workers, Receive(w) \/ AcceptStep(w) \/ AcceptError(w) \/ ServerCrash(w)
  PROVE  Start(w) \/ Step(w) \/ Fail(w)
BY Zenon DEF Receive, AcceptStep, AcceptError, ServerCrash, Step

\* A client leaves the store alone.
LEMMA ClientStoreStep ==
  ASSUME NEW c \in Clients, ClientStep(c) \/ Break(c)
  PROVE  UNCHANGED vars
BY Zenon DEF ClientStep, Dial, ReadFrame, Break, vars

\* Every step of the composition is a step of the store or leaves it alone.
LEMMA StoreStep == [ClientNext]_allVars => [Next]_vars
<1>1. ASSUME NEW w \in Workers, Register(w) \/ RegisterWaits(w)
      PROVE  UNCHANGED vars
  BY <1>1, Zenon DEF Register, RegisterWaits
<1> QED
  BY <1>1, ServerStoreStep, ClientStoreStep, Zenon DEF ClientNext, ServerStep, Next, allVars

\* The invariant holds at the start.
LEMMA ClientInitInv == ClientInit => ClientInv
<1> SUFFICES ASSUME ClientInit PROVE ClientInv
  BY Zenon
<1>1. StoreInv
  BY InitTransactions, InitTables, Zenon DEF ClientInit, StoreInv
<1>2. ClientTypes /\ ConnInv /\ UnusedInv /\ RequestInv /\ RoomInv /\ FrameInv /\ ToldInv
  BY Zenon DEF ClientInit, Init, ClientTypes, ConnInv, UnusedInv, RequestInv, RoomInv, FrameInv, ToldInv
<1> QED
  BY <1>1, <1>2, Zenon DEF ClientInv

\* The invariants of the store are kept, and no message is lost.
LEMMA StoreInvStep ==
  ASSUME StoreInv, [ClientNext]_allVars
  PROVE  StoreInv' /\ messages \subseteq messages'
<1>1. [Next]_vars
  BY StoreStep, Zenon
<1>2. StoreInv'
  BY <1>1, TransactionsStep, TablesStep, Zenon DEF StoreInv
<1>3. messages \subseteq messages'
  BY <1>1, StepKinds, Zenon DEF Next, vars, tables, ApplyTx
<1> QED
  BY <1>2, <1>3, Zenon

-----------------------------------------------------------------------------
\* The client dials, reads or loses its connection.
LEMMA ClientInvStep ==
  ASSUME ClientInv, NEW c \in Clients, ClientStep(c) \/ Break(c)
  PROVE  ClientTypes' /\ ConnInv' /\ UnusedInv' /\ RequestInv' /\ RoomInv' /\ FrameInv' /\ ToldInv'
<1> USE DEF ClientInv
<1>1. pc' = pc /\ req' = req /\ messages' = messages
  BY ClientStoreStep, Zenon DEF vars
<1>2. RoomInv'
  BY <1>1, Zenon DEF RoomInv
<1>3. CASE Dial(c)
  <2>1. PICK w \in NewConn :
          /\ conn[c] = NoConn
          /\ conn' = [conn EXCEPT ![c] = w]
          /\ owner' = [owner EXCEPT ![w] = {c}]
          /\ wire' = [wire EXCEPT ![w] = IF requestPending[c] THEN "sent" ELSE "quiet"]
          /\ UNCHANGED <<told, frame>>
    BY <1>3, Zenon DEF Dial
  <2>2. w \in Workers /\ wire[w] = "unused"
    BY Zenon DEF NewConn
  <2>3. pc[w] = "idle" /\ frame[w] = {}
    BY <2>2, Zenon DEF UnusedInv
  <2>4. \A d \in Clients : conn[d] # w
    BY <2>2, WsClientAssumption, Zenon DEF ConnInv
  <2>5. ClientTypes'
    BY <2>1, <2>2, Zenon DEF ClientTypes
  <2>6. ConnInv'
    BY <2>1, <2>2, <2>4, Zenon DEF ClientTypes, ConnInv
  <2>7. UnusedInv'
    BY <1>1, <2>1, <2>2, Zenon DEF ClientTypes, UnusedInv
  <2>8. RequestInv'
    BY <1>1, <2>1, <2>2, <2>3, Zenon DEF ClientTypes, RequestInv
  <2>9. FrameInv'
    BY <1>1, <2>1, <2>2, <2>3 DEF ClientTypes, FrameInv
  <2>10. ToldInv'
    BY <1>1, <2>1 DEF ToldInv
  <2> QED
    BY <1>2, <2>5, <2>6, <2>7, <2>8, <2>9, <2>10, Zenon
<1>4. CASE ReadFrame(c)
  <2>1. PICK f \in frame[conn[c]] :
          /\ conn[c] # NoConn
          /\ told' = [told EXCEPT ![c] = @ \cup {f}]
          /\ frame' = [frame EXCEPT ![conn[c]] = {}]
          /\ UNCHANGED <<conn, owner, wire>>
    BY <1>4, Zenon DEF ReadFrame
  <2>2. conn[c] \in Workers /\ f \in Answers /\ owner[conn[c]] = {c}
    BY <2>1, Zenon DEF ClientTypes, ConnInv
  <2>3. ClientTypes'
    BY <2>1, <2>2, Zenon DEF ClientTypes
  <2>4. ConnInv'
    BY <2>1, Zenon DEF ConnInv
  <2>5. UnusedInv' /\ RequestInv'
    BY <1>1, <2>1, <2>2, Zenon DEF ClientTypes, UnusedInv, RequestInv
  <2>6. FrameInv'
    BY <1>1, <2>1, <2>2 DEF ClientTypes, FrameInv
  <2>7. f.ok => \E m \in messages : m.key = c /\ m.seq = f.seq
    BY <2>1, <2>2, Zenon DEF FrameInv
  <2>8. ToldInv'
    BY <1>1, <2>1, <2>7 DEF ClientTypes, ToldInv
  <2> QED
    BY <1>2, <2>3, <2>4, <2>5, <2>6, <2>8, Zenon
<1>5. CASE Break(c)
  <2>1. /\ conn[c] \in Workers
        /\ conn' = [conn EXCEPT ![c] = NoConn]
        /\ frame' = [frame EXCEPT ![conn[c]] = {}]
        /\ \/ wire' = wire
           \/ wire' = [wire EXCEPT ![conn[c]] = "quiet"]
        /\ UNCHANGED <<told, owner>>
    BY <1>5, Zenon DEF Break, ClientTypes
  <2>2. ClientTypes' /\ ConnInv'
    BY <2>1, Zenon DEF ClientTypes, ConnInv
  <2>3. UnusedInv' /\ RequestInv'
    BY <1>1, <2>1 DEF ClientTypes, UnusedInv, RequestInv
  <2>4. FrameInv' /\ ToldInv'
    BY <1>1, <2>1 DEF ClientTypes, FrameInv, ToldInv
  <2> QED
    BY <1>2, <2>2, <2>3, <2>4, Zenon
<1> QED
  BY <1>3, <1>4, <1>5, Zenon DEF ClientStep

-----------------------------------------------------------------------------
\* A worker that did not start a call keeps its request or drops it, and what it
\* commits is the message of its request.
LEMMA RequestKept ==
  ASSUME StoreInv, NEW w \in Workers, Step(w) \/ Fail(w)
  PROVE  /\ pc[w] # "idle"
         /\ pc'[w] # "idle" => req'[w] = req[w]
         /\ \A m \in messages' \ messages : m.key = req[w].key /\ m.room = req[w].room
<1>1. pc[w] # "idle"
  BY DEF Step, FindAccepted, FindInTx, FindEvent, AllocateSeq, InsertMessage, FindConflicting,
         InsertOutbox, Commit, CommitUnknown, Fail
<1>2. pc'[w] # "idle" => req'[w] = req[w]
  BY DEF StoreInv, TypeOK, Step, FindAccepted, FindInTx, FindEvent, AllocateSeq, InsertMessage,
         FindConflicting, InsertOutbox, Commit, CommitUnknown, Fail, Return, Leave, Goto
<1>3. CASE UNCHANGED tables
  BY <1>1, <1>2, <1>3, Zenon DEF tables
<1>4. CASE pc[w] = "commit" /\ ApplyTx(w)
  BY <1>1, <1>2, <1>4, CommitEffect DEF StoreInv
<1> QED
  BY <1>3, <1>4, StepKinds, Zenon

\* The answer to a call that went well names a message with the key of the request.
LEMMA AnswerStep ==
  ASSUME StoreInv, StoreInv', NEW w \in Workers, AcceptStep(w), pc'[w] = "idle"
  PROVE  \A m \in Returned(w) : m \in messages' /\ m.key = req[w].key
<1>1. Step(w)
  BY Zenon DEF AcceptStep, Step
<1>2. CASE pc[w] = "commit"
  <2>1. ApplyTx(w)
    BY <1>2 DEF AcceptStep, FindAccepted, FindInTx, FindEvent, AllocateSeq, InsertMessage,
                FindConflicting, InsertOutbox, Commit
  <2> QED
    BY <1>2, <2>1, CommitEffect, Zenon DEF StoreInv, Returned
<1>3. CASE pc[w] # "commit"
  BY <1>1, <1>3, StepKinds, Zenon DEF Returned, Found, tables, ApplyTx
<1> QED
  BY <1>2, <1>3, Zenon

\* The handler of a connection gets into the hub, or waits for it for ever.
LEMMA RegisterInvStep ==
  ASSUME ClientInv, NEW w \in Workers, Register(w) \/ RegisterWaits(w)
  PROVE  ClientTypes' /\ ConnInv' /\ UnusedInv' /\ RequestInv' /\ RoomInv' /\ FrameInv' /\ ToldInv'
<1>1. PICK s \in {"joined", "stuck"} : wire[w] = "sent" /\ wire' = [wire EXCEPT ![w] = s]
  BY Zenon DEF Register, RegisterWaits
<1>2. UNCHANGED <<pc, req, messages, conn, told, owner, frame>>
  BY Zenon DEF Register, RegisterWaits, vars, tables, clientVars
<1>3. ClientTypes'
  BY <1>1, <1>2, Zenon DEF ClientInv, ClientTypes
<1>4. ConnInv' /\ UnusedInv'
  BY <1>1, <1>2 DEF ClientInv, ClientTypes, ConnInv, UnusedInv
<1>5. RequestInv' /\ RoomInv'
  BY <1>2, Zenon DEF ClientInv, RequestInv, RoomInv
<1>6. FrameInv' /\ ToldInv'
  BY <1>2 DEF ClientInv, FrameInv, ToldInv
<1> QED
  BY <1>3, <1>4, <1>5, <1>6, Zenon

\* The read loop of a connection takes a step.
LEMMA ServerInvStep ==
  ASSUME ClientInv, StoreInv', messages \subseteq messages', NEW w \in Workers,
         Receive(w) \/ AcceptStep(w) \/ AcceptError(w) \/ ServerCrash(w)
  PROVE  ClientTypes' /\ ConnInv' /\ UnusedInv' /\ RequestInv' /\ RoomInv' /\ FrameInv' /\ ToldInv'
<1> USE DEF ClientInv
<1>1. \A v \in Workers \ {w} : pc'[v] = pc[v] /\ req'[v] = req[v]
  BY ServerStoreStep, OthersUntouched, Zenon DEF StoreInv
<1>2. UNCHANGED <<told, owner>>
  BY Zenon DEF Receive, AcceptStep, AcceptError, ServerCrash, clientVars
<1>3. ToldInv'
  BY <1>2 DEF ToldInv
<1>4. CASE Receive(w)
  <2>1. /\ wire[w] = "joined" /\ wire' = [wire EXCEPT ![w] = "read"]
        /\ messages' = messages /\ pc'[w] = "find"
        /\ \E c \in owner[w] : req'[w].key = c /\ req'[w].room = RoomOf[c]
        /\ UNCHANGED <<conn, frame>>
    <3>1. wire[w] = "joined" /\ wire' = [wire EXCEPT ![w] = "read"] /\ UNCHANGED <<conn, frame>>
      BY <1>4, Zenon DEF Receive, clientVars
    <3>2. messages' = messages /\ pc'[w] = "find"
      BY <1>4, Zenon DEF Receive, Start, Goto, StoreInv, TypeOK, tables
    <3>3. \E c \in owner[w] : req'[w].key = c /\ req'[w].room = RoomOf[c]
      BY <1>4 DEF Receive, RequestKey
    <3> QED
      BY <3>1, <3>2, <3>3, Zenon
  <2>2. ClientTypes' /\ ConnInv'
    BY <1>2, <2>1, Zenon DEF ClientTypes, ConnInv
  <2>3. UnusedInv'
    BY <1>1, <2>1, Zenon DEF ClientTypes, UnusedInv
  <2>4. RequestInv'
    BY <1>1, <1>2, <2>1, Zenon DEF RequestInv
  <2>5. RoomInv' /\ FrameInv'
    BY <1>2, <2>1 DEF RoomInv, FrameInv
  <2> QED
    BY <1>3, <2>2, <2>3, <2>4, <2>5, Zenon
<1>5. CASE AcceptStep(w) \/ AcceptError(w) \/ ServerCrash(w)
  <2>1. Step(w) \/ Fail(w)
    BY <1>5, Zenon DEF AcceptStep, AcceptError, ServerCrash, Step
  <2>2. /\ pc[w] # "idle"
        /\ pc'[w] # "idle" => req'[w] = req[w]
        /\ \A m \in messages' \ messages : m.key = req[w].key /\ m.room = req[w].room
    BY <2>1, RequestKept, Zenon
  <2>3. wire[w] # "unused" /\ wire' = wire
    BY <1>5, <2>2, Zenon DEF UnusedInv, AcceptStep, AcceptError, ServerCrash
  <2>4. req[w].key \in owner[w] /\ req[w].room = RoomOf[req[w].key] /\ req[w].key \in Clients
    BY <2>2, Zenon DEF RequestInv, ClientTypes
  <2>5. RequestInv'
    BY <1>1, <1>2, <2>2, <2>4, Zenon DEF RequestInv
  <2>6. RoomInv'
    BY <2>2, <2>4, Zenon DEF RoomInv
  <2>7. /\ conn' \in [Clients -> Workers \cup {NoConn}]
        /\ \A c \in Clients : conn'[c] \in {conn[c], NoConn}
    BY <1>5, Zenon DEF AcceptStep, AcceptError, ServerCrash, clientVars, ClientTypes
  <2>8. ConnInv'
    BY <1>2, <2>3, <2>7, Zenon DEF ConnInv
  <2>9. ASSUME NEW e, Answer(w, e),
               \A m \in e : m \in messages' /\ m.key = req[w].key
        PROVE  /\ frame' \in [Workers -> SUBSET Answers]
               /\ \A v \in Workers \ {w} : frame'[v] = frame[v]
               /\ \A f \in frame'[w] : f.ok => \E m \in messages' : m.key \in owner[w] /\ m.seq = f.seq
    <3> DEFINE new == IF e = {} THEN {[ok |-> FALSE, seq |-> 0]}
                      ELSE {[ok |-> TRUE, seq |-> m.seq] : m \in e}
    <3>1. frame' = [frame EXCEPT ![w] = new]
      BY <2>9, Zenon DEF Answer
    <3>2. \A m \in e : m.seq \in Nat
      BY <2>9, Zenon DEF StoreInv, TypeOK, Events
    <3>3. new \in SUBSET Answers
      <4>1. [ok |-> FALSE, seq |-> 0] \in Answers
        BY Zenon DEF Answers
      <4>2. \A m \in e : [ok |-> TRUE, seq |-> m.seq] \in Answers
        BY <3>2, Zenon DEF Answers
      <4> QED
        BY <4>1, <4>2, Zenon
    <3>4. \A f \in new : f.ok => \E m \in messages' : m.key \in owner[w] /\ m.seq = f.seq
      BY <2>4, <2>9
    <3> HIDE DEF new
    <3> QED
      BY <3>1, <3>3, <3>4, Zenon DEF ClientTypes
  <2>10. \/ frame' = frame
         \/ /\ frame' \in [Workers -> SUBSET Answers]
            /\ \A v \in Workers \ {w} : frame'[v] = frame[v]
            /\ \A f \in frame'[w] : f.ok => \E m \in messages' : m.key \in owner[w] /\ m.seq = f.seq
    <3>1. CASE AcceptStep(w)
      <4>1. CASE pc'[w] = "idle"
        <5>1. \A m \in Returned(w) : m \in messages' /\ m.key = req[w].key
          BY <3>1, <4>1, AnswerStep, Zenon
        <5>2. Answer(w, Returned(w))
          BY <3>1, <4>1, Zenon DEF AcceptStep
        <5> QED
          BY <5>1, <5>2, <2>9, Zenon
      <4>2. CASE pc'[w] # "idle"
        BY <3>1, <4>2, Zenon DEF AcceptStep
      <4> QED
        BY <4>1, <4>2, Zenon
    <3>2. CASE AcceptError(w)
      BY <3>2, <2>9 DEF AcceptError
    <3>3. CASE ServerCrash(w)
      BY <3>3, Zenon DEF ServerCrash
    <3> QED
      BY <1>5, <3>1, <3>2, <3>3, Zenon
  <2>11. ClientTypes'
    BY <1>2, <2>3, <2>7, <2>10, Zenon DEF ClientTypes
  <2>12. UnusedInv'
    BY <1>1, <2>3, <2>10, Zenon DEF UnusedInv
  <2>13. FrameInv'
    BY <1>2, <2>10 DEF FrameInv
  <2> QED
    BY <1>3, <2>5, <2>6, <2>8, <2>11, <2>12, <2>13, Zenon
<1> QED
  BY <1>4, <1>5, Zenon

\* Every step keeps the invariant.
LEMMA CompositionStep == ClientInv /\ [ClientNext]_allVars => ClientInv'
<1> SUFFICES ASSUME ClientInv, [ClientNext]_allVars PROVE ClientInv'
  BY Zenon
<1>1. StoreInv' /\ messages \subseteq messages'
  BY StoreInvStep, Zenon DEF ClientInv
<1>2. ASSUME NEW c \in Clients, ClientStep(c) \/ Break(c) PROVE ClientInv'
  BY <1>1, <1>2, ClientInvStep, Zenon DEF ClientInv
<1>3. ASSUME NEW w \in Workers,
             ServerStep(w) \/ RegisterWaits(w) \/ AcceptError(w) \/ ServerCrash(w)
      PROVE  ClientInv'
  BY <1>1, <1>3, RegisterInvStep, ServerInvStep, Zenon DEF ClientInv, ServerStep
<1>4. CASE UNCHANGED allVars
  <2>1. UNCHANGED <<pc, req, messages, conn, told, owner, wire, frame>>
    BY <1>4, Zenon DEF allVars, vars, clientVars
  <2>2. ClientTypes' /\ ConnInv' /\ UnusedInv' /\ RequestInv'
    BY <2>1, Zenon DEF ClientInv, ClientTypes, ConnInv, UnusedInv, RequestInv
  <2>3. RoomInv' /\ FrameInv' /\ ToldInv'
    BY <2>1 DEF ClientInv, RoomInv, FrameInv, ToldInv
  <2> QED
    BY <1>1, <2>2, <2>3, Zenon DEF ClientInv
<1> QED
  BY <1>2, <1>3, <1>4, Zenon DEF ClientNext

\* One row per key, and the told place is the row's.
LEMMA InvImpliesTold == ClientInv => ToldIsStored
<1> SUFFICES ASSUME ClientInv, NEW c \in Clients, NEW f \in told[c], f.ok
             PROVE  \E m \in messages :
                      /\ m.room = RoomOf[c] /\ m.seq = f.seq
                      /\ {n \in messages : n.key \in {RequestKey(c, w) : w \in Workers}} = {m}
  BY Zenon DEF ToldIsStored
<1>1. PICK m \in messages : m.key = c /\ m.seq = f.seq
  BY Zenon DEF ClientInv, ToldInv
<1>2. m.room = RoomOf[c]
  BY <1>1, Zenon DEF ClientInv, RoomInv
<1>3. \A n \in messages : n.key = c => n = m
  BY <1>1, Zenon DEF ClientInv, StoreInv, TablesInv, AcceptedOnce
<1>4. {n \in messages : n.key \in {RequestKey(c, w) : w \in Workers}} = {m}
  <2>1. Workers # {}
    BY <1>1, Zenon DEF ClientInv, RoomInv
  <2>2. {RequestKey(c, w) : w \in Workers} = {c}
    BY <2>1, Zenon DEF RequestKey
  <2> QED
    BY <1>1, <1>3, <2>2, Zenon
<1> QED
  BY <1>1, <1>2, <1>4, Zenon

-----------------------------------------------------------------------------
\* Behind clients that reconnect and send again the store runs as MessageStore says,
\* and all its theorems hold.
THEOREM StoreUnderClients == ClientSpec => Spec
<1>1. ClientInit => Init
  BY Zenon DEF ClientInit
<1> QED
  BY <1>1, StoreStep, PTL DEF ClientSpec, Spec

\* A client that is told a place has exactly one message in the history, and it is at
\* that place, however often and on however many connections the request was sent.
THEOREM ToldOnePlace == ClientSpec => []ToldIsStored
BY ClientInitInv, CompositionStep, InvImpliesTold, PTL DEF ClientSpec
=============================================================================
