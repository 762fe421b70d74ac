---------------------------- MODULE OutboxProofs ----------------------------
(***************************************************************************)
(* The outbox of single-instance and naive-scale, and a reader of it, for  *)
(* any number of writers, relays, rooms and failures: what is delivered is *)
(* stored, no event is in two batches, an event is repeated or lost only   *)
(* by a failure, single-instance keeps the order of each connection and a  *)
(* reader misses nothing between the history and the live messages.        *)
(***************************************************************************)
EXTENDS History, FiniteSetTheorems, TLAPS

\* An open transaction holds sets of rows.
TxShape ==
  open = [w \in Writers |-> [message |-> open[w].message, event |-> open[w].event]]

\* The event of an open transaction carries the message of the same transaction.
TxInv ==
  \A w \in Writers : open[w].event # {} =>
    open[w].message = {e.message : e \in open[w].event}

\* Batches and deliveries are made of committed events.
BatchInv ==
  /\ claim \in [Relays -> Seq(outbox)]
  /\ handed \in [Relays -> Nat]
  /\ log \in Seq(outbox)

\* The history and the outbox have the same messages.
Stored == messages = {e.message : e \in outbox}

\* A row is in one batch at most (DispatchBatch, SKIP LOCKED).
ClaimsDisjoint ==
  \A k, l \in Relays : k # l => Range(claim[k]) \cap Range(claim[l]) = {}

IInv == TxShape /\ TxInv /\ BatchInv /\ Stored /\ ClaimsDisjoint

\* Event d is of the connection of event e and was sent before it.
Sent(d, e) == d.message.writer = e.message.writer /\ d.message.id < e.message.id

\* Ids are drawn once, and events of one connection have theirs in the order in which
\* it sent the messages.
EventIds ==
  /\ lastMessage \in Nat /\ lastEvent \in Nat /\ faults \in Nat
  /\ \A e \in outbox : e.id \in 1 .. lastEvent /\ e.message.id \in 1 .. lastMessage
  /\ \A d, e \in outbox : (d.id = e.id => d = e) /\ (Sent(d, e) => d.id < e.id)
  /\ IsFiniteSet(messages)

\* The rows of an open transaction are one at most, and come after what the
\* connection has committed.
TxIds(w) ==
  /\ \A m, n \in open[w].message : m = n
  /\ \A m \in open[w].message : m.writer = w /\ m.id \in 1 .. lastMessage
  /\ \A m \in open[w].message : \A d \in outbox : d.message.writer = w => d.message.id < m.id
  /\ \A e \in open[w].event : e.id \in 1 .. lastEvent /\ e.message \in open[w].message
  /\ \A d, e \in open[w].event : d = e
  /\ \A e \in open[w].event : \A d \in outbox :
       d.id # e.id /\ (d.message.writer = w => d.id < e.id)
  /\ \A v \in Writers \ {w} : \A e \in open[w].event : \A d \in open[v].event : d.id # e.id

IdInv == EventIds /\ \A w \in Writers : TxIds(w)

\* A batch is in the order of the ids and holds no event that is stamped.
BatchOrder ==
  /\ dispatched \subseteq {e.id : e \in outbox}
  /\ \A k \in Relays :
       /\ handed[k] <= Len(claim[k])
       /\ \A i \in DOMAIN claim[k] : claim[k][i].id \notin dispatched
       /\ \A i, j \in DOMAIN claim[k] : i < j => claim[k][i].id < claim[k][j].id

\* Event e was handed to Broadcast in a batch that is stamped or still open.
Passed(e) ==
  \/ e.id \in dispatched
  \/ \E k \in Relays : \E i \in 1 .. handed[k] : claim[k][i] = e

\* Every copy but one needs a batch that failed.
Repeats == \A e \in outbox : Copies(e) <= faults + IF Passed(e) THEN 1 ELSE 0

\* The events that did not get to Redis though they were handed out, and how many there may be.
Lost == {e \in outbox : Passed(e) /\ e \notin Range(log)}
Allowed == IF design = "single" THEN 0 ELSE faults
LostInv == IsFiniteSet(Lost) /\ Cardinality(Lost) <= Allowed

\* With one relay every event follows those its connection sent before.
SenderInv == design = "single" =>
  /\ \A k \in Relays \ Running : claim[k] = <<>>
  /\ \A j \in DOMAIN log : \A d \in outbox : Sent(d, log[j]) => Earlier(d, j)
  /\ \A k \in Relays : \A n \in DOMAIN claim[k] : \A d \in outbox :
       Sent(d, claim[k][n]) => d \in Range(log) \/ \E p \in 1 .. n - 1 : claim[k][p] = d

OInv == IInv /\ IdInv /\ BatchOrder /\ Repeats /\ LostInv /\ SenderInv

\* The pages have gone past message m.
Behind(m) == done \/ (cursor # 0 /\ cursor <= m.id)

\* What was handed out is seen, on its way, lost on the subscription or still to be read.
ReaderInv ==
  /\ cursor \in Nat /\ done \in BOOLEAN
  /\ room = {} => cursor = 0 /\ ~done
  /\ \A r, s \in room : r = s
  /\ \A e \in outbox : e.message.room \in room /\ e \in Range(log) /\ Behind(e.message) =>
       e.message \in seen \cup live \cup lost

-----------------------------------------------------------------------------
\* Sequences of committed events stay so when more are committed.
LEMMA BatchesGrow ==
  ASSUME BatchInv, outbox \subseteq outbox', UNCHANGED <<claim, handed, log>>
  PROVE  BatchInv'
<1>1. \A s \in Seq(outbox) : s \in Seq(outbox')
  OBVIOUS
<1> QED
  BY <1>1, Zenon DEF BatchInv

\* The invariant holds at the start.
LEMMA InitInv == Init => IInv
<1> SUFFICES ASSUME Init PROVE IInv
  BY Zenon
<1>1. TxShape /\ TxInv
  BY Zenon DEF Init, TxShape, TxInv, NoTx
<1>2. BatchInv /\ Stored /\ ClaimsDisjoint
  BY DEF Init, BatchInv, Stored, ClaimsDisjoint, Range
<1> QED
  BY <1>1, <1>2, Zenon DEF IInv

\* A step of a writer keeps the invariant.
LEMMA WriterStep ==
  ASSUME IInv, NEW w \in Writers,
         InsertMessage(w) \/ EnqueueOutbox(w) \/ CommitMessage(w) \/ AbortMessage(w)
  PROVE  IInv'
<1> USE DEF IInv
<1>1. UNCHANGED <<claim, handed, log>>
  BY Zenon DEF InsertMessage, EnqueueOutbox, CommitMessage, AbortMessage, relays
<1>2. ClaimsDisjoint'
  BY <1>1 DEF ClaimsDisjoint, Range
<1>3. CASE InsertMessage(w)
  <2>1. UNCHANGED <<messages, outbox>>
    BY <1>3, Zenon DEF InsertMessage
  <2>2. \/ UNCHANGED open
        \/ open[w].event = {} /\ \E s : open' = [open EXCEPT ![w].message = s]
    BY <1>3 DEF InsertMessage, NoTx
  <2>3. TxShape'
    BY <2>2, Zenon DEF TxShape
  <2>4. TxInv'
    BY <2>2 DEF TxShape, TxInv
  <2>5. BatchInv' /\ Stored'
    BY <1>1, <2>1, Zenon DEF BatchInv, Stored
  <2> QED
    BY <1>2, <2>3, <2>4, <2>5, Zenon
<1>4. CASE EnqueueOutbox(w)
  <2> DEFINE row(m) == [id |-> lastEvent + 1, message |-> m]
             s == {row(m) : m \in open[w].message}
  <2>1. UNCHANGED <<messages, outbox>> /\ open' = [open EXCEPT ![w].event = s]
    BY <1>4, Zenon DEF EnqueueOutbox
  <2>2. open[w].message = {e.message : e \in s}
    <3>1. \A m \in open[w].message : row(m) \in s /\ row(m).message = m
      BY Zenon
    <3>2. \A e \in s : e.message \in open[w].message
      OBVIOUS
    <3> HIDE DEF s, row
    <3> QED
      BY <3>1, <3>2
  <2> HIDE DEF s
  <2>3. TxShape'
    BY <2>1 DEF TxShape
  <2>4. TxInv'
    <3>1. \A v \in Writers : /\ open'[v].message = open[v].message
                             /\ open'[v].event = IF v = w THEN s ELSE open[v].event
      BY <2>1 DEF TxShape
    <3> SUFFICES ASSUME NEW v \in Writers, open'[v].event # {}
                 PROVE  open'[v].message = {e.message : e \in open'[v].event}
      BY Zenon DEF TxInv
    <3>2. CASE v = w
      BY <2>2, <3>1, <3>2, Zenon
    <3>3. CASE v # w
      BY <3>1, <3>3, Zenon DEF TxInv
    <3> QED
      BY <3>2, <3>3, Zenon
  <2>5. BatchInv' /\ Stored'
    BY <1>1, <2>1, Zenon DEF BatchInv, Stored
  <2> QED
    BY <1>2, <2>3, <2>4, <2>5, Zenon
<1>5. CASE CommitMessage(w)
  <2>1. /\ open[w].event # {}
        /\ messages' = messages \cup open[w].message
        /\ outbox' = outbox \cup open[w].event
        /\ open' = [open EXCEPT ![w] = NoTx]
    BY <1>5, Zenon DEF CommitMessage
  <2>2. TxShape' /\ TxInv'
    BY <2>1, Zenon DEF TxShape, TxInv, NoTx
  <2>3. BatchInv'
    BY <1>1, <2>1, BatchesGrow, Zenon
  <2>4. Stored'
    BY <2>1, Zenon DEF TxInv, Stored
  <2> QED
    BY <1>2, <2>2, <2>3, <2>4, Zenon
<1>6. CASE AbortMessage(w)
  <2>1. UNCHANGED <<messages, outbox>> /\ open' = [open EXCEPT ![w] = NoTx]
    BY <1>6, Zenon DEF AbortMessage
  <2>2. TxShape' /\ TxInv'
    BY <2>1, Zenon DEF TxShape, TxInv, NoTx
  <2>3. BatchInv' /\ Stored'
    BY <1>1, <2>1, Zenon DEF BatchInv, Stored
  <2> QED
    BY <1>2, <2>2, <2>3, Zenon
<1> QED
  BY <1>3, <1>4, <1>5, <1>6, Zenon

\* A step of a relay keeps the invariant: what it claims nobody has locked, and it
\* hands out what it claimed.
LEMMA RelayStep ==
  ASSUME IInv, NEW k \in Relays,
         Claim(k) \/ Dispatch(k) \/ CommitBatch(k) \/ AbortBatch(k)
  PROVE  IInv'
<1> USE DEF IInv
<1>1. UNCHANGED <<messages, outbox, open>>
  BY Zenon DEF Claim, Dispatch, CommitBatch, AbortBatch, writers
<1>2. TxShape' /\ TxInv' /\ Stored'
  BY <1>1, Zenon DEF TxShape, TxInv, Stored
<1>3. CASE Claim(k)
  <2>1. PICK size \in 1 .. BatchSize : \E b \in [1 .. size -> Pending] :
          claim' = [claim EXCEPT ![k] = b]
    BY <1>3, Zenon DEF Claim
  <2>2. PICK b \in [1 .. size -> Pending] : claim' = [claim EXCEPT ![k] = b]
    BY <2>1, Zenon
  <2>3. Pending \subseteq outbox /\ \A l \in Relays : Pending \cap Range(claim[l]) = {}
    BY Zenon DEF Pending, Locked
  <2>4. b \in Seq(outbox)
    BY <2>3, OutboxAssumption
  <2>5. BatchInv'
    BY <1>1, <1>3, <2>2, <2>4, Zenon DEF BatchInv, Claim
  <2>6. Range(b) \subseteq Pending
    BY Zenon DEF Range
  <2>7. \A l \in Relays : claim'[l] = IF l = k THEN b ELSE claim[l]
    BY <2>2, Zenon DEF BatchInv
  <2>8. ClaimsDisjoint'
    <3> SUFFICES ASSUME NEW i \in Relays, NEW l \in Relays, i # l
                 PROVE  Range(claim'[i]) \cap Range(claim'[l]) = {}
      BY Zenon DEF ClaimsDisjoint, Range
    <3> QED
      BY <2>3, <2>6, <2>7, Zenon DEF ClaimsDisjoint
  <2> QED
    BY <1>2, <2>5, <2>8, Zenon
<1>4. CASE Dispatch(k)
  <2>1. /\ handed[k] < Len(claim[k])
        /\ handed' = [handed EXCEPT ![k] = @ + 1]
        /\ claim' = claim
        /\ log' = log \/ log' = Append(log, claim[k][handed[k] + 1])
    BY <1>4, Zenon DEF Dispatch
  <2>2. claim[k] \in Seq(outbox) /\ handed[k] \in Nat
    BY Zenon DEF BatchInv
  <2>3. claim[k][handed[k] + 1] \in outbox
    BY <2>1, <2>2
  <2>4. log' \in Seq(outbox)
    <3>1. log \in Seq(outbox)
      BY Zenon DEF BatchInv
    <3>2. Append(log, claim[k][handed[k] + 1]) \in Seq(outbox)
      BY <2>3, <3>1
    <3> QED
      BY <2>1, <3>1, <3>2, Zenon
  <2>5. BatchInv'
    BY <1>1, <2>1, <2>4 DEF BatchInv
  <2>6. ClaimsDisjoint'
    BY <2>1, Zenon DEF ClaimsDisjoint
  <2> QED
    BY <1>2, <2>5, <2>6, Zenon
<1>5. CASE CommitBatch(k) \/ AbortBatch(k)
  <2>1. /\ claim' = [claim EXCEPT ![k] = <<>>]
        /\ handed' = [handed EXCEPT ![k] = 0]
        /\ log' = log
    BY <1>5, Zenon DEF CommitBatch, AbortBatch
  <2>2. BatchInv'
    BY <1>1, <2>1 DEF BatchInv
  <2>3. \A l \in Relays : claim'[l] = IF l = k THEN <<>> ELSE claim[l]
    BY <2>1, Zenon DEF BatchInv
  <2>4. Range(<<>>) = {}
    BY DEF Range
  <2>5. ClaimsDisjoint'
    <3> SUFFICES ASSUME NEW i \in Relays, NEW l \in Relays, i # l
                 PROVE  Range(claim'[i]) \cap Range(claim'[l]) = {}
      BY Zenon DEF ClaimsDisjoint, Range
    <3> QED
      BY <2>3, <2>4, Zenon DEF ClaimsDisjoint
  <2> QED
    BY <1>2, <2>2, <2>5, Zenon
<1> QED
  BY <1>3, <1>4, <1>5, Zenon

\* A process that starts again has no transaction and no batch.
LEMMA RestartEffect ==
  ASSUME Restart
  PROVE  /\ \A w \in Writers : open'[w] = NoTx /\ open'[w].message = {} /\ open'[w].event = {}
         /\ \A k \in Relays : claim'[k] = <<>> /\ handed'[k] = 0
         /\ design = "single" /\ faults' = faults + 1
         /\ UNCHANGED <<design, lastMessage, lastEvent, messages, outbox, dispatched, log>>
BY Zenon DEF Restart, Fault, NoTx

LEMMA RestartStep ==
  ASSUME IInv, Restart PROVE IInv'
<1>1. TxShape' /\ TxInv'
  BY Zenon DEF Restart, TxShape, TxInv, NoTx
<1>2. BatchInv'
  <2>1. outbox' = outbox /\ log' = log /\ claim' = [k \in Relays |-> <<>>] /\ handed' = [k \in Relays |-> 0]
    BY Zenon DEF Restart
  <2> QED
    BY <2>1 DEF IInv, BatchInv
<1>3. Stored'
  BY RestartEffect, Zenon DEF IInv, Stored
<1>4. ClaimsDisjoint'
  <2>1. Range(<<>>) = {}
    BY DEF Range
  <2>2. \A k \in Relays : Range(claim'[k]) = {}
    BY <2>1, RestartEffect, Zenon
  <2> QED
    BY <2>2, Zenon DEF ClaimsDisjoint, Range
<1> QED
  BY <1>1, <1>2, <1>3, <1>4, Zenon DEF IInv

\* Every step keeps the invariant.
LEMMA InvStep == IInv /\ [Next]_vars => IInv'
<1> SUFFICES ASSUME IInv, [Next]_vars PROVE IInv'
  BY Zenon
<1>1. ASSUME UNCHANGED <<messages, outbox, open, claim, handed, log>> PROVE IInv'
  <2>1. TxShape' /\ TxInv' /\ Stored'
    BY <1>1, Zenon DEF IInv, TxShape, TxInv, Stored
  <2>2. BatchInv'
    BY <1>1, BatchesGrow, Zenon DEF IInv
  <2>3. ClaimsDisjoint'
    BY <1>1 DEF IInv, ClaimsDisjoint, Range
  <2> QED
    BY <2>1, <2>2, <2>3, Zenon DEF IInv
<1>2. ASSUME NEW r \in Rooms, CreateRoom(r) PROVE IInv'
  BY <1>1, <1>2, Zenon DEF CreateRoom, relays
<1>3. ASSUME NEW u \in Users, CreateUser(u) PROVE IInv'
  BY <1>1, <1>3, Zenon DEF CreateUser, relays
<1>4. CASE UNCHANGED vars
  BY <1>1, <1>4, Zenon DEF vars, writers, relays
<1>5. CASE HubSticks
  BY <1>1, <1>5, Zenon DEF HubSticks, writers
<1> QED
  BY <1>2, <1>3, <1>4, <1>5, WriterStep, RelayStep, RestartStep, Zenon DEF Next, Step

-----------------------------------------------------------------------------
\* What the actions of the writers do to the rows.
LEMMA WriterEffect ==
  ASSUME IInv, NEW w \in Writers
  PROVE  /\ InsertMessage(w) =>
              /\ lastMessage' = lastMessage + 1 /\ open[w] = NoTx
              /\ UNCHANGED <<lastEvent, messages, outbox>>
              /\ \A v \in Writers \ {w} : open'[v] = open[v]
              /\ open'[w].event = {}
              /\ \/ open'[w].message = {}
                 \/ \E r : open'[w].message = {[id |-> lastMessage + 1, room |-> r, writer |-> w]}
         /\ EnqueueOutbox(w) =>
              /\ lastEvent' = lastEvent + 1 /\ UNCHANGED <<lastMessage, messages, outbox>>
              /\ \A v \in Writers \ {w} : open'[v] = open[v]
              /\ open'[w].message = open[w].message
              /\ open'[w].event = {[id |-> lastEvent + 1, message |-> m] : m \in open[w].message}
         /\ CommitMessage(w) =>
              /\ open[w].event # {} /\ UNCHANGED <<lastMessage, lastEvent>>
              /\ messages' = messages \cup open[w].message
              /\ outbox' = outbox \cup open[w].event
              /\ \A v \in Writers \ {w} : open'[v] = open[v]
              /\ open'[w].message = {} /\ open'[w].event = {}
         /\ AbortMessage(w) =>
              /\ UNCHANGED <<lastMessage, lastEvent, messages, outbox>>
              /\ \A v \in Writers \ {w} : open'[v] = open[v]
              /\ open'[w].message = {} /\ open'[w].event = {}
<1>1. TxShape
  BY Zenon DEF IInv
<1>2. ASSUME InsertMessage(w)
      PROVE  /\ lastMessage' = lastMessage + 1 /\ open[w] = NoTx
             /\ UNCHANGED <<lastEvent, messages, outbox>>
             /\ \A v \in Writers \ {w} : open'[v] = open[v]
             /\ open'[w].event = {}
             /\ \/ open'[w].message = {}
                \/ \E r : open'[w].message = {[id |-> lastMessage + 1, room |-> r, writer |-> w]}
  <2>1. /\ lastMessage' = lastMessage + 1 /\ open[w] = NoTx
        /\ UNCHANGED <<lastEvent, messages, outbox>>
    BY <1>2, Zenon DEF InsertMessage
  <2>2. \/ open' = open
        \/ \E r : open' = [open EXCEPT ![w].message =
                            {[id |-> lastMessage + 1, room |-> r, writer |-> w]}]
    BY <1>2, Zenon DEF InsertMessage
  <2>3. open[w].message = {} /\ open[w].event = {}
    BY <2>1 DEF NoTx
  <2>4. CASE open' = open
    BY <2>1, <2>3, <2>4, Zenon
  <2>5. ASSUME NEW r, open' = [open EXCEPT ![w].message =
                                 {[id |-> lastMessage + 1, room |-> r, writer |-> w]}]
        PROVE  /\ \A v \in Writers \ {w} : open'[v] = open[v]
               /\ open'[w].event = {}
               /\ open'[w].message = {[id |-> lastMessage + 1, room |-> r, writer |-> w]}
    BY <1>1, <2>3, <2>5 DEF TxShape
  <2> QED
    BY <2>1, <2>2, <2>4, <2>5, Zenon
<1>3. ASSUME EnqueueOutbox(w)
      PROVE  /\ lastEvent' = lastEvent + 1 /\ UNCHANGED <<lastMessage, messages, outbox>>
             /\ \A v \in Writers \ {w} : open'[v] = open[v]
             /\ open'[w].message = open[w].message
             /\ open'[w].event = {[id |-> lastEvent + 1, message |-> m] : m \in open[w].message}
  BY <1>1, <1>3 DEF EnqueueOutbox, TxShape
<1>4. ASSUME CommitMessage(w)
      PROVE  /\ open[w].event # {} /\ UNCHANGED <<lastMessage, lastEvent>>
             /\ messages' = messages \cup open[w].message
             /\ outbox' = outbox \cup open[w].event
             /\ \A v \in Writers \ {w} : open'[v] = open[v]
             /\ open'[w].message = {} /\ open'[w].event = {}
  BY <1>1, <1>4, Zenon DEF CommitMessage, TxShape, NoTx
<1>5. ASSUME AbortMessage(w)
      PROVE  /\ UNCHANGED <<lastMessage, lastEvent, messages, outbox>>
             /\ \A v \in Writers \ {w} : open'[v] = open[v]
             /\ open'[w].message = {} /\ open'[w].event = {}
  BY <1>1, <1>5, Zenon DEF AbortMessage, TxShape, NoTx
<1> QED
  BY <1>2, <1>3, <1>4, <1>5, Zenon

\* The rows of writer v are not disturbed by another writer.
LEMMA SameTx ==
  ASSUME NEW v \in Writers, TxIds(v), open'[v] = open[v], EventIds,
         lastMessage' \in Nat, lastMessage <= lastMessage',
         lastEvent' \in Nat, lastEvent <= lastEvent',
         \A d \in outbox' \ outbox : d.message.writer # v /\ \A e \in open[v].event : d.id # e.id,
         \A u \in Writers \ {v} : \A e \in open[v].event : \A d \in open'[u].event : d.id # e.id
  PROVE  TxIds(v)'
<1>1. /\ \A m \in open[v].message : m.id \in 1 .. lastMessage'
      /\ \A e \in open[v].event : e.id \in 1 .. lastEvent'
  BY DEF TxIds, EventIds
<1>2. \A d \in outbox' : d \in outbox \/ (d.message.writer # v /\ \A e \in open[v].event : d.id # e.id)
  BY Zenon
<1> QED
  BY <1>1, <1>2, Zenon DEF TxIds

LEMMA NoRows ==
  ASSUME NEW w \in Writers, open'[w].message = {}, open'[w].event = {}
  PROVE  TxIds(w)'
BY Zenon DEF TxIds

LEMMA IdStep ==
  ASSUME IInv, IdInv, NEW w \in Writers,
         InsertMessage(w) \/ EnqueueOutbox(w) \/ CommitMessage(w) \/ AbortMessage(w)
  PROVE  IdInv'
<1>0. EventIds /\ TxIds(w) /\ lastMessage \in Nat /\ lastEvent \in Nat /\ faults \in Nat
  BY Zenon DEF IdInv, EventIds
<1>f. faults' \in Nat
  BY <1>0 DEF InsertMessage, EnqueueOutbox, CommitMessage, AbortMessage, Fault
<1>1. CASE InsertMessage(w)
  <2>1. /\ lastMessage' = lastMessage + 1 /\ UNCHANGED <<lastEvent, messages, outbox>>
        /\ \A v \in Writers \ {w} : open'[v] = open[v]
        /\ open'[w].event = {}
        /\ \/ open'[w].message = {}
           \/ \E r : open'[w].message = {[id |-> lastMessage + 1, room |-> r, writer |-> w]}
    BY <1>1, WriterEffect, Zenon
  <2>2. EventIds'
    BY <1>0, <1>f, <2>1 DEF EventIds, Sent
  <2>3. ASSUME NEW v \in Writers \ {w} PROVE TxIds(v)'
    <3>1. TxIds(v) /\ open'[v] = open[v]
      BY <2>1, Zenon DEF IdInv
    <3>2. \A u \in Writers \ {v} : open'[u].event = {} \/ open'[u] = open[u]
      BY <2>1, Zenon
    <3>3. \A u \in Writers \ {v} : \A e \in open[v].event : \A d \in open'[u].event : d.id # e.id
      BY <3>1, <3>2 DEF TxIds
    <3> QED
      BY <1>0, <2>1, <3>1, <3>3, SameTx
  <2>4. TxIds(w)'
    <3>1. CASE open'[w].message = {}
      BY <2>1, <3>1, NoRows, Zenon
    <3>2. ASSUME NEW r, open'[w].message = {[id |-> lastMessage + 1, room |-> r, writer |-> w]}
          PROVE  TxIds(w)'
      <4>1. \A m \in open'[w].message : m.writer = w /\ m.id = lastMessage + 1
        BY <3>2
      <4>2. \A d \in outbox : d.message.id \in 1 .. lastMessage
        BY <1>0, Zenon DEF EventIds
      <4>3. \A m, n \in open'[w].message : m = n
        BY <3>2, Zenon
      <4> QED
        BY <1>0, <2>1, <4>1, <4>2, <4>3 DEF TxIds
    <3> QED
      BY <2>1, <3>1, <3>2, Zenon
  <2> QED
    BY <2>2, <2>3, <2>4, Zenon DEF IdInv
<1>2. CASE EnqueueOutbox(w)
  <2>1. /\ lastEvent' = lastEvent + 1 /\ UNCHANGED <<lastMessage, messages, outbox>>
        /\ \A v \in Writers \ {w} : open'[v] = open[v]
        /\ open'[w].message = open[w].message
        /\ open'[w].event = {[id |-> lastEvent + 1, message |-> m] : m \in open[w].message}
    BY <1>2, WriterEffect, Zenon
  <2>2. EventIds'
    BY <1>0, <1>f, <2>1 DEF EventIds, Sent
  <2>3. /\ \A e \in open'[w].event : e.id = lastEvent + 1 /\ e.message \in open[w].message
        /\ \A d, e \in open'[w].event : d = e
    BY <1>0, <2>1 DEF TxIds
  <2>4. ASSUME NEW v \in Writers \ {w} PROVE TxIds(v)' /\ \A e \in open[v].event : e.id \in 1 .. lastEvent
    <3>1. TxIds(v) /\ open'[v] = open[v]
      BY <2>1, Zenon DEF IdInv
    <3>2. \A e \in open[v].event : e.id \in 1 .. lastEvent
      BY <3>1, Zenon DEF TxIds
    <3>3. \A u \in Writers \ {v} : \A e \in open[v].event : \A d \in open'[u].event : d.id # e.id
      <4> SUFFICES ASSUME NEW u \in Writers \ {v}, NEW e \in open[v].event, NEW d \in open'[u].event
                   PROVE  d.id # e.id
        BY Zenon
      <4>1. CASE u = w
        BY <1>0, <2>3, <3>2, <4>1
      <4>2. CASE u # w
        BY <2>1, <3>1, <4>2 DEF TxIds
      <4> QED
        BY <4>1, <4>2, Zenon
    <3> QED
      BY <1>0, <2>1, <3>1, <3>2, <3>3, SameTx
  <2>5. TxIds(w)'
    <3>1. \A d \in outbox : d.id \in 1 .. lastEvent
      BY <1>0, Zenon DEF EventIds
    <3>2. \A v \in Writers \ {w} : \A e \in open'[w].event : \A d \in open'[v].event : d.id # e.id
      BY <1>0, <2>1, <2>3, <2>4
    <3>3. \A e \in open'[w].event : \A d \in outbox : d.id # e.id /\ d.id < e.id
      BY <1>0, <2>3, <3>1
    <3> QED
      BY <1>0, <2>1, <2>3, <3>2, <3>3 DEF TxIds
  <2> QED
    BY <2>2, <2>4, <2>5 DEF IdInv
<1>3. CASE CommitMessage(w)
  <2>1. /\ UNCHANGED <<lastMessage, lastEvent>>
        /\ messages' = messages \cup open[w].message
        /\ outbox' = outbox \cup open[w].event
        /\ \A v \in Writers \ {w} : open'[v] = open[v]
        /\ open'[w].message = {} /\ open'[w].event = {}
    BY <1>3, WriterEffect
  <2>2. IsFiniteSet(messages')
    <3>1. CASE open[w].message = {}
      BY <1>0, <2>1, <3>1, Zenon DEF EventIds
    <3>2. ASSUME NEW m \in open[w].message PROVE IsFiniteSet(messages')
      <4>1. open[w].message = {m}
        BY <1>0 DEF TxIds
      <4>2. IsFiniteSet(messages \cup {m})
        BY <1>0, FS_AddElement, Zenon DEF EventIds
      <4> QED
        BY <2>1, <4>1, <4>2, Zenon
    <3> QED
      BY <3>1, <3>2, Zenon
  <2>3. \A e \in open[w].event : /\ e.id \in 1 .. lastEvent /\ e.message.id \in 1 .. lastMessage
                                 /\ e.message.writer = w /\ e.message \in open[w].message
    BY <1>0, Zenon DEF TxIds
  <2>4. ASSUME NEW d \in outbox', NEW e \in outbox'
        PROVE  (d.id = e.id => d = e) /\ (Sent(d, e) => d.id < e.id)
    <3>1. CASE d \in outbox /\ e \in outbox
      BY <1>0, <3>1 DEF EventIds
    <3>2. CASE d \in outbox /\ e \in open[w].event
      BY <1>0, <2>3, <3>2 DEF TxIds, Sent
    <3>3. CASE d \in open[w].event /\ e \in outbox
      <4>1. d.id # e.id
        BY <1>0, <3>3, Zenon DEF TxIds
      <4>2. e.message.writer = w => e.message.id < d.message.id
        BY <1>0, <2>3, <3>3, Zenon DEF TxIds
      <4>3. d.message.id \in Nat /\ e.message.id \in Nat
        BY <1>0, <2>3, <3>3 DEF EventIds
      <4> QED
        BY <2>3, <3>3, <4>1, <4>2, <4>3 DEF Sent
    <3>4. CASE d \in open[w].event /\ e \in open[w].event
      <4>1. d = e /\ d.message.id \in Nat
        BY <1>0, <2>3, <3>4 DEF TxIds
      <4> QED
        BY <4>1 DEF Sent
    <3> QED
      BY <2>1, <3>1, <3>2, <3>3, <3>4, Zenon
  <2>5. \A e \in outbox' : e.id \in 1 .. lastEvent /\ e.message.id \in 1 .. lastMessage
    BY <1>0, <2>1, <2>3, Zenon DEF EventIds
  <2>6. EventIds'
    BY <1>0, <1>f, <2>1, <2>2, <2>4, <2>5, Zenon DEF EventIds, Sent
  <2>7. ASSUME NEW v \in Writers \ {w} PROVE TxIds(v)'
    <3>1. TxIds(v) /\ open'[v] = open[v]
      BY <2>1, Zenon DEF IdInv
    <3>2. \A u \in Writers \ {v} : open'[u].event = {} \/ open'[u] = open[u]
      BY <2>1, Zenon
    <3>3. \A u \in Writers \ {v} : \A e \in open[v].event : \A d \in open'[u].event : d.id # e.id
      BY <3>1, <3>2 DEF TxIds
    <3>4. \A d \in outbox' \ outbox : d.message.writer # v /\ \A e \in open[v].event : d.id # e.id
      BY <2>1, <2>3, <3>1 DEF TxIds
    <3> QED
      BY <1>0, <2>1, <3>1, <3>3, <3>4, SameTx
  <2> QED
    BY <2>1, <2>6, <2>7, NoRows, Zenon DEF IdInv
<1>4. CASE AbortMessage(w)
  <2>1. /\ UNCHANGED <<lastMessage, lastEvent, messages, outbox>>
        /\ \A v \in Writers \ {w} : open'[v] = open[v]
        /\ open'[w].message = {} /\ open'[w].event = {}
    BY <1>4, WriterEffect, Zenon
  <2>2. EventIds'
    BY <1>0, <1>f, <2>1, Zenon DEF EventIds, Sent
  <2>3. ASSUME NEW v \in Writers \ {w} PROVE TxIds(v)'
    <3>1. TxIds(v) /\ open'[v] = open[v]
      BY <2>1, Zenon DEF IdInv
    <3>2. \A u \in Writers \ {v} : open'[u].event = {} \/ open'[u] = open[u]
      BY <2>1, Zenon
    <3>3. \A u \in Writers \ {v} : \A e \in open[v].event : \A d \in open'[u].event : d.id # e.id
      BY <3>1, <3>2 DEF TxIds
    <3> QED
      BY <1>0, <2>1, <3>1, <3>3, SameTx
  <2> QED
    BY <2>1, <2>2, <2>3, NoRows DEF IdInv
<1> QED
  BY <1>1, <1>2, <1>3, <1>4, Zenon

-----------------------------------------------------------------------------
\* A batch that a relay claims holds pending events in the order of their ids, and
\* every pending event before one of them.
LEMMA ClaimEffect ==
  ASSUME IInv, NEW k \in Relays, Claim(k)
  PROVE  \E b \in Seq(outbox) :
           /\ Range(b) \subseteq Pending
           /\ \A i, j \in DOMAIN b : i < j => b[i].id < b[j].id
           /\ \A e \in Pending : \A i \in DOMAIN b : b[i].id < e.id \/ e \in Range(b)
           /\ claim'[k] = b /\ \A l \in Relays \ {k} : claim'[l] = claim[l]
<1>1. PICK size \in 1 .. BatchSize : \E b \in [1 .. size -> Pending] :
        IsClaim(b) /\ claim' = [claim EXCEPT ![k] = b]
  BY Zenon DEF Claim
<1>2. PICK b \in [1 .. size -> Pending] : IsClaim(b) /\ claim' = [claim EXCEPT ![k] = b]
  BY <1>1, Zenon
<1>3. b \in Seq(outbox)
  BY OutboxAssumption DEF Pending
<1>4. Range(b) \subseteq Pending
  BY Zenon DEF Range
<1>5. claim'[k] = b /\ \A l \in Relays \ {k} : claim'[l] = claim[l]
  BY <1>2, Zenon DEF IInv, BatchInv
<1> QED
  BY <1>2, <1>3, <1>4, <1>5, Zenon DEF IsClaim

\* What the relays have and have done is not touched.
RelaysRest ==
  /\ design' = design /\ dispatched' = dispatched /\ claim' = claim
  /\ handed' = handed /\ log' = log

\* Batches stay in order, and a batch is stamped as a whole.
LEMMA BatchOrderStep ==
  ASSUME IInv, IdInv, BatchOrder, NEW k \in Relays,
         Claim(k) \/ Dispatch(k) \/ CommitBatch(k) \/ AbortBatch(k)
  PROVE  BatchOrder'
<1>0. /\ outbox' = outbox /\ dispatched \subseteq {e.id : e \in outbox}
      /\ claim \in [Relays -> Seq(outbox)] /\ handed \in [Relays -> Nat]
  BY Zenon DEF Claim, Dispatch, CommitBatch, AbortBatch, writers, BatchOrder, IInv, BatchInv
<1> DEFINE Ordered(b) == /\ \A i \in DOMAIN b : b[i].id \notin dispatched
                         /\ \A i, j \in DOMAIN b : i < j => b[i].id < b[j].id
<1>a. \A l \in Relays : Ordered(claim[l]) /\ handed[l] <= Len(claim[l])
  BY Zenon DEF BatchOrder
<1>1. CASE Claim(k)
  <2>1. PICK b \in Seq(outbox) :
           /\ Range(b) \subseteq Pending
           /\ \A i, j \in DOMAIN b : i < j => b[i].id < b[j].id
           /\ claim'[k] = b /\ \A l \in Relays \ {k} : claim'[l] = claim[l]
    BY <1>1, ClaimEffect, Zenon
  <2>2. dispatched' = dispatched /\ handed' = handed /\ claim[k] = <<>>
    BY <1>1, Zenon DEF Claim
  <2>3. Ordered(b)
    BY <2>1, Zenon DEF Pending, Range
  <2>4. handed[k] = 0 /\ 0 <= Len(b)
    BY <1>0, <1>a, <2>2
  <2> QED
    BY <1>0, <1>a, <2>1, <2>2, <2>3, <2>4 DEF BatchOrder
<1>2. CASE Dispatch(k)
  <2>1. /\ dispatched' = dispatched /\ claim' = claim /\ handed[k] < Len(claim[k])
        /\ \A l \in Relays : handed'[l] = IF l = k THEN handed[k] + 1 ELSE handed[l]
    BY <1>0, <1>2, Zenon DEF Dispatch
  <2>2. \A l \in Relays : handed'[l] <= Len(claim[l])
    BY <1>0, <1>a, <2>1
  <2> QED
    BY <1>0, <1>a, <2>1, <2>2, Zenon DEF BatchOrder
<1>3. CASE CommitBatch(k)
  <2>1. /\ dispatched' = dispatched \cup {e.id : e \in Range(claim[k])}
        /\ \A l \in Relays : /\ claim'[l] = IF l = k THEN <<>> ELSE claim[l]
                             /\ handed'[l] = IF l = k THEN 0 ELSE handed[l]
    BY <1>0, <1>3, Zenon DEF CommitBatch
  <2>2. Range(claim[k]) \subseteq outbox
    BY <1>0 DEF Range
  <2>3. dispatched' \subseteq {e.id : e \in outbox'}
    BY <1>0, <2>1, <2>2, Zenon
  <2>4. ASSUME NEW l \in Relays, l # k, NEW i \in DOMAIN claim[l] PROVE claim[l][i].id \notin dispatched'
    <3>1. claim[l][i].id \notin dispatched /\ claim[l][i] \in outbox
      BY <1>0, <1>a
    <3>2. claim[l][i] \notin Range(claim[k])
      BY <2>4, Zenon DEF IInv, ClaimsDisjoint, Range
    <3> QED
      BY <2>1, <2>2, <3>1, <3>2, Zenon DEF IdInv, EventIds
  <2>5. ASSUME NEW l \in Relays
        PROVE  /\ handed'[l] <= Len(claim'[l])
               /\ \A i \in DOMAIN claim'[l] : claim'[l][i].id \notin dispatched'
               /\ \A i, j \in DOMAIN claim'[l] : i < j => claim'[l][i].id < claim'[l][j].id
    <3>1. CASE l = k
      BY <2>1, <3>1
    <3>2. CASE l # k
      BY <1>a, <2>1, <2>4, <3>2, Zenon
    <3> QED
      BY <3>1, <3>2, Zenon
  <2> QED
    BY <2>3, <2>5, Zenon DEF BatchOrder
<1>4. CASE AbortBatch(k)
  <2>1. /\ dispatched' = dispatched
        /\ \A l \in Relays : /\ claim'[l] = IF l = k THEN <<>> ELSE claim[l]
                             /\ handed'[l] = IF l = k THEN 0 ELSE handed[l]
    BY <1>0, <1>4, Zenon DEF AbortBatch
  <2>2. ASSUME NEW l \in Relays
        PROVE  /\ handed'[l] <= Len(claim'[l])
               /\ \A i \in DOMAIN claim'[l] : claim'[l][i].id \notin dispatched'
               /\ \A i, j \in DOMAIN claim'[l] : i < j => claim'[l][i].id < claim'[l][j].id
    <3>1. CASE l = k
      BY <2>1, <3>1
    <3>2. CASE l # k
      BY <1>a, <2>1, <3>2, Zenon
    <3> QED
      BY <3>1, <3>2, Zenon
  <2> QED
    BY <1>0, <2>1, <2>2, Zenon DEF BatchOrder
<1> QED
  BY <1>1, <1>2, <1>3, <1>4, Zenon

\* Broadcast gets an event that no stamped or open batch has handed out.
LEMMA DispatchEffect ==
  ASSUME IInv, IdInv, BatchOrder, NEW k \in Relays, Dispatch(k)
  PROVE  \E x \in outbox :
           /\ x = claim[k][handed[k] + 1] /\ handed[k] + 1 \in DOMAIN claim[k] /\ ~Passed(x)
           /\ \A e \in outbox : Passed(e)' <=> Passed(e) \/ e = x
           /\ \/ log' = Append(log, x) /\ faults' = faults
              \/ design = "naive" /\ log' = log /\ faults' = faults + 1
<1>0. /\ claim \in [Relays -> Seq(outbox)] /\ handed \in [Relays -> Nat] /\ claim[k] \in Seq(outbox)
      /\ handed[k] \in Nat
  BY Zenon DEF IInv, BatchInv
<1>1. /\ handed[k] < Len(claim[k]) /\ claim' = claim /\ dispatched' = dispatched
      /\ \A l \in Relays : handed'[l] = IF l = k THEN handed[k] + 1 ELSE handed[l]
      /\ \/ log' = Append(log, claim[k][handed[k] + 1]) /\ faults' = faults
         \/ design = "naive" /\ log' = log /\ faults' = faults + 1
  BY <1>0, Zenon DEF Dispatch, Fault
<1>2. handed[k] + 1 \in DOMAIN claim[k] /\ \A i \in 1 .. handed[k] : i \in DOMAIN claim[k] /\ i < handed[k] + 1
  BY <1>0, <1>1
<1>3. PICK x \in outbox : x = claim[k][handed[k] + 1]
  BY <1>0, <1>2
<1>4. ~Passed(x)
  <2>1. x.id \notin dispatched
    BY <1>2, <1>3, Zenon DEF BatchOrder
  <2>2. ASSUME NEW i \in 1 .. handed[k] PROVE claim[k][i] # x
    <3>1. claim[k][i].id < x.id
      BY <1>2, <1>3, Zenon DEF BatchOrder
    <3>2. x.id \in Nat
      BY DEF IdInv, EventIds
    <3> QED
      BY <3>1, <3>2
  <2>3. ASSUME NEW l \in Relays, l # k, NEW i \in 1 .. handed[l] PROVE claim[l][i] # x
    <3>1. i \in DOMAIN claim[l]
      BY <1>0 DEF BatchOrder
    <3> QED
      BY <1>2, <1>3, <2>3, <3>1, Zenon DEF IInv, ClaimsDisjoint, Range
  <2> QED
    BY <2>1, <2>2, <2>3, Zenon DEF Passed
<1>5. ASSUME NEW e \in outbox PROVE Passed(e)' <=> Passed(e) \/ e = x
  <2>1. 1 .. handed'[k] = 1 .. handed[k] \cup {handed[k] + 1}
    BY <1>0, <1>1
  <2>2. (\E i \in 1 .. handed'[k] : claim[k][i] = e) <=> e = x \/ \E i \in 1 .. handed[k] : claim[k][i] = e
    BY <1>3, <2>1, Zenon
  <2> QED
    BY <1>1, <2>2, Zenon DEF Passed
<1> QED
  BY <1>1, <1>2, <1>3, <1>4, <1>5, Zenon

\* A batch ends: when it is stamped what it handed out stays handed out.
LEMMA BatchEnds ==
  ASSUME IInv, IdInv, BatchOrder, NEW k \in Relays, CommitBatch(k) \/ AbortBatch(k), NEW e \in outbox
  PROVE  /\ Passed(e)' => Passed(e)
         /\ CommitBatch(k) => (Passed(e) => Passed(e)')
<1>0. /\ claim \in [Relays -> Seq(outbox)] /\ handed \in [Relays -> Nat] /\ claim[k] \in Seq(outbox)
      /\ handed[k] \in Nat
  BY Zenon DEF IInv, BatchInv
<1>1. \A l \in Relays : /\ claim'[l] = IF l = k THEN <<>> ELSE claim[l]
                        /\ handed'[l] = IF l = k THEN 0 ELSE handed[l]
  BY <1>0, Zenon DEF CommitBatch, AbortBatch
<1>2. (\E l \in Relays : \E i \in 1 .. handed'[l] : claim'[l][i] = e)
        <=> \E l \in Relays \ {k} : \E i \in 1 .. handed[l] : claim[l][i] = e
  BY <1>1
<1>3. CASE CommitBatch(k)
  <2>1. dispatched' = dispatched \cup {d.id : d \in Range(claim[k])} /\ handed[k] = Len(claim[k])
    BY <1>3, Zenon DEF CommitBatch
  <2>2. e.id \in {d.id : d \in Range(claim[k])} <=> \E i \in 1 .. handed[k] : claim[k][i] = e
    <3>1. Range(claim[k]) \subseteq outbox
      BY <1>0 DEF Range
    <3>2. e.id \in {d.id : d \in Range(claim[k])} <=> e \in Range(claim[k])
      BY <3>1, Zenon DEF IdInv, EventIds
    <3>3. DOMAIN claim[k] = 1 .. handed[k]
      BY <1>0, <2>1
    <3> QED
      BY <3>2, <3>3, Zenon DEF Range
  <2> QED
    BY <1>2, <2>1, <2>2, Zenon DEF Passed
<1>4. CASE AbortBatch(k)
  <2>1. dispatched' = dispatched
    BY <1>4, Zenon DEF AbortBatch
  <2> QED
    BY <1>2, <1>3, <2>1, Zenon DEF Passed
<1> QED
  BY <1>3, <1>4, Zenon

\* A new batch has handed out nothing.
LEMMA BatchStarts ==
  ASSUME IInv, BatchOrder, NEW k \in Relays, Claim(k), NEW e \in outbox
  PROVE  Passed(e)' <=> Passed(e)
<1>1. dispatched' = dispatched /\ handed' = handed /\ claim[k] = <<>>
  BY Zenon DEF Claim
<1>2. handed[k] = 0
  BY <1>1 DEF BatchOrder, IInv, BatchInv
<1>3. \A l \in Relays \ {k} : claim'[l] = claim[l]
  BY Zenon DEF Claim, IInv, BatchInv
<1>4. (\E l \in Relays : \E i \in 1 .. handed'[l] : claim'[l][i] = e)
        <=> \E l \in Relays : \E i \in 1 .. handed[l] : claim[l][i] = e
  BY <1>1, <1>2, <1>3
<1> QED
  BY <1>1, <1>4, Zenon DEF Passed

-----------------------------------------------------------------------------
\* The places of an event in the log are finitely many.
LEMMA CopiesType ==
  ASSUME BatchInv, NEW e
  PROVE  IsFiniteSet({i \in DOMAIN log : log[i] = e}) /\ Copies(e) \in Nat
<1>1. Len(log) \in Nat /\ DOMAIN log = 1 .. Len(log)
  BY DEF BatchInv
<1>2. IsFiniteSet(1 .. Len(log))
  BY <1>1, FS_Interval
<1>3. IsFiniteSet({i \in DOMAIN log : log[i] = e})
  BY <1>1, <1>2, FS_Subset, Zenon
<1> QED
  BY <1>3, FS_CardinalityType, Zenon DEF Copies

\* Delivering x adds a copy of x and of nothing else.
LEMMA CopiesAppend ==
  ASSUME BatchInv, NEW x \in outbox, log' = Append(log, x), NEW e
  PROVE  Copies(e)' = Copies(e) + IF e = x THEN 1 ELSE 0
<1> DEFINE n == Len(log) + 1
           A == {i \in DOMAIN log : log[i] = e}
           B == {i \in DOMAIN log' : log'[i] = e}
<1>1. /\ log \in Seq(outbox) /\ Len(log) \in Nat /\ DOMAIN log = 1 .. Len(log)
  BY DEF BatchInv
<1>2. /\ DOMAIN log' = 1 .. n /\ log'[n] = x
      /\ \A i \in 1 .. Len(log) : log'[i] = log[i]
  BY <1>1
<1>3. IsFiniteSet(A) /\ Cardinality(A) \in Nat
  BY CopiesType, Zenon DEF Copies
<1>4. n \notin A
  BY <1>1
<1>5. 1 .. n = 1 .. Len(log) \cup {n}
  BY <1>1
<1>6. CASE e = x
  <2>1. \A i \in DOMAIN log : log'[i] = e <=> i \in A
    BY <1>1, <1>2, Zenon
  <2>2. DOMAIN log' = DOMAIN log \cup {n} /\ log'[n] = e
    BY <1>1, <1>2, <1>5, <1>6, Zenon
  <2>3. B = A \cup {n}
    <3> HIDE DEF n
    <3> QED
      BY <2>1, <2>2, Zenon
  <2>4. Cardinality(A \cup {n}) = Cardinality(A) + 1
    <3> HIDE DEF A, n
    <3> QED
      BY <1>3, <1>4, FS_AddElement, Zenon
  <2> QED
    BY <1>6, <2>3, <2>4, Zenon DEF Copies
<1>7. CASE e # x
  <2>1. B = A
    BY <1>1, <1>2, <1>5, <1>7, Zenon
  <2>2. Copies(e)' = Copies(e) /\ Copies(e) \in Nat
    BY <2>1, CopiesType, Zenon DEF Copies
  <2> QED
    BY <1>7, <2>2
<1> QED
  BY <1>6, <1>7, Zenon

LEMMA LogGrows ==
  ASSUME BatchInv, NEW x \in outbox, log' = Append(log, x)
  PROVE  Range(log) \subseteq Range(log') /\ x \in Range(log')
<1>1. log \in Seq(outbox) /\ Len(log) \in Nat /\ DOMAIN log = 1 .. Len(log)
  BY DEF BatchInv
<1>2. /\ DOMAIN log' = 1 .. Len(log) + 1 /\ log'[Len(log) + 1] = x
      /\ \A i \in 1 .. Len(log) : i \in 1 .. Len(log) + 1 /\ log'[i] = log[i]
      /\ Len(log) + 1 \in 1 .. Len(log) + 1
  BY <1>1
<1> QED
  BY <1>1, <1>2, Zenon DEF Range

LEMMA RepeatsStep ==
  ASSUME IInv, IdInv, BatchOrder, Repeats, NEW k \in Relays,
         Claim(k) \/ Dispatch(k) \/ CommitBatch(k) \/ AbortBatch(k)
  PROVE  Repeats'
<1>0. BatchInv /\ faults \in Nat /\ outbox' = outbox
  BY Zenon DEF IInv, IdInv, EventIds, Claim, Dispatch, CommitBatch, AbortBatch, writers
<1> SUFFICES ASSUME NEW e \in outbox
             PROVE  Copies(e)' <= faults' + IF Passed(e)' THEN 1 ELSE 0
  BY <1>0, Zenon DEF Repeats
<1>a. Copies(e) \in Nat /\ Copies(e) <= faults + IF Passed(e) THEN 1 ELSE 0
  BY <1>0, CopiesType, Zenon DEF Repeats
<1>b. log' = log => Copies(e)' = Copies(e)
  BY Zenon DEF Copies
<1>1. CASE Claim(k)
  <2>1. log' = log /\ faults' = faults
    BY <1>1, Zenon DEF Claim
  <2>2. Passed(e)' <=> Passed(e)
    BY <1>1, BatchStarts, Zenon
  <2> QED
    BY <1>a, <1>b, <2>1, <2>2, Zenon
<1>2. CASE Dispatch(k)
  <2>1. PICK x \in outbox :
           /\ ~Passed(x) /\ (Passed(e)' <=> Passed(e) \/ e = x)
           /\ \/ log' = Append(log, x) /\ faults' = faults
              \/ log' = log /\ faults' = faults + 1
    BY <1>2, DispatchEffect, Zenon
  <2>2. CASE log' = Append(log, x) /\ faults' = faults
    <3>1. Copies(e)' = Copies(e) + IF e = x THEN 1 ELSE 0
      BY <1>0, <2>2, CopiesAppend, Zenon
    <3> QED
      BY <1>0, <1>a, <2>1, <2>2, <3>1
  <2>3. CASE log' = log /\ faults' = faults + 1
    BY <1>0, <1>a, <1>b, <2>1, <2>3
  <2> QED
    BY <2>1, <2>2, <2>3, Zenon
<1>3. CASE CommitBatch(k)
  <2>1. log' = log /\ faults' = faults
    BY <1>3, Zenon DEF CommitBatch
  <2>2. Passed(e)' <=> Passed(e)
    BY <1>3, BatchEnds, Zenon
  <2> QED
    BY <1>a, <1>b, <2>1, <2>2, Zenon
<1>4. CASE AbortBatch(k)
  <2>1. log' = log /\ faults' = faults + 1
    BY <1>4, Zenon DEF AbortBatch, Fault
  <2> QED
    BY <1>0, <1>a, <1>b, <2>1
<1> QED
  BY <1>1, <1>2, <1>3, <1>4, Zenon

\* No more is lost than before.
LEMMA LostShrinks ==
  ASSUME LostInv, Lost' \subseteq Lost, Allowed \in Nat, Allowed' \in Nat, Allowed <= Allowed'
  PROVE  LostInv'
<1>1. IsFiniteSet(Lost') /\ Cardinality(Lost') <= Cardinality(Lost)
  BY FS_Subset, Zenon DEF LostInv
<1>2. Cardinality(Lost) \in Nat /\ Cardinality(Lost') \in Nat
  BY <1>1, FS_CardinalityType, Zenon DEF LostInv
<1>3. Cardinality(Lost') <= Allowed'
  BY <1>1, <1>2 DEF LostInv
<1> QED
  BY <1>1, <1>3, Zenon DEF LostInv

LEMMA LostStep ==
  ASSUME IInv, IdInv, BatchOrder, LostInv, NEW k \in Relays,
         Claim(k) \/ Dispatch(k) \/ CommitBatch(k) \/ AbortBatch(k)
  PROVE  LostInv'
<1>0. BatchInv /\ faults \in Nat /\ outbox' = outbox /\ design' = design
  BY Zenon DEF IInv, IdInv, EventIds, Claim, Dispatch, CommitBatch, AbortBatch, writers
<1>a. Allowed \in Nat /\ (faults' = faults \/ faults' = faults + 1 => Allowed' \in Nat /\ Allowed <= Allowed')
  BY <1>0 DEF Allowed
<1>1. ASSUME Claim(k) \/ CommitBatch(k) \/ AbortBatch(k) PROVE LostInv'
  <2>1. log' = log /\ (faults' = faults \/ faults' = faults + 1)
    BY <1>1, Zenon DEF Claim, CommitBatch, AbortBatch, Fault
  <2>2. \A e \in outbox : Passed(e)' => Passed(e)
    BY <1>1, BatchStarts, BatchEnds, Zenon
  <2>3. Lost' \subseteq Lost
    BY <1>0, <2>1, <2>2, Zenon DEF Lost
  <2> QED
    BY <1>a, <2>1, <2>3, LostShrinks, Zenon
<1>2. CASE Dispatch(k)
  <2>1. PICK x \in outbox :
           /\ \A e \in outbox : Passed(e)' <=> Passed(e) \/ e = x
           /\ \/ log' = Append(log, x) /\ faults' = faults
              \/ design = "naive" /\ log' = log /\ faults' = faults + 1
    BY <1>2, DispatchEffect, Zenon
  <2>2. CASE log' = Append(log, x) /\ faults' = faults
    <3>1. Range(log) \subseteq Range(log') /\ x \in Range(log')
      BY <1>0, <2>2, LogGrows, Zenon
    <3>2. Lost' \subseteq Lost
      BY <1>0, <2>1, <3>1, Zenon DEF Lost
    <3> QED
      BY <1>a, <2>2, <3>2, LostShrinks
  <2>3. CASE design = "naive" /\ log' = log /\ faults' = faults + 1
    <3>1. Lost' \subseteq Lost \cup {x}
      BY <1>0, <2>1, <2>3, Zenon DEF Lost
    <3>a. IsFiniteSet(Lost)
      BY Zenon DEF LostInv
    <3>b. \/ Cardinality(Lost \cup {x}) = Cardinality(Lost)
          \/ Cardinality(Lost \cup {x}) = Cardinality(Lost) + 1
      BY <3>a, FS_AddElement, Zenon
    <3>2. /\ IsFiniteSet(Lost \cup {x}) /\ Cardinality(Lost) \in Nat
          /\ Cardinality(Lost \cup {x}) \in Nat /\ Cardinality(Lost \cup {x}) <= Cardinality(Lost) + 1
      BY <3>a, <3>b, FS_AddElement, FS_CardinalityType
    <3>3. /\ IsFiniteSet(Lost') /\ Cardinality(Lost') \in Nat
          /\ Cardinality(Lost') <= Cardinality(Lost \cup {x})
      BY <3>1, <3>2, FS_Subset, FS_CardinalityType, Zenon
    <3>4. Cardinality(Lost) <= faults /\ Allowed' = faults + 1
      BY <1>0, <2>3, Zenon DEF LostInv, Allowed
    <3> QED
      BY <1>0, <3>2, <3>3, <3>4 DEF LostInv
  <2> QED
    BY <2>1, <2>2, <2>3, Zenon
<1> QED
  BY <1>1, <1>2, Zenon

\* In single-instance whatever was handed out is in the log.
LEMMA NoneLost ==
  ASSUME LostInv, design = "single", NEW e \in outbox, Passed(e)
  PROVE  e \in Range(log)
<1>1. IsFiniteSet(Lost) /\ Cardinality(Lost) \in Nat /\ Cardinality(Lost) <= 0
  BY FS_CardinalityType, Zenon DEF LostInv, Allowed
<1>2. Lost = {}
  BY <1>1, FS_EmptySet
<1> QED
  BY <1>2, Zenon DEF Lost

\* With one relay the order of the ids is the order of delivery: what was sent before
\* an event of a batch is stamped or ahead of it in the batch.
LEMMA SenderStep ==
  ASSUME IInv, IdInv, BatchOrder, LostInv, SenderInv, NEW k \in Relays,
         Claim(k) \/ Dispatch(k) \/ CommitBatch(k) \/ AbortBatch(k)
  PROVE  SenderInv'
<1>0. BatchInv /\ outbox' = outbox /\ design' = design
  BY Zenon DEF IInv, Claim, Dispatch, CommitBatch, AbortBatch, writers
<1>a. /\ log \in Seq(outbox) /\ claim \in [Relays -> Seq(outbox)] /\ handed[k] \in Nat
      /\ Len(log) \in Nat /\ DOMAIN log = 1 .. Len(log)
  BY <1>0 DEF BatchInv
<1>b. CASE design # "single"
  BY <1>0, <1>b, Zenon DEF SenderInv
<1>c. CASE design = "single"
  <2> DEFINE Follows(l, n, d) == d \in Range(log) \/ \E p \in 1 .. n - 1 : claim[l][p] = d
  <2>1. /\ \A l \in Relays \ Running : claim[l] = <<>>
        /\ \A j \in DOMAIN log : \A d \in outbox : Sent(d, log[j]) => Earlier(d, j)
        /\ \A l \in Relays : \A n \in DOMAIN claim[l] : \A d \in outbox :
             Sent(d, claim[l][n]) => Follows(l, n, d)
    BY <1>c, Zenon DEF SenderInv
  <2>2. Running' = Running
    BY <1>0, Zenon DEF Running
  <2>3. CASE Claim(k)
    <3>1. PICK b \in Seq(outbox) :
           /\ Range(b) \subseteq Pending
           /\ \A i, j \in DOMAIN b : i < j => b[i].id < b[j].id
           /\ \A e \in Pending : \A i \in DOMAIN b : b[i].id < e.id \/ e \in Range(b)
           /\ claim'[k] = b /\ \A l \in Relays \ {k} : claim'[l] = claim[l]
      BY <2>3, ClaimEffect, Zenon
    <3>2. k \in Running /\ claim[k] = <<>> /\ log' = log
      BY <2>3, Zenon DEF Claim
    <3>3. \A l \in Relays : l = k \/ l \notin Running
      BY <1>c, <3>2, Zenon DEF Running
    <3>4. Range(<<>>) = {}
      BY DEF Range
    <3>5. \A l \in Relays : Range(claim[l]) = {}
      BY <2>1, <3>2, <3>3, <3>4, Zenon
    <3>6. \A e \in outbox : e \in Pending \/ e.id \in dispatched
      BY <3>5, Zenon DEF Pending, Locked
    <3>7. ASSUME NEW n \in DOMAIN b, NEW d \in outbox, Sent(d, b[n])
          PROVE  d \in Range(log) \/ \E p \in 1 .. n - 1 : b[p] = d
      <4>1. b[n] \in outbox /\ n \in Nat /\ DOMAIN b = 1 .. Len(b)
        BY <3>1
      <4>2. d.id < b[n].id /\ d.id \in Nat /\ b[n].id \in Nat
        BY <3>7, <4>1 DEF IdInv, EventIds
      <4>3. CASE d.id \in dispatched
        BY <1>c, <4>3, NoneLost, Zenon DEF Passed
      <4>4. CASE d \in Pending
        <5>1. d \in Range(b)
          BY <3>1, <4>2, <4>4
        <5>2. PICK p \in DOMAIN b : b[p] = d
          BY <5>1, Zenon DEF Range
        <5>3. p # n /\ ~(n < p)
          BY <3>1, <4>2, <5>2
        <5> QED
          BY <4>1, <5>2, <5>3
      <4> QED
        BY <3>6, <4>3, <4>4, Zenon
    <3>8. \A l \in Relays : l # k => DOMAIN claim'[l] = {}
      BY <2>1, <3>1, <3>3
    <3>9. \A l \in Relays \ Running : claim'[l] = <<>>
      BY <2>1, <3>1, <3>2, Zenon
    <3>10. \A l \in Relays : \A n \in DOMAIN claim'[l] : \A d \in outbox :
             Sent(d, claim'[l][n]) => d \in Range(log) \/ \E p \in 1 .. n - 1 : claim'[l][p] = d
      BY <3>1, <3>7, <3>8
    <3> QED
      BY <1>0, <2>1, <2>2, <3>2, <3>9, <3>10 DEF SenderInv, Sent, Earlier
  <2>4. CASE Dispatch(k)
    <3>1. PICK x \in outbox :
           /\ x = claim[k][handed[k] + 1] /\ handed[k] + 1 \in DOMAIN claim[k]
           /\ log' = Append(log, x)
      BY <1>c, <2>4, DispatchEffect, Zenon
    <3>2. claim' = claim
      BY <2>4 DEF Dispatch
    <3>3. /\ DOMAIN log' = 1 .. Len(log) + 1 /\ log'[Len(log) + 1] = x
          /\ \A i \in 1 .. Len(log) : log'[i] = log[i]
      BY <1>a, <3>1
    <3>4. Range(log) \subseteq Range(log')
      BY <1>0, <3>1, LogGrows, Zenon
    <3>5. ASSUME NEW d \in outbox, Sent(d, x) PROVE d \in Range(log)
      <4>1. d \in Range(log) \/ \E p \in 1 .. (handed[k] + 1) - 1 : claim[k][p] = d
        BY <2>1, <3>1, <3>5
      <4>2. 1 .. (handed[k] + 1) - 1 = 1 .. handed[k]
        BY <1>a
      <4>3. CASE \E p \in 1 .. handed[k] : claim[k][p] = d
        BY <1>c, <4>3, NoneLost, Zenon DEF Passed
      <4> QED
        BY <4>1, <4>2, <4>3, Zenon
    <3>6. ASSUME NEW j \in DOMAIN log', NEW d \in outbox, Sent(d, log'[j])
          PROVE  \E i \in 1 .. j - 1 : log'[i] = d
      <4>1. CASE j \in 1 .. Len(log)
        <5>1. Earlier(d, j)
          BY <1>a, <2>1, <3>3, <3>6, <4>1
        <5>2. \A i \in 1 .. j - 1 : i \in 1 .. Len(log)
          BY <1>a, <4>1
        <5> QED
          BY <3>3, <5>1, <5>2, Zenon DEF Earlier
      <4>2. CASE j = Len(log) + 1
        <5>1. Sent(d, x)
          BY <3>3, <3>6, <4>2, Zenon
        <5>2. d \in Range(log)
          BY <3>5, <5>1, Zenon
        <5>3. 1 .. j - 1 = 1 .. Len(log)
          BY <1>a, <4>2
        <5> QED
          BY <1>a, <3>3, <5>2, <5>3, Zenon DEF Range
      <4>3. j \in 1 .. Len(log) + 1
        BY <3>3, Zenon
      <4>4. j \in 1 .. Len(log) \/ j = Len(log) + 1
        BY <1>a, <4>3
      <4> QED
        BY <4>1, <4>2, <4>4, Zenon
    <3>7. \A l \in Relays : \A n \in DOMAIN claim[l] : \A d \in outbox :
             Sent(d, claim[l][n]) => d \in Range(log') \/ \E p \in 1 .. n - 1 : claim[l][p] = d
      BY <2>1, <3>4
    <3> QED
      BY <1>0, <2>1, <2>2, <3>2, <3>6, <3>7 DEF SenderInv, Sent, Earlier
  <2>5. CASE CommitBatch(k) \/ AbortBatch(k)
    <3>1. log' = log /\ \A l \in Relays : claim'[l] = IF l = k THEN <<>> ELSE claim[l]
      BY <1>a, <2>5, Zenon DEF CommitBatch, AbortBatch
    <3>2. \A l \in Relays \ Running : claim'[l] = <<>>
      BY <2>1, <3>1
    <3>3. \A l \in Relays : \A n \in DOMAIN claim'[l] : \A d \in outbox :
             Sent(d, claim'[l][n]) => d \in Range(log) \/ \E p \in 1 .. n - 1 : claim'[l][p] = d
      BY <2>1, <3>1
    <3> QED
      BY <1>0, <2>1, <2>2, <3>1, <3>2, <3>3 DEF SenderInv, Sent, Earlier
  <2> QED
    BY <2>3, <2>4, <2>5, Zenon
<1> QED
  BY <1>b, <1>c, Zenon

\* What the writers do: events are added that were not there and that were sent before
\* no event that was.
WritersAdd ==
  /\ outbox \subseteq outbox' /\ faults' \in Nat /\ faults <= faults'
  /\ \A d \in outbox' \ outbox : \A e \in outbox : d.id # e.id /\ ~Sent(d, e)

\* A new event is in no batch and in no delivery, and nothing waits for it.
LEMMA AddedEvents ==
  ASSUME OInv, RelaysRest, WritersAdd
  PROVE  BatchOrder' /\ Repeats' /\ LostInv' /\ SenderInv'
<1>0. /\ BatchInv /\ BatchOrder /\ faults \in Nat /\ Repeats /\ LostInv /\ SenderInv
      /\ log \in Seq(outbox) /\ claim \in [Relays -> Seq(outbox)] /\ handed \in [Relays -> Nat]
  BY Zenon DEF OInv, IInv, BatchInv, IdInv, EventIds
<1>1. /\ \A j \in DOMAIN log : log[j] \in outbox
      /\ \A k \in Relays : \A i \in DOMAIN claim[k] : claim[k][i] \in outbox
      /\ \A k \in Relays : \A i \in 1 .. handed[k] : i \in DOMAIN claim[k]
  BY <1>0 DEF BatchOrder
<1>2. BatchOrder'
  BY <1>0, Zenon DEF BatchOrder, RelaysRest, WritersAdd
<1>3. \A e : (Passed(e)' <=> Passed(e)) /\ Copies(e)' = Copies(e)
  BY Zenon DEF Passed, Copies, RelaysRest
<1>4. ASSUME NEW e \in outbox' \ outbox PROVE ~Passed(e) /\ Copies(e) = 0
  <2>1. e.id \notin dispatched
    BY <1>0, Zenon DEF BatchOrder, WritersAdd
  <2>2. ~Passed(e)
    BY <1>1, <2>1, Zenon DEF Passed
  <2>3. {i \in DOMAIN log : log[i] = e} = {}
    BY <1>1, Zenon
  <2> QED
    BY <2>2, <2>3, FS_EmptySet, Zenon DEF Copies
<1>5. Repeats'
  <2> SUFFICES ASSUME NEW e \in outbox' PROVE Copies(e)' <= faults' + IF Passed(e)' THEN 1 ELSE 0
    BY Zenon DEF Repeats
  <2>1. CASE e \in outbox
    <3>1. Copies(e) \in Nat /\ Copies(e) <= faults + IF Passed(e) THEN 1 ELSE 0
      BY <1>0, <2>1, CopiesType, Zenon DEF Repeats
    <3> QED
      BY <1>0, <1>3, <3>1 DEF WritersAdd
  <2>2. CASE e \notin outbox
    BY <1>3, <1>4, <2>2 DEF WritersAdd
  <2> QED
    BY <2>1, <2>2
<1>6. LostInv'
  <2>1. Lost' \subseteq Lost
    BY <1>3, <1>4, Zenon DEF Lost, RelaysRest, Range
  <2>2. Allowed \in Nat /\ Allowed' \in Nat /\ Allowed <= Allowed'
    BY <1>0 DEF Allowed, RelaysRest, WritersAdd
  <2> QED
    BY <1>0, <2>1, <2>2, LostShrinks
<1>7. SenderInv'
  <2>1. Running' = Running
    BY DEF Running, RelaysRest
  <2>2. \A e \in outbox : \A d \in outbox' : Sent(d, e) => d \in outbox
    BY Zenon DEF WritersAdd
  <2> SUFFICES ASSUME design = "single" PROVE SenderInv'
    BY Zenon DEF SenderInv, RelaysRest
  <2>3. \A j \in DOMAIN log : \A d \in outbox' : Sent(d, log[j]) => Earlier(d, j)
    BY <1>0, <1>1, <2>2 DEF SenderInv
  <2>4. \A k \in Relays : \A n \in DOMAIN claim[k] : \A d \in outbox' :
          Sent(d, claim[k][n]) => d \in Range(log) \/ \E p \in 1 .. n - 1 : claim[k][p] = d
    BY <1>0, <1>1, <2>2 DEF SenderInv
  <2>5. \A k \in Relays \ Running : claim[k] = <<>>
    BY <1>0 DEF SenderInv
  <2> QED
    BY <2>1, <2>3, <2>4, <2>5 DEF SenderInv, RelaysRest, Sent, Earlier
<1> QED
  BY <1>2, <1>5, <1>6, <1>7

LEMMA WriterAdds ==
  ASSUME OInv, NEW w \in Writers,
         InsertMessage(w) \/ EnqueueOutbox(w) \/ CommitMessage(w) \/ AbortMessage(w)
  PROVE  RelaysRest /\ WritersAdd
<1>0. IInv /\ IdInv /\ EventIds /\ TxIds(w) /\ faults \in Nat
  BY Zenon DEF OInv, IdInv, EventIds
<1>1. RelaysRest
  BY DEF InsertMessage, EnqueueOutbox, CommitMessage, AbortMessage, relays, RelaysRest
<1>2. faults' \in Nat /\ faults <= faults'
  BY <1>0 DEF InsertMessage, EnqueueOutbox, CommitMessage, AbortMessage, Fault
<1>3. outbox' = outbox \/ outbox' = outbox \cup open[w].event
  BY Zenon DEF InsertMessage, EnqueueOutbox, CommitMessage, AbortMessage
<1>4. ASSUME NEW d \in open[w].event, NEW e \in outbox PROVE d.id # e.id /\ ~Sent(d, e)
  <2>1. d.id # e.id /\ d.message \in open[w].message
    BY <1>0, Zenon DEF TxIds
  <2>2. d.message.writer = w /\ d.message.id \in Nat /\ e.message.id \in Nat
    BY <1>0, <2>1 DEF TxIds, EventIds
  <2>3. e.message.writer = w => e.message.id < d.message.id
    BY <1>0, <2>1, Zenon DEF TxIds
  <2> QED
    BY <2>1, <2>2, <2>3 DEF Sent
<1> QED
  BY <1>1, <1>2, <1>3, <1>4, Zenon DEF WritersAdd

\* A step that changes no row and no failure keeps the ids.
LEMMA SameIds ==
  ASSUME IdInv, faults' \in Nat, UNCHANGED <<lastMessage, lastEvent, messages, outbox, open>>
  PROVE  IdInv'
<1>1. EventIds'
  BY Zenon DEF IdInv, EventIds, Sent
<1>2. \A w \in Writers : TxIds(w)'
  BY DEF IdInv, TxIds
<1> QED
  BY <1>1, <1>2, Zenon DEF IdInv

\* A restart is a failure, and takes back at most the last copy of each open batch.
LEMMA RestartAll ==
  ASSUME OInv, Restart PROVE OInv'
<1>0. IInv' /\ IInv /\ IdInv /\ BatchOrder /\ Repeats /\ LostInv /\ SenderInv /\ faults \in Nat
  BY RestartStep, Zenon DEF OInv, IdInv, EventIds
<1>1. IdInv'
  <2>1. EventIds'
    BY <1>0, RestartEffect DEF IdInv, EventIds, Sent
  <2> QED
    BY <2>1, RestartEffect, NoRows, Zenon DEF IdInv
<1>2. BatchOrder'
  BY <1>0, RestartEffect DEF BatchOrder
<1>3. \A e \in outbox : Passed(e)' => Passed(e)
  <2>1. \A k \in Relays : 1 .. handed'[k] = {}
    BY RestartEffect
  <2> QED
    BY <2>1, RestartEffect, Zenon DEF Passed
<1>4. Repeats'
  <2> SUFFICES ASSUME NEW e \in outbox PROVE Copies(e)' <= faults' + IF Passed(e)' THEN 1 ELSE 0
    BY RestartEffect, Zenon DEF Repeats
  <2>1. Copies(e) \in Nat /\ Copies(e) <= faults + IF Passed(e) THEN 1 ELSE 0
    BY <1>0, CopiesType, Zenon DEF IInv, Repeats
  <2>2. Copies(e)' = Copies(e)
    BY RestartEffect, Zenon DEF Copies
  <2>3. faults' = faults + 1
    BY RestartEffect, Zenon
  <2> QED
    BY <1>0, <2>1, <2>2, <2>3
<1>5. LostInv'
  <2>1. Lost' \subseteq Lost
    BY <1>3, RestartEffect, Zenon DEF Lost
  <2>2. Allowed = 0 /\ Allowed' = 0
    BY RestartEffect, Zenon DEF Allowed
  <2> QED
    BY <1>0, <2>1, <2>2, LostShrinks
<1>6. SenderInv'
  <2>1. /\ \A k \in Relays : claim'[k] = <<>> /\ DOMAIN claim'[k] = {}
        /\ outbox' = outbox /\ log' = log /\ design = "single"
    BY RestartEffect
  <2>2. \A j \in DOMAIN log : \A d \in outbox : Sent(d, log[j]) => Earlier(d, j)
    BY <1>0, <2>1, Zenon DEF SenderInv
  <2> QED
    BY <2>1, <2>2, Zenon DEF SenderInv, Sent, Earlier
<1> QED
  BY <1>0, <1>1, <1>2, <1>4, <1>5, <1>6, Zenon DEF OInv

LEMMA OInit == Init => OInv
<1> SUFFICES ASSUME Init PROVE OInv
  BY Zenon
<1>1. IInv
  BY InitInv, Zenon
<1>2. IdInv
  <2>1. IsFiniteSet(messages)
    BY FS_EmptySet, Zenon DEF Init
  <2> QED
    BY <2>1, Zenon DEF Init, IdInv, EventIds, TxIds, NoTx
<1>3. BatchOrder /\ Repeats
  BY DEF Init, BatchOrder, Repeats
<1>4. LostInv
  <2>1. Lost = {}
    BY Zenon DEF Init, Lost
  <2>2. Allowed = 0
    BY Zenon DEF Init, Allowed
  <2> QED
    BY <2>1, <2>2, FS_EmptySet DEF LostInv
<1>5. SenderInv
  BY Zenon DEF Init, SenderInv
<1> QED
  BY <1>1, <1>2, <1>3, <1>4, <1>5 DEF OInv

LEMMA OStep == OInv /\ [Next]_vars => OInv'
<1> SUFFICES ASSUME OInv, [Next]_vars PROVE OInv'
  BY Zenon
<1>0. IInv' /\ IInv /\ IdInv /\ BatchOrder /\ Repeats /\ LostInv /\ SenderInv /\ faults \in Nat
  BY InvStep, Zenon DEF OInv, IdInv, EventIds
<1>1. ASSUME NEW w \in Writers,
             InsertMessage(w) \/ EnqueueOutbox(w) \/ CommitMessage(w) \/ AbortMessage(w)
      PROVE  OInv'
  BY <1>0, <1>1, WriterAdds, AddedEvents, IdStep, Zenon DEF OInv
<1>2. ASSUME NEW k \in Relays, Claim(k) \/ Dispatch(k) \/ CommitBatch(k) \/ AbortBatch(k)
      PROVE  OInv'
  <2>1. UNCHANGED <<lastMessage, lastEvent, messages, outbox, open>> /\ faults' \in Nat
    <3>1. UNCHANGED <<lastMessage, lastEvent, messages, outbox, open>>
      BY <1>2, Zenon DEF Claim, Dispatch, CommitBatch, AbortBatch, writers
    <3>2. faults' = faults \/ faults' = faults + 1
      BY <1>2, Zenon DEF Claim, Dispatch, CommitBatch, AbortBatch, Fault
    <3>3. faults' \in Nat
      BY <1>0, <3>2
    <3> QED
      BY <3>1, <3>3, Zenon
  <2>2. IdInv'
    BY <1>0, <2>1, SameIds, Zenon
  <2>3. BatchOrder' /\ Repeats'
    BY <1>0, <1>2, BatchOrderStep, RepeatsStep, Zenon
  <2>4. LostInv' /\ SenderInv'
    BY <1>0, <1>2, LostStep, SenderStep, Zenon
  <2> QED
    BY <1>0, <2>2, <2>3, <2>4, Zenon DEF OInv
<1>3. ASSUME RelaysRest, faults' = faults, UNCHANGED <<lastMessage, lastEvent, messages, outbox, open>>
      PROVE  OInv'
  <2>1. IdInv' /\ WritersAdd
    BY <1>0, <1>3, SameIds DEF WritersAdd
  <2> QED
    BY <1>0, <1>3, <2>1, AddedEvents DEF OInv
<1>4. ASSUME NEW r \in Rooms, CreateRoom(r) PROVE OInv'
  BY <1>3, <1>4, Zenon DEF CreateRoom, relays, RelaysRest
<1>5. ASSUME NEW u \in Users, CreateUser(u) PROVE OInv'
  BY <1>3, <1>5, Zenon DEF CreateUser, relays, RelaysRest
<1>6. CASE UNCHANGED vars
  BY <1>3, <1>6, Zenon DEF vars, writers, relays, RelaysRest
<1>7. CASE HubSticks
  BY <1>3, <1>7, Zenon DEF HubSticks, writers, RelaysRest
<1> QED
  BY <1>1, <1>2, <1>4, <1>5, <1>6, <1>7, RestartAll, Zenon DEF Next, Step

-----------------------------------------------------------------------------
\* A set of numbers with a bound has a greatest one.
LEMMA Greatest ==
  ASSUME NEW S, S \subseteq Nat, S # {}, NEW b \in Nat, \A x \in S : x <= b
  PROVE  \E x \in S : \A y \in S : y <= x
<1> DEFINE T == {n \in Nat : b - n \in S}
           R == OpToRel(<, Nat)
<1>1. \A x \in S : b - x \in T
  OBVIOUS
<1>2. T \subseteq Nat /\ T # {}
  BY <1>1, Zenon
<1>3. PICK n \in T : \A p \in T : <<p, n>> \notin R
  <2> HIDE DEF T, R
  <2>1. IsWellFoundedOn(R, Nat)
    BY NatLessThanWellFounded, Zenon DEF R
  <2> QED
    BY <1>2, <2>1, WFMin, Zenon
<1>4. \A p \in T : ~(p < n)
  BY <1>2, <1>3, Zenon DEF OpToRel
<1>5. b - n \in S /\ \A y \in S : y <= b - n
  BY <1>1, <1>2, <1>4
<1> QED
  BY <1>5, Zenon

\* A page holds whatever is newer than one of its messages, and all there is when it
\* is not full.
LEMMA PageShape ==
  ASSUME IsFiniteSet(messages), NEW b \in Nat, \A m \in messages : m.id \in 1 .. b,
         NEW r, NEW before \in Nat, NEW m \in messages, m.room = r, before = 0 \/ m.id < before
  PROVE  /\ \A n \in Page(r, before) : n.id <= m.id => m \in Page(r, before)
         /\ Cardinality(Page(r, before)) < PageSize => m \in Page(r, before)
<1> DEFINE found == {n \in messages : n.room = r /\ (before = 0 \/ n.id < before)}
           newer(n) == {p \in found : p.id > n.id}
           page == {n \in found : Cardinality(newer(n)) < PageSize}
<1>0. Page(r, before) = page /\ PageSize \in Nat
  BY HistoryAssumption DEF Page
<1>1. found \subseteq messages /\ m \in found /\ \A n \in found : n.id \in Nat /\ n.id <= b
  OBVIOUS
<1>2. IsFiniteSet(found)
  BY <1>1, FS_Subset, Zenon
<1> HIDE DEF found
<1>3. \A n \in found : newer(n) \subseteq found /\ IsFiniteSet(newer(n)) /\ Cardinality(newer(n)) \in Nat
  BY <1>2, FS_Subset, FS_CardinalityType, Zenon
<1>4. ASSUME NEW n \in page, n.id <= m.id PROVE m \in page
  <2>1. n \in found /\ n.id \in Nat /\ m.id \in Nat
    BY <1>1, Zenon
  <2>2. newer(m) \subseteq newer(n)
    BY <1>1, <1>4, <2>1
  <2>3. Cardinality(newer(m)) <= Cardinality(newer(n))
    BY <1>3, <2>1, <2>2, FS_Subset
  <2>4. Cardinality(newer(n)) < PageSize
    BY <1>4, Zenon
  <2>5. Cardinality(newer(m)) < PageSize
    <3> HIDE DEF newer
    <3> QED
      BY <1>0, <1>1, <1>3, <2>1, <2>3, <2>4
  <2> QED
    BY <1>1, <2>5, Zenon
<1>5. ASSUME Cardinality(page) < PageSize, m \notin page PROVE FALSE
  <2> DEFINE S == {n.id : n \in found \ page}
  <2>1. S \subseteq Nat /\ m.id \in S /\ \A x \in S : x <= b
    BY <1>1, <1>5, Zenon
  <2>2. PICK x \in S : \A y \in S : y <= x
    <3> HIDE DEF S
    <3> QED
      BY <2>1, Greatest, Zenon
  <2>3. PICK n \in found \ page : n.id = x
    BY Zenon
  <2>4. \A p \in found \ page : p.id <= n.id /\ p.id \in Nat /\ n.id \in Nat
    BY <1>1, <2>2, <2>3, Zenon
  <2>5. newer(n) \subseteq page
    BY <2>4
  <2>6. page \subseteq found /\ IsFiniteSet(page)
    BY <1>2, FS_Subset, Zenon
  <2>7. Cardinality(newer(n)) <= Cardinality(page) /\ Cardinality(page) \in Nat
    <3> HIDE DEF page, newer
    <3> QED
      BY <2>5, <2>6, FS_Subset, FS_CardinalityType, Zenon
  <2>8. Cardinality(newer(n)) < PageSize
    <3> HIDE DEF page, newer
    <3> QED
      BY <1>0, <1>3, <1>5, <2>3, <2>7
  <2> QED
    BY <2>3, <2>8, Zenon
<1> QED
  BY <1>0, <1>4, <1>5, Zenon

\* The relays only append to the log.
LEMMA LogPrefix ==
  ASSUME OInv, [Next]_vars
  PROVE  /\ log \in Seq(outbox) /\ log' \in Seq(outbox')
         /\ \A i \in DOMAIN log : log'[i] = log[i]
<1>1. log \in Seq(outbox) /\ log' \in Seq(outbox') /\ IInv /\ IdInv /\ BatchOrder
  BY OStep, Zenon DEF OInv, IInv, BatchInv
<1>2. ASSUME NEW k \in Relays, Dispatch(k) PROVE \A i \in DOMAIN log : log'[i] = log[i]
  <2>1. PICK x \in outbox : log' = Append(log, x) \/ log' = log
    BY <1>1, <1>2, DispatchEffect, Zenon
  <2> QED
    BY <1>1, <2>1
<1>3. (\E k \in Relays : Dispatch(k)) \/ log' = log
  BY Zenon DEF Next, Step, CreateRoom, CreateUser, InsertMessage, EnqueueOutbox, CommitMessage,
               AbortMessage, Claim, CommitBatch, AbortBatch, HubSticks, Restart, vars, relays
<1> QED
  BY <1>1, <1>2, <1>3, Zenon

LEMMA ReaderInit == InitHistory => ReaderInv
<1> SUFFICES ASSUME InitHistory PROVE ReaderInv
  BY Zenon
<1>1. cursor \in Nat
  BY Zenon DEF InitHistory
<1>2. room = {} /\ cursor = 0 /\ done = FALSE
  BY Zenon DEF InitHistory
<1> QED
  BY <1>1, <1>2, Zenon DEF ReaderInv

\* What is handed out while the reader is there is on its way to it.
LEMMA ReaderReceives ==
  ASSUME OInv, ReaderInv, [Next]_vars, Receive
  PROVE  ReaderInv'
<1> DEFINE news == {m \in {log'[i].message : i \in Len(log) + 1 .. Len(log')} : m.room \in room}
<1>1. /\ log \in Seq(outbox) /\ log' \in Seq(outbox')
      /\ \A i \in DOMAIN log : log'[i] = log[i]
  BY LogPrefix, Zenon
<1>2. /\ room' = room /\ cursor' = cursor /\ done' = done /\ seen' = seen
      /\ live' = live \cup (news \ seen) /\ lost' = lost \ news
  BY Zenon DEF Receive
<1>3. ASSUME NEW e \in outbox', e.message.room \in room, e \in Range(log'), Behind(e.message)
      PROVE  e.message \in seen' \cup live' \cup lost'
  <2>1. PICK i \in DOMAIN log' : log'[i] = e
    BY <1>3, Zenon DEF Range
  <2>2. CASE i \in DOMAIN log
    <3>1. e \in Range(log) /\ e \in outbox
      BY <1>1, <2>1, <2>2 DEF Range
    <3>2. e.message \in seen \cup live \cup lost
      BY <1>3, <3>1, Zenon DEF ReaderInv
    <3> HIDE DEF news
    <3> QED
      BY <1>2, <3>2, Zenon
  <2>3. CASE i \notin DOMAIN log
    <3>1. i \in Len(log) + 1 .. Len(log')
      BY <1>1, <2>3
    <3>2. e.message \in news
      BY <1>3, <2>1, <3>1, Zenon
    <3> HIDE DEF news
    <3> QED
      BY <1>2, <3>2, Zenon
  <2> QED
    BY <2>2, <2>3, Zenon
<1>4. /\ cursor \in Nat /\ done \in BOOLEAN
      /\ room = {} => cursor = 0 /\ ~done
      /\ \A r, s \in room : r = s
  BY Zenon DEF ReaderInv
<1> HIDE DEF news
<1> QED
  BY <1>2, <1>3, <1>4, Zenon DEF ReaderInv, Behind

\* A message that arrives is seen, and one that does not is lost.
LEMMA ReaderGets ==
  ASSUME ReaderInv, NEW m, Deliver(m) \/ Lose(m)
  PROVE  ReaderInv'
<1>1. UNCHANGED <<outbox, log, room, cursor, done>>
  BY Zenon DEF Deliver, Lose, vars, writers, relays
<1>2. seen \cup live \cup lost \subseteq seen' \cup live' \cup lost'
  BY Zenon DEF Deliver, Lose
<1> QED
  BY <1>1, <1>2, Zenon DEF ReaderInv, Behind

\* A page takes the reader to its oldest message and misses nothing on the way.
LEMMA ReaderPages ==
  ASSUME OInv, ReaderInv, handleHistory
  PROVE  ReaderInv'
<1>0. /\ cursor \in Nat /\ \A r, s \in room : r = s
      /\ \A e \in outbox : e.message.room \in room /\ e \in Range(log) /\ Behind(e.message) =>
           e.message \in seen \cup live \cup lost
  BY Zenon DEF ReaderInv
<1>1. /\ messages = {e.message : e \in outbox} /\ lastMessage \in Nat /\ IsFiniteSet(messages)
      /\ \A e \in outbox : e.message.id \in 1 .. lastMessage
  BY Zenon DEF OInv, IInv, Stored, IdInv, EventIds
<1>2. \A m \in messages : m.id \in 1 .. lastMessage
  BY <1>1, Zenon
<1>3. outbox' = outbox /\ log' = log /\ room' = room /\ ~done
  BY Zenon DEF handleHistory, vars, writers, relays
<1>4. PICK r \in room :
        /\ seen' = seen \cup Page(r, cursor)
        /\ live' = live \ Page(r, cursor) /\ lost' = lost \ Page(r, cursor)
        /\ done' = (Cardinality(Page(r, cursor)) < PageSize)
        /\ cursor' \in IF Page(r, cursor) = {} THEN {cursor}
                      ELSE {m.id : m \in {n \in Page(r, cursor) : \A k \in Page(r, cursor) : n.id <= k.id}}
  BY Zenon DEF handleHistory
<1>5. PICK c \in Nat : c = cursor
  BY <1>0, Zenon
<1>6. PICK page : page = Page(r, c) /\ page \subseteq messages
  BY Zenon DEF Page
<1>7. \/ page = {} /\ cursor' = c
      \/ \E n \in page : cursor' = n.id
  BY <1>4, <1>5, <1>6, Zenon
<1>8. cursor' \in Nat
  BY <1>2, <1>6, <1>7
<1>9. ASSUME NEW e \in outbox, e.message.room \in room, e \in Range(log),
             done' \/ (cursor' # 0 /\ cursor' <= e.message.id)
      PROVE  e.message \in seen' \cup live' \cup lost'
  <2>1. PICK m \in messages : m = e.message /\ m.room = r /\ m.id \in Nat
    BY <1>0, <1>1, <1>2, <1>4, <1>9
  <2>2. CASE c # 0 /\ c <= m.id
    <3>1. e.message \in seen \cup live \cup lost
      BY <1>0, <1>5, <1>9, <2>1, <2>2, Zenon DEF Behind
    <3> QED
      BY <1>4, <3>1, Zenon
  <2>3. CASE ~(c # 0 /\ c <= m.id)
    <3>1. c = 0 \/ m.id < c
      BY <2>1, <2>3
    <3>2. /\ \A n \in page : n.id <= m.id => m \in page
          /\ Cardinality(page) < PageSize => m \in page
      BY <1>1, <1>2, <1>6, <2>1, <3>1, PageShape
    <3>3. CASE done'
      BY <1>4, <1>5, <1>6, <2>1, <3>2, <3>3
    <3>4. CASE cursor' # 0 /\ cursor' <= m.id
      <4>1. m \in page
        BY <1>7, <2>3, <3>2, <3>4, Zenon
      <4> QED
        BY <1>4, <1>5, <1>6, <2>1, <4>1, Zenon
    <3> QED
      BY <1>9, <2>1, <3>3, <3>4, Zenon
  <2> QED
    BY <2>2, <2>3, Zenon
<1>10. done' \in BOOLEAN /\ (room' = {} => cursor' = 0 /\ ~done')
  BY <1>3, <1>4
<1> QED
  BY <1>0, <1>3, <1>8, <1>9, <1>10 DEF ReaderInv, Behind

LEMMA HistoryStep == OInv /\ ReaderInv /\ [HistoryNext]_allVars => OInv' /\ ReaderInv'
<1> SUFFICES ASSUME OInv, ReaderInv, [HistoryNext]_allVars PROVE OInv' /\ ReaderInv'
  BY Zenon
<1>1. [Next]_vars
  BY Zenon DEF HistoryNext, Next, Read, Join, Leave, handleHistory, Deliver, Lose, allVars
<1>2. OInv'
  BY <1>1, OStep, Zenon
<1>3. ASSUME Receive PROVE ReaderInv'
  BY <1>1, <1>3, ReaderReceives, Zenon
<1>4. ASSUME NEW r \in Rooms, Join(r) PROVE ReaderInv'
  <2>1. room = {} /\ room' = {r} /\ cursor' = cursor /\ done' = done
    BY <1>4, Zenon DEF Join
  <2>2. cursor = 0 /\ ~done /\ done \in BOOLEAN
    BY <2>1, Zenon DEF ReaderInv
  <2> QED
    BY <2>1, <2>2, Zenon DEF ReaderInv, Behind
<1>5. ASSUME Gone PROVE ReaderInv'
  <2>1. room' = {} /\ cursor' = 0 /\ done' = FALSE /\ 0 \in Nat
    BY <1>5, Zenon DEF Gone
  <2> QED
    BY <2>1, Zenon DEF ReaderInv
<1>6. ASSUME handleHistory PROVE ReaderInv'
  BY <1>6, ReaderPages, Zenon
<1>7. ASSUME UNCHANGED allVars PROVE ReaderInv'
  <2>1. UNCHANGED <<outbox, log, room, cursor, seen, done, live, lost>>
    BY <1>7, Zenon DEF allVars, vars, writers, relays, reader
  <2> QED
    BY <2>1, Zenon DEF ReaderInv, Behind, Range
<1> QED
  BY <1>2, <1>3, <1>4, <1>5, <1>6, <1>7, ReaderGets, Zenon DEF HistoryNext, Read, Leave

\* A message that the reader is to miss is the message of a lost event.
LEMMA MissedIsLost ==
  ASSUME OInv, ReaderInv PROVE NothingMissed
<1> SUFFICES ASSUME done, NEW r \in room
             PROVE  Cardinality({m \in messages : m.room = r} \ (seen \cup live \cup lost \cup Undispatched)) <= Allowed
  BY Zenon DEF NothingMissed, Allowed
<1> DEFINE missed == {m \in messages : m.room = r} \ (seen \cup live \cup lost \cup Undispatched)
           image == {e.message : e \in Lost}
           f == [e \in Lost |-> e.message]
<1>1. ASSUME NEW m \in missed PROVE m \in image
  <2>1. PICK e \in outbox : m = e.message
    BY Zenon DEF OInv, IInv, Stored
  <2>2. e.id \in dispatched
    BY <2>1, Zenon DEF Undispatched
  <2>3. e \notin Range(log)
    BY <2>1, Zenon DEF ReaderInv, Behind
  <2> QED
    BY <2>1, <2>2, <2>3, Zenon DEF Lost, Passed
<1>2. IsFiniteSet(Lost) /\ Cardinality(Lost) <= Allowed /\ Allowed \in Nat
  BY Zenon DEF OInv, LostInv, Allowed, IdInv, EventIds
<1>3. f \in Surjection(Lost, image)
  BY Zenon DEF Surjection
<1>4. missed \subseteq image
  BY <1>1, Zenon
<1> HIDE DEF missed, image, f
<1>5. IsFiniteSet(image) /\ Cardinality(image) <= Cardinality(Lost)
  BY <1>2, <1>3, FS_Surjection, Zenon
<1>6. IsFiniteSet(missed) /\ Cardinality(missed) <= Cardinality(image)
  BY <1>4, <1>5, FS_Subset
<1>7. Cardinality(missed) \in Nat /\ Cardinality(image) \in Nat /\ Cardinality(Lost) \in Nat
  BY <1>2, <1>5, <1>6, FS_CardinalityType, Zenon
<1>8. Cardinality(missed) <= Allowed
  BY <1>2, <1>5, <1>6, <1>7
<1> QED
  BY <1>8, Zenon DEF missed

-----------------------------------------------------------------------------
\* Nobody sees a message that is not stored, and the history and the outbox never
\* differ: both inserts are in one transaction and a batch holds committed rows only.
THEOREM DeliveredStored == Spec => []DeliveredIsStored
<1>1. IInv => DeliveredIsStored
  BY DEF IInv, BatchInv, Stored, DeliveredIsStored, Range
<1> QED
  BY <1>1, InitInv, InvStep, PTL DEF Spec

\* Whatever relays claim at the same time, no event is in two batches.
THEOREM ClaimsStayDisjoint == Spec => []ClaimsDisjoint
<1>1. IInv => ClaimsDisjoint
  BY Zenon DEF IInv
<1> QED
  BY <1>1, InitInv, InvStep, PTL DEF Spec

\* The invariant of the outbox as a whole.
LEMMA OInvHolds == Spec => []OInv
BY OInit, OStep, PTL DEF Spec

\* However many relays claim, crash and claim again, an event is delivered at most once
\* more than there were failures: "no event is ever dispatched twice" without any.
THEOREM RepeatsBounded == Spec => []RepeatsNeedFailures
<1>1. OInv => RepeatsNeedFailures
  <2> SUFFICES ASSUME OInv, NEW e \in outbox PROVE Copies(e) <= 1 + faults
    BY Zenon DEF RepeatsNeedFailures
  <2>1. Copies(e) \in Nat /\ faults \in Nat
    BY CopiesType, Zenon DEF OInv, IInv, IdInv, EventIds
  <2>2. Copies(e) <= faults + IF Passed(e) THEN 1 ELSE 0
    BY Zenon DEF OInv, Repeats
  <2> QED
    BY <2>1, <2>2
<1> QED
  BY <1>1, OInvHolds, PTL

\* A stamp is set after the hand-off: in single-instance every stamped event was
\* delivered, in naive-scale all but as many as there were failures.
THEOREM StampsHonest == Spec => []StampedIsDelivered
<1>1. OInv => StampedIsDelivered
  <2> SUFFICES ASSUME OInv PROVE StampedIsDelivered
    BY Zenon
  <2> DEFINE S == {e \in outbox : e.id \in dispatched /\ e \notin Range(log)}
  <2>1. S \subseteq Lost
    BY Zenon DEF Lost, Passed
  <2>2. IsFiniteSet(Lost) /\ Cardinality(Lost) <= Allowed /\ Allowed \in Nat
    BY Zenon DEF OInv, LostInv, Allowed, IdInv, EventIds
  <2>3. Cardinality(S) <= Allowed
    <3> HIDE DEF S
    <3>1. IsFiniteSet(S) /\ Cardinality(S) <= Cardinality(Lost)
      BY <2>1, <2>2, FS_Subset, Zenon
    <3>2. Cardinality(S) \in Nat /\ Cardinality(Lost) \in Nat
      BY <2>2, <3>1, FS_CardinalityType, Zenon
    <3> QED
      BY <2>2, <3>1, <3>2
  <2> QED
    BY <2>3, Zenon DEF StampedIsDelivered, Allowed
<1> QED
  BY <1>1, OInvHolds, PTL

\* In single-instance the messages of a connection are delivered in the order in which
\* it sent them, whatever commits in between and whatever batch is rolled back.
THEOREM SendersInOrder == Spec => []SenderOrder
<1>1. OInv => SenderOrder
  <2>1. OInv => Range(log) \subseteq outbox
    BY DEF OInv, IInv, BatchInv, Range
  <2> QED
    BY <2>1, Zenon DEF OInv, SenderInv, SenderOrder, Sent
<1> QED
  BY <1>1, OInvHolds, PTL

\* A reader that joins and then reads the history back misses no message of its room:
\* what it has not got is on its way or not dispatched.  In naive-scale alone a failed
\* PUBLISH or a loss on the subscription takes one away.
THEOREM ReaderMissesNothing == HistorySpec => []NothingMissed
<1>1. InitHistory => OInv /\ ReaderInv
  BY OInit, ReaderInit, Zenon DEF InitHistory
<1>2. OInv /\ ReaderInv => NothingMissed
  BY MissedIsLost, Zenon
<1> QED
  BY <1>1, <1>2, HistoryStep, PTL DEF HistorySpec
=============================================================================
