------------------------- MODULE MessagePathProofs --------------------------
(***************************************************************************)
(* Proofs about the outbox relay, about delivery and about the path of a   *)
(* message through both, for any number of rooms, partitions, relays,      *)
(* members, instances, messages and failures.                              *)
(*                                                                         *)
(* Relay: every append is of a stored row whose predecessors are           *)
(* published, hence in the topic, and every other step leaves the topic    *)
(* alone; so the relays implement RoomTopic.                               *)
(*                                                                         *)
(* Delivery: any number of members may read a partition at the same time,  *)
(* each from the offset that was committed when it started.                *)
(* ClaimInv says why that skips nothing: what is behind a claim has been   *)
(* handled.  A record that is handed to an instance therefore finds all    *)
(* earlier ones of its partition there (ChannelOrder), and the topic has   *)
(* the earlier messages of its room before it (TopicOrder).                *)
(*                                                                         *)
(* Path: a step of the composition is, for each part, a step of that part  *)
(* or leaves it alone; for Delivery because the relays implement           *)
(* RoomTopic.  The invariants of the parts then hold together, and what    *)
(* they say of each other's state gives the properties from end to end.    *)
(***************************************************************************)
EXTENDS MessagePath, TLAPS

\* An entry is a pair of a room and a room_seq, and its place in the table stays
\* filled when a room gets another row.
LEMMA StoredFacts ==
  ASSUME rows \in [Rooms -> Seq(Row)]
  PROVE  /\ Stored \subseteq Entries
         /\ \A r \in Rooms, n \in Nat :
              <<r, n>> \in Stored <=> n \in 1 .. Len(rows[r])
  BY DEF Stored, Entries

LEMMA StoredGrows ==
  ASSUME rows \in [Rooms -> Seq(Row)], NEW r \in Rooms, Accepted(r)
  PROVE  /\ rows' \in [Rooms -> Seq(Row)]
         /\ Stored \subseteq Stored'
<1>1. PICK row \in Row : rows' = [rows EXCEPT ![r] = Append(@, row)]
  BY Zenon DEF Accepted
<1>2. rows' \in [Rooms -> Seq(Row)]
  BY <1>1
<1>3. \A s \in Rooms : Len(rows[s]) \in Nat /\ Len(rows'[s]) \in Nat
                       /\ Len(rows[s]) <= Len(rows'[s])
  BY <1>1
<1>4. \A s \in Rooms : 1 .. Len(rows[s]) \subseteq 1 .. Len(rows'[s])
  BY <1>3
<1>5. Stored \subseteq Stored'
  BY <1>4 DEF Stored
<1> QED BY <1>2, <1>5

LEMMA AppendSeq ==
  ASSUME NEW S, NEW s \in Seq(S), NEW e \in S, NEW t, t = s \/ t = Append(s, e)
  PROVE  /\ \A i \in 1 .. Len(s) : i \in 1 .. Len(t) /\ t[i] = s[i]
         /\ \A i \in 1 .. Len(t) :
              i \in 1 .. Len(s) \/ (i = Len(s) + 1 /\ t[i] = e)
<1>1. CASE t = s
  BY <1>1, Zenon
<1>2. CASE t = Append(s, e)
  BY <1>2
<1> QED BY <1>1, <1>2

\* Appending a record to the topic keeps all records where they are.
LEMMA AppendFacts ==
  ASSUME topic \in [Partitions -> Seq(Entries)], NEW e \in Entries, Append1(e)
  PROVE  /\ topic' \in [Partitions -> Seq(Entries)]
         /\ \A r \in Rooms : \A i \in 1 .. Len(Log(r)) :
              i \in 1 .. Len(Log(r)') /\ Log(r)'[i] = Log(r)[i]
         /\ \A r \in Rooms : \A i \in 1 .. Len(Log(r)') :
              \/ i \in 1 .. Len(Log(r))
              \/ i = Len(Log(r)) + 1 /\ Log(r)'[i] = e
         /\ Has(e)'
         /\ \A f \in Entries : Has(f) => Has(f)'
<1>1. e[1] \in Rooms /\ PartitionOf[e[1]] \in Partitions
  BY PartitionOfAssumption, Zenon DEF Entries
<1>2. topic' = [topic EXCEPT ![PartitionOf[e[1]]] = Append(@, e)]
  BY Zenon DEF Append1
<1>3. topic' \in [Partitions -> Seq(Entries)]
  BY <1>1, <1>2
<1>4. \A r \in Rooms : /\ PartitionOf[r] \in Partitions
                       /\ Log(r) \in Seq(Entries)
                       /\ Log(r)' = Log(r) \/ Log(r)' = Append(Log(r), e)
  <2>1. ASSUME NEW p \in Partitions
        PROVE  topic'[p] = topic[p] \/ topic'[p] = Append(topic[p], e)
    BY <1>1, <1>2, Zenon
  <2>2. TAKE r \in Rooms
  <2>3. PartitionOf[r] \in Partitions
    BY PartitionOfAssumption, Zenon
  <2>4. topic[PartitionOf[r]] \in Seq(Entries)
    BY <2>3, Zenon
  <2> QED BY <2>1, <2>3, <2>4, Zenon DEF Log
<1>5. Log(e[1])' = Append(Log(e[1]), e)
  BY <1>1, <1>2, Zenon DEF Log
<1>6. ASSUME NEW r \in Rooms
      PROVE  /\ \A i \in 1 .. Len(Log(r)) :
                  i \in 1 .. Len(Log(r)') /\ Log(r)'[i] = Log(r)[i]
             /\ \A i \in 1 .. Len(Log(r)') :
                  i \in 1 .. Len(Log(r)) \/ (i = Len(Log(r)) + 1 /\ Log(r)'[i] = e)
  <2>1. Log(r) \in Seq(Entries) /\ (Log(r)' = Log(r) \/ Log(r)' = Append(Log(r), e))
    BY <1>4, Zenon
  <2> QED BY <2>1, AppendSeq, Zenon
<1>8. Has(e)'
  <2>1. Log(e[1]) \in Seq(Entries)
    BY <1>1, <1>4, Zenon
  <2>2. Len(Log(e[1])) + 1 \in 1 .. Len(Log(e[1])')
    BY <1>5, <2>1
  <2>3. Log(e[1])'[Len(Log(e[1])) + 1] = e
    BY <1>5, <2>1
  <2> QED BY <2>2, <2>3, Zenon DEF Has
<1>9. \A f \in Entries : Has(f) => Has(f)'
  <2>1. \A f \in Entries : f[1] \in Rooms
    BY Zenon DEF Entries
  <2> QED BY <1>6, <2>1, Zenon DEF Has
<1> QED BY <1>3, <1>6, <1>8, <1>9, Zenon

\* A record whose predecessors are all in the topic may be appended to it.
LEMMA AppendInOrder ==
  ASSUME topic \in [Partitions -> Seq(Entries)], NEW e \in Entries, Append1(e),
         FirstCopiesInOrder,
         \A n \in 1 .. e[2] - 1 : Has(<<e[1], n>>)
  PROVE  FirstCopiesInOrder'
<1> SUFFICES ASSUME NEW r \in Rooms, NEW i \in 1 .. Len(Log(r)'),
                    Log(r)'[i][1] = r,
                    NEW n \in 1 .. Log(r)'[i][2] - 1
             PROVE  \E j \in 1 .. i - 1 : Log(r)'[j] = <<r, n>>
  BY Zenon DEF FirstCopiesInOrder
<1>0. Log(r) \in Seq(Entries) /\ Len(Log(r)) \in Nat /\ i \in Nat
  BY AppendFacts, PartitionOfAssumption DEF Log
<1>1. CASE i \in 1 .. Len(Log(r))
  <2>1. Log(r)'[i] = Log(r)[i]
    BY <1>1, AppendFacts, Zenon
  <2>2. PICK j \in 1 .. i - 1 : Log(r)[j] = <<r, n>>
    BY <1>1, <2>1, Zenon DEF FirstCopiesInOrder
  <2>3. j \in 1 .. Len(Log(r))
    BY <1>0, <1>1, <2>2
  <2>4. Log(r)'[j] = Log(r)[j]
    BY <2>3, AppendFacts, Zenon
  <2> QED BY <2>2, <2>4
<1>2. CASE i = Len(Log(r)) + 1 /\ Log(r)'[i] = e
  <2>1. e[1] = r /\ n \in 1 .. e[2] - 1
    BY <1>2, Zenon
  <2>2. <<e[1], n>>[1] = r
    BY <2>1, Zenon
  <2>3. PICK j \in 1 .. Len(Log(r)) : Log(r)[j] = <<r, n>>
    BY <2>1, <2>2, Zenon DEF Has
  <2>4. j \in 1 .. i - 1
    BY <1>0, <1>2, <2>3
  <2>5. Log(r)'[j] = Log(r)[j]
    BY <2>3, AppendFacts, Zenon
  <2> QED BY <2>3, <2>4, <2>5
<1> QED BY <1>1, <1>2, AppendFacts

-----------------------------------------------------------------------------
\* The entry a relay works on, and the rest of its batch.
LEMMA CurrentEntry ==
  ASSUME TypeOK, WorkInv, NEW k \in Relays, pc[k] # "poll"
  PROVE  /\ Head(batch[k]) \in Stored
         /\ Head(batch[k]) \in Entries
         /\ Follows(Head(batch[k]))
         /\ Tail(batch[k]) \in Seq(Entries)
         /\ Len(batch[k]) # 1 => Len(Tail(batch[k])) > 0
         /\ \A i \in 1 .. Len(Tail(batch[k])) :
              i + 1 \in 1 .. Len(batch[k]) /\ Tail(batch[k])[i] = batch[k][i + 1]
<1>1. batch[k] \in Seq(Entries) /\ Len(batch[k]) \in Nat /\ Len(batch[k]) > 0
  BY DEF TypeOK, WorkInv
<1>2. 1 \in 1 .. Len(batch[k]) /\ Head(batch[k]) = batch[k][1]
  BY <1>1
<1>3. batch[k][1] \in Stored /\ Follows(batch[k][1])
  BY <1>2, Zenon DEF WorkInv
<1>4. batch[k] # <<>>
  BY <1>1
<1>5. /\ Tail(batch[k]) \in Seq(Entries)
      /\ Len(Tail(batch[k])) = Len(batch[k]) - 1
      /\ \A i \in 1 .. Len(Tail(batch[k])) : Tail(batch[k])[i] = batch[k][i + 1]
  BY <1>1, <1>4
<1>6. Head(batch[k]) \in Entries
  BY <1>1, <1>2
<1>7. Head(batch[k]) \in Stored /\ Follows(Head(batch[k]))
  BY <1>2, <1>3, Zenon
<1>8. \A n \in Nat : n > 0 => (n # 1 => n - 1 > 0) /\ \A i \in 1 .. n - 1 : i + 1 \in 1 .. n
  OBVIOUS
<1>9. /\ Len(batch[k]) # 1 => Len(Tail(batch[k])) > 0
      /\ \A i \in 1 .. Len(Tail(batch[k])) : i + 1 \in 1 .. Len(batch[k])
  BY <1>1, <1>5, <1>8, Zenon
<1> QED BY <1>5, <1>6, <1>7, <1>9

\* Going on with the next entry keeps every batch made of entries it had.
LEMMA NextEntryFacts ==
  ASSUME TypeOK, WorkInv, NEW k \in Relays, pc[k] # "poll", NextEntry(k)
  PROVE  /\ batch' \in [Relays -> Seq(Entries)]
         /\ pc' \in [Relays -> {"poll", "publish", "mark"}]
         /\ attempt' \in [Relays -> 1 .. MaxRetries]
         /\ \A l \in Relays : \A i \in 1 .. Len(batch'[l]) :
              \E j \in 1 .. Len(batch[l]) : batch'[l][i] = batch[l][j]
         /\ \A l \in Relays : pc'[l] # "poll" => Len(batch'[l]) > 0
         /\ \A l \in Relays : pc'[l] = "mark" => pc[l] = "mark" /\ batch'[l] = batch[l]
<1>1. /\ batch \in [Relays -> Seq(Entries)]
      /\ pc \in [Relays -> {"poll", "publish", "mark"}]
      /\ attempt \in [Relays -> 1 .. MaxRetries]
      /\ \A l \in Relays : pc[l] # "poll" => Len(batch[l]) > 0
  BY Zenon DEF TypeOK, WorkInv
<1>2. /\ batch' = [batch EXCEPT ![k] = Tail(@)]
      /\ pc' = [pc EXCEPT ![k] = IF Len(batch[k]) = 1 THEN "poll" ELSE "publish"]
      /\ attempt' = [attempt EXCEPT ![k] = 1]
  BY Zenon DEF NextEntry
<1>3. batch' \in [Relays -> Seq(Entries)]
  BY <1>1, <1>2, CurrentEntry, Zenon
<1>4. pc' \in [Relays -> {"poll", "publish", "mark"}]
  BY <1>1, <1>2, Zenon
<1>5. attempt' \in [Relays -> 1 .. MaxRetries]
  BY <1>1, <1>2, ConfigAssumption
<1>6. ASSUME NEW l \in Relays, l # k
      PROVE  batch'[l] = batch[l] /\ pc'[l] = pc[l]
  BY <1>1, <1>2, <1>6, Zenon
<1>7. batch'[k] = Tail(batch[k]) /\ pc'[k] = IF Len(batch[k]) = 1 THEN "poll" ELSE "publish"
  BY <1>1, <1>2, Zenon
<1>8. ASSUME NEW l \in Relays, NEW i \in 1 .. Len(batch'[l])
      PROVE  \E j \in 1 .. Len(batch[l]) : batch'[l][i] = batch[l][j]
  <2>1. CASE l # k
    BY <2>1, <1>6, Zenon
  <2>2. CASE l = k
    <3>1. i + 1 \in 1 .. Len(batch[k]) /\ Tail(batch[k])[i] = batch[k][i + 1]
      BY <2>2, <1>7, <1>8, CurrentEntry, Zenon
    <3> QED BY <3>1, <2>2, <1>7
  <2> QED BY <2>1, <2>2
<1>9. \A l \in Relays : pc'[l] # "poll" => Len(batch'[l]) > 0
  BY <1>1, <1>6, <1>7, CurrentEntry, Zenon
<1>10. \A l \in Relays : pc'[l] = "mark" => pc[l] = "mark" /\ batch'[l] = batch[l]
  BY <1>6, <1>7, Zenon
<1> QED BY <1>3, <1>4, <1>5, <1>8, <1>9, <1>10

\* The steps of the specification, by what they do to Kafka and the table.
LEMMA StepKinds ==
  ASSUME Next
  PROVE  \/ \E r \in Rooms : Accepted(r)
         \/ \E k \in Relays : \/ Poll(k) \/ Publish(k) \/ PublishRefused(k) \/ Mark(k)
                              \/ PublishFails(k) \/ MarkFails(k) \/ Crash(k)
         \/ \E e \in inflight : LateAppend(e)
  BY Zenon DEF Next, Work, Step

\* A batch read by Poll.
LEMMA PollFacts ==
  ASSUME TypeOK, NEW k \in Relays, Poll(k)
  PROVE  \E b \in Seq(Entries) :
           /\ Len(b) > 0
           /\ \A i \in 1 .. Len(b) : b[i] \in Stored /\ Follows(b[i])
           /\ batch' = [batch EXCEPT ![k] = b]
<1>1. PICK size \in 1 .. BatchSize : \E b \in [1 .. size -> Heads] :
                                       batch' = [batch EXCEPT ![k] = b]
  BY Zenon DEF Poll
<1>2. PICK b \in [1 .. size -> Heads] : batch' = [batch EXCEPT ![k] = b]
  BY <1>1, Zenon
<1>3. Heads \subseteq Stored /\ Stored \subseteq Entries
  BY StoredFacts, Zenon DEF Heads, TypeOK
<1>4. size \in Nat /\ size > 0
  BY ConfigAssumption
<1>5. b \in [1 .. size -> Entries]
  BY <1>3, Zenon
<1>6. b \in Seq(Entries) /\ Len(b) = size
  BY <1>4, <1>5
<1>7. \A i \in 1 .. size : b[i] \in Stored /\ Follows(b[i])
  BY <1>3, Zenon DEF Heads
<1> QED BY <1>2, <1>4, <1>6, <1>7

\* What a failed publish or a crash leaves in flight is the relay's own entry.
LEMMA LostOrLateFacts ==
  ASSUME TypeOK, WorkInv, NEW k \in Relays, pc[k] # "poll", LostOrLate(k)
  PROVE  /\ inflight' \subseteq Entries
         /\ \A e \in inflight' : e \in inflight \/ e = Head(batch[k])
  BY CurrentEntry, Zenon DEF LostOrLate, TypeOK

LEMMA RetryFacts ==
  ASSUME TypeOK, WorkInv, NEW k \in Relays, pc[k] # "poll", pc[k] # "mark", Retry(k)
  PROVE  /\ batch' \in [Relays -> Seq(Entries)]
         /\ pc' \in [Relays -> {"poll", "publish", "mark"}]
         /\ attempt' \in [Relays -> 1 .. MaxRetries]
         /\ \A l \in Relays : \A i \in 1 .. Len(batch'[l]) :
              \E j \in 1 .. Len(batch[l]) : batch'[l][i] = batch[l][j]
         /\ \A l \in Relays : pc'[l] # "poll" => Len(batch'[l]) > 0
         /\ \A l \in Relays : pc'[l] = "mark" => pc[l] = "mark" /\ batch'[l] = batch[l]
<1>1. CASE NextEntry(k)
  BY <1>1, NextEntryFacts, Zenon
<1>2. CASE /\ attempt[k] < MaxRetries
           /\ attempt' = [attempt EXCEPT ![k] = @ + 1]
           /\ UNCHANGED <<pc, batch>>
  <2>1. attempt' \in [Relays -> 1 .. MaxRetries]
    BY <1>2, ConfigAssumption DEF TypeOK
  <2>2. \A l \in Relays : pc[l] # "poll" => Len(batch[l]) > 0
    BY Zenon DEF WorkInv
  <2> QED BY <1>2, <2>1, <2>2 DEF TypeOK
<1> QED BY <1>1, <1>2 DEF Retry

\* The table, the set of published rows and the topic only grow.
LEMMA Grows ==
  ASSUME TypeOK, WorkInv, Next
  PROVE  /\ rows' \in [Rooms -> Seq(Row)]
         /\ topic' \in [Partitions -> Seq(Entries)]
         /\ Stored \subseteq Stored'
         /\ published \subseteq published'
         /\ \A f \in Entries : Has(f) => Has(f)'
<1> USE DEF TypeOK
<1>1. ASSUME NEW r \in Rooms, Accepted(r)
      PROVE  /\ rows' \in [Rooms -> Seq(Row)] /\ Stored \subseteq Stored'
             /\ UNCHANGED <<topic, published>>
  BY <1>1, StoredGrows, Zenon DEF Accepted
<1>2. ASSUME NEW e \in Entries, Append1(e), UNCHANGED <<rows, published>>
      PROVE  /\ topic' \in [Partitions -> Seq(Entries)]
             /\ Stored' = Stored
             /\ \A f \in Entries : Has(f) => Has(f)'
  BY <1>2, AppendFacts DEF Stored
<1>3. ASSUME UNCHANGED topic
      PROVE  \A f \in Entries : Has(f) => Has(f)'
  BY <1>3, Zenon DEF Has, Log
<1>4. ASSUME UNCHANGED rows PROVE Stored' = Stored
  BY <1>4, Zenon DEF Stored
<1>5. CASE \E r \in Rooms : Accepted(r)
  BY <1>1, <1>3, <1>5, Zenon
<1>6. CASE \E e \in inflight : LateAppend(e)
  BY <1>2, <1>6, Zenon DEF LateAppend
<1>7. ASSUME NEW k \in Relays, Publish(k)
      PROVE  Head(batch[k]) \in Entries /\ Append1(Head(batch[k])) /\ UNCHANGED <<rows, published>>
  BY <1>7, CurrentEntry, Zenon DEF Publish
<1>8. CASE \E k \in Relays : Publish(k)
  BY <1>2, <1>7, <1>8, Zenon
<1>9. CASE \E k \in Relays : Mark(k)
  BY <1>3, <1>4, <1>9, Zenon DEF Mark
<1>10. CASE \E k \in Relays : Poll(k) \/ PublishRefused(k) \/ PublishFails(k)
                             \/ MarkFails(k) \/ Crash(k)
  BY <1>3, <1>4, <1>10, Zenon DEF Poll, PublishRefused, PublishFails, MarkFails, Crash
<1> QED BY <1>5, <1>6, <1>8, <1>9, <1>10, StepKinds

\* What a step may leave in a batch, in flight or about to be marked.
RelaysKeep ==
  /\ batch' \in [Relays -> Seq(Entries)]
  /\ pc' \in [Relays -> {"poll", "publish", "mark"}]
  /\ attempt' \in [Relays -> 1 .. MaxRetries]
  /\ \A l \in Relays : \A i \in 1 .. Len(batch'[l]) :
       batch'[l][i] \in Stored /\ Follows(batch'[l][i])
  /\ \A l \in Relays : pc'[l] # "poll" => Len(batch'[l]) > 0
  /\ \A l \in Relays : pc'[l] = "mark" =>
       \/ pc[l] = "mark" /\ batch'[l] = batch[l]
       \/ Has(Head(batch[l]))' /\ batch'[l] = batch[l]
InflightKeeps ==
  /\ inflight' \subseteq Entries
  /\ \A e \in inflight' : e \in Stored /\ Follows(e)

LEMMA RelaysStep ==
  ASSUME TypeOK, WorkInv, Next
  PROVE  RelaysKeep
<1>1. /\ batch \in [Relays -> Seq(Entries)]
      /\ pc \in [Relays -> {"poll", "publish", "mark"}]
      /\ attempt \in [Relays -> 1 .. MaxRetries]
      /\ topic \in [Partitions -> Seq(Entries)]
  BY Zenon DEF TypeOK
<1>2. /\ \A l \in Relays : \A i \in 1 .. Len(batch[l]) :
           batch[l][i] \in Stored /\ Follows(batch[l][i])
      /\ \A l \in Relays : pc[l] # "poll" => Len(batch[l]) > 0
  BY Zenon DEF WorkInv
<1>3. CASE UNCHANGED relayVars
  BY <1>1, <1>2, <1>3, Zenon DEF RelaysKeep, relayVars
<1>4. ASSUME NEW k \in Relays, Poll(k)
      PROVE  RelaysKeep
  <2>1. PICK b \in Seq(Entries) :
           /\ Len(b) > 0
           /\ \A i \in 1 .. Len(b) : b[i] \in Stored /\ Follows(b[i])
           /\ batch' = [batch EXCEPT ![k] = b]
    BY <1>4, PollFacts, Zenon
  <2>2. /\ pc' = [pc EXCEPT ![k] = "publish"]
        /\ attempt' = [attempt EXCEPT ![k] = 1]
    BY <1>4, Zenon DEF Poll
  <2>3. /\ batch' \in [Relays -> Seq(Entries)]
        /\ pc' \in [Relays -> {"poll", "publish", "mark"}]
        /\ attempt' \in [Relays -> 1 .. MaxRetries]
    BY <1>1, <2>1, <2>2, ConfigAssumption
  <2>4. batch'[k] = b /\ pc'[k] = "publish"
    BY <1>1, <2>1, <2>2, Zenon
  <2>5. \A l \in Relays \ {k} : batch'[l] = batch[l] /\ pc'[l] = pc[l]
    BY <1>1, <2>1, <2>2, Zenon
  <2>6. ASSUME NEW l \in Relays
        PROVE  /\ \A i \in 1 .. Len(batch'[l]) :
                    batch'[l][i] \in Stored /\ Follows(batch'[l][i])
               /\ pc'[l] # "poll" => Len(batch'[l]) > 0
               /\ pc'[l] = "mark" => pc[l] = "mark" /\ batch'[l] = batch[l]
    <3>1. CASE l = k
      BY <3>1, <2>1, <2>4, Zenon
    <3>2. CASE l # k
      BY <3>2, <2>5, <1>2, Zenon
    <3> QED BY <3>1, <3>2
  <2> QED BY <2>3, <2>6, Zenon DEF RelaysKeep
<1>5. ASSUME NEW k \in Relays, Publish(k)
      PROVE  RelaysKeep
  <2>1. /\ pc[k] = "publish"
        /\ pc' = [pc EXCEPT ![k] = "mark"]
        /\ batch' = batch /\ attempt' = attempt
        /\ Append1(Head(batch[k]))
    BY <1>5, Zenon DEF Publish
  <2>2. pc' \in [Relays -> {"poll", "publish", "mark"}]
    BY <1>1, <2>1, Zenon
  <2>3. Has(Head(batch[k]))'
    <3>1. Head(batch[k]) \in Entries
      BY <2>1, CurrentEntry, Zenon
    <3>2. PICK e \in Entries : e = Head(batch[k])
      BY <3>1, Zenon
    <3>3. Has(e)'
      BY <3>2, <2>1, <1>1, AppendFacts, Zenon
    <3> QED BY <3>2, <3>3, <2>1 DEF Has, Log
  <2>4. \A l \in Relays : l # k => pc'[l] = pc[l]
    BY <1>1, <2>1, Zenon
  <2>5. \A l \in Relays : pc'[l] # "poll" => Len(batch'[l]) > 0
    BY <1>2, <2>1, <2>4, Zenon
  <2>6. \A l \in Relays : pc'[l] = "mark" => l = k \/ pc[l] = "mark"
    BY <2>4, Zenon
  <2> QED BY <1>1, <1>2, <2>1, <2>2, <2>3, <2>5, <2>6, Zenon DEF RelaysKeep
<1>6. ASSUME NEW k \in Relays, Mark(k) \/ MarkFails(k)
      PROVE  RelaysKeep
  <2>1. pc[k] # "poll" /\ NextEntry(k)
    BY <1>6, Zenon DEF Mark, MarkFails
  <2> QED BY <1>2, <2>1, NextEntryFacts, Zenon DEF RelaysKeep
<1>7. ASSUME NEW k \in Relays, PublishRefused(k) \/ PublishFails(k)
      PROVE  RelaysKeep
  <2>1. pc[k] # "poll" /\ pc[k] # "mark" /\ Retry(k)
    BY <1>7, Zenon DEF PublishRefused, PublishFails
  <2> QED BY <1>2, <2>1, RetryFacts, Zenon DEF RelaysKeep
<1>8. ASSUME NEW k \in Relays, Crash(k)
      PROVE  RelaysKeep
  <2>1. PICK b \in Seq(Entries) : Len(b) = 0 /\ batch' = [batch EXCEPT ![k] = b]
    <3>1. <<>> \in Seq(Entries) /\ Len(<<>>) = 0
      OBVIOUS
    <3> QED BY <1>8, <3>1, Zenon DEF Crash
  <2>2. pc' = [pc EXCEPT ![k] = "poll"] /\ attempt' = [attempt EXCEPT ![k] = 1]
    BY <1>8, Zenon DEF Crash
  <2>3. /\ batch' \in [Relays -> Seq(Entries)]
        /\ pc' \in [Relays -> {"poll", "publish", "mark"}]
        /\ attempt' \in [Relays -> 1 .. MaxRetries]
    BY <1>1, <2>1, <2>2, ConfigAssumption
  <2>4. ASSUME NEW l \in Relays
        PROVE  /\ \A i \in 1 .. Len(batch'[l]) :
                    batch'[l][i] \in Stored /\ Follows(batch'[l][i])
               /\ pc'[l] # "poll" => Len(batch'[l]) > 0
               /\ pc'[l] = "mark" => pc[l] = "mark" /\ batch'[l] = batch[l]
    <3>1. CASE l = k
      <4>1. Len(batch'[l]) = 0 /\ pc'[l] = "poll"
        BY <1>1, <2>1, <2>2, <3>1, Zenon
      <4> QED BY <4>1
    <3>2. CASE l # k
      <4>1. batch'[l] = batch[l] /\ pc'[l] = pc[l]
        BY <1>1, <2>1, <2>2, <3>2, Zenon
      <4> QED BY <4>1, <1>2
    <3> QED BY <3>1, <3>2
  <2> QED BY <2>3, <2>4, Zenon DEF RelaysKeep
<1>9. (\E r \in Rooms : Accepted(r)) \/ (\E e \in inflight : LateAppend(e))
        => UNCHANGED relayVars
  BY Zenon DEF Accepted, LateAppend
<1> QED BY <1>3, <1>4, <1>5, <1>6, <1>7, <1>8, <1>9, StepKinds, Zenon

LEMMA InflightStep ==
  ASSUME TypeOK, WorkInv, Next
  PROVE  InflightKeeps
<1>1. inflight \subseteq Entries /\ \A e \in inflight : e \in Stored /\ Follows(e)
  BY Zenon DEF TypeOK, WorkInv
<1>2. CASE inflight' \subseteq inflight
  BY <1>1, <1>2, Zenon DEF InflightKeeps
<1>3. ASSUME NEW k \in Relays, pc[k] # "poll", LostOrLate(k)
      PROVE  InflightKeeps
  BY <1>1, <1>3, LostOrLateFacts, CurrentEntry, Zenon DEF InflightKeeps
<1>4. ASSUME NEW k \in Relays, PublishFails(k) \/ Crash(k)
      PROVE  InflightKeeps
  <2>1. pc[k] # "poll" /\ (LostOrLate(k) \/ UNCHANGED inflight)
    BY <1>4, Zenon DEF PublishFails, Crash
  <2> QED BY <1>2, <1>3, <2>1
<1>5. (\E r \in Rooms : Accepted(r)) \/ (\E e \in inflight : LateAppend(e))
        => inflight' \subseteq inflight
  BY Zenon DEF Accepted, LateAppend
<1>6. (\E k \in Relays : Poll(k) \/ Publish(k) \/ PublishRefused(k) \/ Mark(k) \/ MarkFails(k))
        => inflight' \subseteq inflight
  BY Zenon DEF Poll, Publish, PublishRefused, Mark, MarkFails
<1> QED BY <1>2, <1>4, <1>5, <1>6, StepKinds, Zenon

\* Every step keeps what the relays work on in order.
LEMMA WorkStep ==
  ASSUME TypeOK, WorkInv, Next
  PROVE  WorkInv'
<1>1. Stored \subseteq Stored' /\ published \subseteq published'
  BY Grows, Zenon
<1>2. RelaysKeep /\ InflightKeeps
  BY RelaysStep, InflightStep, Zenon
<1>3. \A e : Follows(e) => Follows(e)'
  BY <1>1, Zenon DEF Follows
<1>4. \A e \in inflight' : e \in Stored' /\ Follows(e)'
  BY <1>1, <1>2, <1>3, Zenon DEF InflightKeeps
<1>5. \A l \in Relays : \A i \in 1 .. Len(batch'[l]) :
        batch'[l][i] \in Stored' /\ Follows(batch[l][i])'
  <2>1. TAKE l \in Relays
  <2>2. TAKE i \in 1 .. Len(batch'[l])
  <2>3. batch'[l][i] \in Stored /\ Follows(batch'[l][i])
    BY <1>2, Zenon DEF RelaysKeep
  <2> QED BY <1>1, <2>3 DEF Follows
<1>6. ASSUME NEW l \in Relays, pc'[l] = "mark"
      PROVE  Has(Head(batch[l]))'
  <2>1. CASE pc[l] = "mark" /\ batch'[l] = batch[l]
    <3>1. PICK e \in Entries : e = Head(batch[l])
      BY <2>1, CurrentEntry, Zenon
    <3>2. Has(e)
      BY <2>1, <3>1, Zenon DEF WorkInv
    <3>3. Has(e)'
      BY <3>2, Grows, Zenon
    <3> QED BY <2>1, <3>1, <3>3 DEF Has, Log
  <2> QED BY <1>2, <1>6, <2>1 DEF RelaysKeep
<1>7. \A l \in Relays : pc'[l] # "poll" => Len(batch'[l]) > 0
  BY <1>2, Zenon DEF RelaysKeep
<1> QED BY <1>4, <1>5, <1>6, <1>7, Zenon DEF WorkInv

\* Every step keeps the types; only Mark adds to published, and it adds a stored
\* row.
LEMMA TypeStep ==
  ASSUME TypeOK, WorkInv, Next
  PROVE  TypeOK'
<1>1. published' \subseteq Stored
  <2>1. ASSUME NEW k \in Relays, Mark(k)
        PROVE  published' \subseteq Stored
    <3>1. pc[k] # "poll" /\ published' = published \cup {Head(batch[k])}
      BY <2>1, Zenon DEF Mark
    <3> QED BY <3>1, CurrentEntry DEF TypeOK
  <2>2. (\E r \in Rooms : Accepted(r)) \/ (\E e \in inflight : LateAppend(e))
          => published' = published
    BY Zenon DEF Accepted, LateAppend
  <2>3. (\E k \in Relays : Poll(k) \/ Publish(k) \/ PublishRefused(k) \/ PublishFails(k)
                          \/ MarkFails(k) \/ Crash(k)) => published' = published
    BY Zenon DEF Poll, Publish, PublishRefused, PublishFails, MarkFails, Crash
  <2> QED BY <2>1, <2>2, <2>3, StepKinds DEF TypeOK
<1>2. faults' \in 0 .. MaxFaults
  <2>1. faults' = faults \/ Fault
    <3>1. (\E r \in Rooms : Accepted(r)) \/ (\E e \in inflight : LateAppend(e))
            => faults' = faults
      BY Zenon DEF Accepted, LateAppend
    <3>2. (\E k \in Relays : Poll(k) \/ Publish(k) \/ PublishRefused(k) \/ Mark(k))
            => faults' = faults
      BY Zenon DEF Poll, Publish, PublishRefused, Mark
    <3>3. (\E k \in Relays : PublishFails(k) \/ MarkFails(k) \/ Crash(k)) => Fault
      BY Zenon DEF PublishFails, MarkFails, Crash
    <3> QED BY <3>1, <3>2, <3>3, StepKinds, Zenon
  <2> QED BY <2>1, ConfigAssumption DEF Fault, TypeOK
<1>3. /\ rows' \in [Rooms -> Seq(Row)]
      /\ topic' \in [Partitions -> Seq(Entries)]
      /\ published' \subseteq Stored'
  BY <1>1, Grows, Zenon
<1> QED BY <1>2, <1>3, RelaysStep, InflightStep, Zenon DEF TypeOK, RelaysKeep, InflightKeeps

LEMMA InitInv ==
  ASSUME Init
  PROVE  TypeOK /\ WorkInv /\ PublishedInKafka /\ FirstCopiesInOrder /\ PublishedPrefix
<1>1. <<>> \in Seq(Row) /\ <<>> \in Seq(Entries) /\ Len(<<>>) = 0
  OBVIOUS
<1>2. /\ rows \in [Rooms -> Seq(Row)] /\ topic \in [Partitions -> Seq(Entries)]
      /\ batch \in [Relays -> Seq(Entries)]
  BY <1>1, Zenon DEF Init, TopicInit
<1>3. 1 \in 1 .. MaxRetries /\ 0 \in 0 .. MaxFaults
  BY ConfigAssumption
<1>4. TypeOK
  BY <1>2, <1>3, Zenon DEF Init, TypeOK
<1>5. \A k \in Relays : Len(batch[k]) = 0 /\ pc[k] = "poll"
  BY <1>1, Zenon DEF Init
<1>6. WorkInv
  BY <1>5 DEF WorkInv, Init
<1>7. \A r \in Rooms : Len(Log(r)) = 0
  BY <1>1, PartitionOfAssumption, Zenon DEF Init, TopicInit, Log
<1>8. FirstCopiesInOrder
  BY <1>7 DEF FirstCopiesInOrder
<1>9. PublishedInKafka /\ PublishedPrefix
  BY Zenon DEF Init, PublishedInKafka, PublishedPrefix
<1> QED BY <1>4, <1>6, <1>8, <1>9

\* Every step keeps the order of the topic: a record is appended only when its
\* predecessors are published, and what is published is in the topic.
LEMMA KafkaStep ==
  ASSUME TypeOK, WorkInv, Next,
         PublishedInKafka, FirstCopiesInOrder, PublishedPrefix
  PROVE  PublishedInKafka' /\ FirstCopiesInOrder' /\ PublishedPrefix'
<1>1. Stored \subseteq Entries /\ published \subseteq Entries
  BY StoredFacts, Zenon DEF TypeOK
<1>2. \A e \in published : Has(e)' /\ Follows(e)'
  BY <1>1, Grows, Zenon DEF PublishedInKafka, PublishedPrefix, Follows
<1>3. ASSUME NEW e \in Entries, Follows(e), Append1(e)
      PROVE  FirstCopiesInOrder'
  <2>1. \A n \in 1 .. e[2] - 1 : Has(<<e[1], n>>)
    BY <1>3, Zenon DEF Follows, PublishedInKafka
  <2> QED BY <1>3, <2>1, AppendInOrder DEF TypeOK
<1>4. CASE UNCHANGED <<topic, published>>
  BY <1>4, Zenon DEF PublishedInKafka, FirstCopiesInOrder, PublishedPrefix, Has, Log, Follows
<1>5. ASSUME NEW e \in Entries, Follows(e), Append1(e), UNCHANGED published
      PROVE  PublishedInKafka' /\ FirstCopiesInOrder' /\ PublishedPrefix'
  BY <1>2, <1>3, <1>5, Zenon DEF PublishedInKafka, PublishedPrefix
<1>6. ASSUME NEW e \in inflight, LateAppend(e)
      PROVE  PublishedInKafka' /\ FirstCopiesInOrder' /\ PublishedPrefix'
  <2>1. e \in Entries /\ Follows(e) /\ Append1(e) /\ UNCHANGED published
    BY <1>6, Zenon DEF TypeOK, WorkInv, LateAppend
  <2> QED BY <2>1, <1>5
<1>7. ASSUME NEW k \in Relays, Publish(k)
      PROVE  PublishedInKafka' /\ FirstCopiesInOrder' /\ PublishedPrefix'
  <2>1. pc[k] # "poll" /\ Append1(Head(batch[k])) /\ UNCHANGED published
    BY <1>7, Zenon DEF Publish
  <2>2. PICK e \in Entries : e = Head(batch[k])
    BY <2>1, CurrentEntry, Zenon
  <2>3. Follows(e)
    BY <2>1, <2>2, CurrentEntry, Zenon
  <2>4. Append1(e)
    BY <2>1, <2>2, Zenon
  <2> QED BY <1>5, <2>1, <2>3, <2>4
<1>8. ASSUME NEW k \in Relays, Mark(k)
      PROVE  PublishedInKafka' /\ FirstCopiesInOrder' /\ PublishedPrefix'
  <2>1. /\ pc[k] = "mark" /\ topic' = topic
        /\ published' = published \cup {Head(batch[k])}
    BY <1>8, Zenon DEF Mark
  <2>2. PICK e \in Entries : e = Head(batch[k])
    BY <2>1, CurrentEntry, Zenon
  <2>3. Follows(e) /\ Has(e)
    BY <2>1, <2>2, CurrentEntry, Zenon DEF WorkInv
  <2>4. Follows(e)' /\ Has(e)'
    BY <2>1, <2>3, Grows, Zenon DEF Follows
  <2>5. FirstCopiesInOrder'
    BY <2>1, Zenon DEF FirstCopiesInOrder, Log
  <2>6. \A f \in published' : Has(f)' /\ Follows(f)'
    BY <1>2, <2>1, <2>2, <2>4, Zenon
  <2> QED BY <2>5, <2>6 DEF PublishedInKafka, PublishedPrefix
<1>9. (\E r \in Rooms : Accepted(r)) => UNCHANGED <<topic, published>>
  BY Zenon DEF Accepted
<1>10. (\E k \in Relays : Poll(k) \/ PublishRefused(k) \/ PublishFails(k) \/ MarkFails(k)
                         \/ Crash(k)) => UNCHANGED <<topic, published>>
  BY Zenon DEF Poll, PublishRefused, PublishFails, MarkFails, Crash
<1> QED BY <1>4, <1>6, <1>7, <1>8, <1>9, <1>10, StepKinds, Zenon

\* The conjunction that is inductive.
RelayInv == TypeOK /\ WorkInv /\ PublishedInKafka /\ FirstCopiesInOrder /\ PublishedPrefix

LEMMA Inductive == Spec => []RelayInv
<1>1. Init => RelayInv
  BY InitInv, Zenon DEF RelayInv
<1>2. RelayInv /\ [Next]_vars => RelayInv'
  <2> SUFFICES ASSUME RelayInv, [Next]_vars PROVE RelayInv'
    BY Zenon
  <2>1. CASE Next
    BY <2>1, TypeStep, WorkStep, KafkaStep, Zenon DEF RelayInv
  <2>2. CASE UNCHANGED vars
    <3> USE <2>2 DEF vars, relayVars
    <3>1. TypeOK'
      BY Zenon DEF RelayInv, TypeOK, Stored
    <3>2. WorkInv'
      BY Zenon DEF RelayInv, WorkInv, Stored, Follows, Has, Log
    <3>3. FirstCopiesInOrder'
      BY Zenon DEF RelayInv, FirstCopiesInOrder, Log
    <3>4. PublishedInKafka' /\ PublishedPrefix'
      BY Zenon DEF RelayInv, PublishedInKafka, PublishedPrefix, Follows, Has, Log
    <3> QED BY <3>1, <3>2, <3>3, <3>4 DEF RelayInv
  <2> QED BY <2>1, <2>2
<1> QED BY <1>1, <1>2, PTL DEF Spec

\* The table, the topic and the relays' batches keep their types (the outbox table,
\* processBatch and publishWithRetry).
THEOREM TypeCorrect == Spec => []TypeOK
  BY Inductive, PTL DEF RelayInv

\* A stale batch is harmless: whatever overlapping relays do between NextPending
\* and the publish, an entry's predecessors stay published (processBatch).
THEOREM WorkStaysInOrder == Spec => []WorkInv
  BY Inductive, PTL DEF RelayInv

\* A row is marked published only when Kafka has it (publish before MarkPublished).
THEOREM MarkedAfterPublish == Spec => []PublishedInKafka
  BY Inductive, PTL DEF RelayInv

\* The first copies of a room's messages are in the topic in the order of room_seq,
\* for any number of relays, retries, crashes and late requests (NextPending's NOT
\* EXISTS and the order of publish and mark).
THEOREM TopicInOrder == Spec => []FirstCopiesInOrder
  BY Inductive, PTL DEF RelayInv

\* The published rows of a room are a prefix of the room (MarkPublished).
THEOREM PrefixPublished == Spec => []PublishedPrefix
  BY Inductive, PTL DEF RelayInv

-----------------------------------------------------------------------------
\* The bound of the instance: Accepted adds no row beyond MaxSeq.
RowsBounded == \A r \in Rooms : Len(rows[r]) <= MaxSeq

LEMMA RowsStayBounded ==
  ASSUME TypeOK, RowsBounded, [Next]_vars
  PROVE  RowsBounded'
<1>1. ASSUME NEW r \in Rooms, Accepted(r)
      PROVE  RowsBounded'
  <2>1. PICK row \in Row : rows' = [rows EXCEPT ![r] = Append(@, row)]
    BY <1>1, Zenon DEF Accepted
  <2>2. Len(rows[r]) < MaxSeq
    BY <1>1, Zenon DEF Accepted
  <2>3. \A s \in Rooms : rows[s] \in Seq(Row) /\ Len(rows[s]) \in Nat
    BY DEF TypeOK
  <2>4. ASSUME NEW s \in Rooms
        PROVE  Len(rows'[s]) <= MaxSeq
    <3>1. CASE s = r
      <4>1. Len(rows'[s]) = Len(rows[r]) + 1
        BY <2>1, <2>3, <3>1 DEF TypeOK
      <4> QED BY <2>2, <2>3, <4>1, MaxSeqAssumption
    <3>2. CASE s # r
      BY <2>1, <3>2, Zenon DEF TypeOK, RowsBounded
    <3> QED BY <3>1, <3>2
  <2> QED BY <2>4 DEF RowsBounded
<1>2. CASE UNCHANGED rows
  BY <1>2, Zenon DEF RowsBounded
<1>3. (\E k \in Relays : \/ Poll(k) \/ Publish(k) \/ PublishRefused(k) \/ Mark(k)
                         \/ PublishFails(k) \/ MarkFails(k) \/ Crash(k)) => UNCHANGED rows
  BY Zenon DEF Poll, Publish, PublishRefused, Mark, PublishFails, MarkFails, Crash
<1>4. (\E e \in inflight : LateAppend(e)) => UNCHANGED rows
  BY Zenon DEF LateAppend
<1>5. UNCHANGED vars => UNCHANGED rows
  BY Zenon DEF vars
<1> QED BY <1>1, <1>2, <1>3, <1>4, <1>5, StepKinds

\* Appending a stored row whose predecessors are published is a step of the topic.
LEMMA AppendStep ==
  ASSUME TypeOK, RowsBounded, PublishedInKafka,
         NEW e \in Entries, e \in Stored, Follows(e), Append1(e)
  PROVE  TopicNext
<1>1. e[1] \in Rooms /\ e[2] \in Nat /\ e = <<e[1], e[2]>>
  BY DEF Entries
<1>2. e[2] \in 1 .. Len(rows[e[1]])
  BY <1>1, StoredFacts, Zenon DEF TypeOK
<1>3. e[2] \in 1 .. MaxSeq
  <2>1. Len(rows[e[1]]) <= MaxSeq /\ Len(rows[e[1]]) \in Nat
    BY <1>1 DEF RowsBounded, TypeOK
  <2> QED BY <1>1, <1>2, <2>1, MaxSeqAssumption
<1>4. \A n \in 1 .. e[2] - 1 : Has(<<e[1], n>>)
  BY Zenon DEF Follows, PublishedInKafka, Has, Log, Has
<1>5. AppendRecord(e)
  BY <1>4, Zenon DEF Append1, AppendRecord
<1>6. e \in Rooms \X Seqs
  BY <1>1, <1>3, Zenon DEF Seqs
<1> QED BY <1>5, <1>6 DEF TopicNext

\* The bound of the instance, always.
LEMMA RowsBoundedAlways == Spec => []RowsBounded
<1>1. Init => RowsBounded
  <2>1. Init => \A r \in Rooms : rows[r] = <<>>
    BY Zenon DEF Init
  <2>2. Len(<<>>) <= MaxSeq
    BY MaxSeqAssumption
  <2> QED
    BY <2>1, <2>2, Zenon DEF RowsBounded
<1>2. RelayInv /\ RowsBounded /\ [Next]_vars => RowsBounded'
  BY RowsStayBounded, Zenon DEF RelayInv
<1> QED
  BY <1>1, <1>2, Inductive, PTL DEF Spec

\* Every step of the relays and of the broker is one of the topic, or leaves it alone.
LEMMA TopicStep ==
  ASSUME RelayInv, RowsBounded, [Next]_vars
  PROVE  [TopicNext]_topic
<1> USE DEF RelayInv
<1>1. ASSUME NEW e \in inflight, LateAppend(e)
      PROVE  TopicNext
  <2>1. e \in Entries /\ e \in Stored /\ Follows(e) /\ Append1(e)
    BY <1>1, Zenon DEF TypeOK, WorkInv, LateAppend
  <2> QED BY <2>1, AppendStep
<1>2. ASSUME NEW k \in Relays, Publish(k)
      PROVE  TopicNext
  <2>1. pc[k] # "poll" /\ Append1(Head(batch[k]))
    BY <1>2, Zenon DEF Publish
  <2>2. PICK e \in Entries : e = Head(batch[k])
    BY <2>1, CurrentEntry, Zenon
  <2>3. e \in Stored /\ Follows(e) /\ Append1(e)
    BY <2>1, <2>2, CurrentEntry, Zenon
  <2> QED BY <2>3, AppendStep
<1>3. (\E r \in Rooms : Accepted(r)) => UNCHANGED topic
  BY Zenon DEF Accepted
<1>4. (\E k \in Relays : Poll(k) \/ PublishRefused(k) \/ Mark(k) \/ PublishFails(k)
                         \/ MarkFails(k) \/ Crash(k)) => UNCHANGED topic
  BY Zenon DEF Poll, PublishRefused, Mark, PublishFails, MarkFails, Crash
<1>5. UNCHANGED vars => UNCHANGED topic
  BY Zenon DEF vars
<1> QED BY <1>1, <1>2, <1>3, <1>4, <1>5, StepKinds

\* The topic the relays write, with retries, crashes, late requests and any number
\* of relays at once, is one that RoomTopic allows (processBatch, NextPending).
THEOREM Refinement == Spec => ImplementsRoomTopic
<1>1. Init => TopicInit
  BY Zenon DEF Init, TopicInit
<1>2. RelayInv /\ RowsBounded /\ [Next]_vars => [TopicNext]_topic
  BY TopicStep
<1> QED
  BY <1>1, <1>2, Inductive, RowsBoundedAlways, PTL DEF Spec, ImplementsRoomTopic, TopicSpec

-----------------------------------------------------------------------------
(***************************************************************************)
(* Delivery.                                                               *)
(***************************************************************************)
GroupTypeInv == DeliveryTypeOK /\ \A p \in Partitions : Len(topic[p]) <= MaxRecords

\* A claim goes through its partition one by one, what is behind it is handled, and
\* the instances it has looked up include the steady ones.
ClaimInv ==
  \A m \in Members, p \in Partitions :
    claim[m][p].state # "off" =>
      /\ claim[m][p].next = claim[m][p].marked + 1
      /\ \A o \in 1 .. claim[m][p].marked : o \in handled[p]
      /\ claim[m][p].state = "publishing" =>
           claim[m][p].next <= Len(topic[p]) /\ steady \subseteq claim[m][p].dest

\* A record comes after all earlier ones of its partition.
OrderedChannel(c) ==
  \A n \in 1 .. Len(c) : \A q \in 1 .. c[n][2] - 1 :
    \E k \in 1 .. n - 1 : c[k] = <<c[n][1], q>>
ChannelOrder == \A i \in steady : OrderedChannel(channel[i])

\* A message of a room comes after its predecessor: what RoomTopic says of a log.
OrderedLog(p, t) ==
  \A o \in 1 .. Len(t) :
    /\ PartitionOf[t[o][1]] = p
    /\ t[o][2] > 1 => \E q \in 1 .. o - 1 : t[q] = <<t[o][1], t[o][2] - 1>>
TopicOrder == \A p \in Partitions : OrderedLog(p, topic[p])

\* What was received is in the topic.
InTopic(x) == x[2] \in 1 .. Len(topic[x[1]])
ChannelInTopic == \A i \in Instances : \A n \in 1 .. Len(channel[i]) : InTopic(channel[i][n])

GroupInv == /\ GroupTypeInv /\ ClaimInv /\ CommittedIsHandled /\ SteadyMissNothing
        /\ ChannelOrder /\ ChannelInTopic /\ TopicOrder

-----------------------------------------------------------------------------
Records == Rooms \X Seqs
Deliveries == Partitions \X (1 .. MaxRecords)

\* A log stays ordered when a record is appended whose predecessors are there.
LEMMA LogAppend ==
  ASSUME NEW p, NEW t \in Seq(Records), NEW e \in Records,
         PartitionOf[e[1]] = p, OrderedLog(p, t),
         \A n \in 1 .. e[2] - 1 : \E k \in 1 .. Len(t) : t[k] = <<e[1], n>>
  PROVE  OrderedLog(p, Append(t, e))
<1> DEFINE u == Append(t, e)
<1>1. /\ Len(t) \in Nat /\ Len(u) = Len(t) + 1 /\ u[Len(t) + 1] = e
      /\ \A k \in 1 .. Len(t) : u[k] = t[k]
  OBVIOUS
<1>2. e[2] \in Nat
  BY DEF Records, Seqs
<1> HIDE DEF u
<1> SUFFICES ASSUME NEW o \in 1 .. Len(u)
             PROVE  /\ PartitionOf[u[o][1]] = p
                    /\ u[o][2] > 1 => \E q \in 1 .. o - 1 : u[q] = <<u[o][1], u[o][2] - 1>>
  BY Zenon DEF OrderedLog, u
<1>3. CASE o \in 1 .. Len(t)
  <2>1. u[o] = t[o] /\ \A q \in 1 .. o - 1 : u[q] = t[q]
    BY <1>1, <1>3
  <2> QED
    BY <1>3, <2>1 DEF OrderedLog
<1>4. CASE o = Len(t) + 1
  <2>1. u[o] = e
    BY <1>1, <1>4, Zenon
  <2>2. ASSUME e[2] > 1 PROVE \E q \in 1 .. o - 1 : u[q] = <<e[1], e[2] - 1>>
    <3>1. e[2] - 1 \in 1 .. e[2] - 1
      BY <1>2, <2>2
    <3>2. PICK k \in 1 .. Len(t) : t[k] = <<e[1], e[2] - 1>>
      BY <3>1, Zenon
    <3>3. k \in 1 .. o - 1 /\ u[k] = t[k]
      BY <1>1, <1>4
    <3> QED
      BY <3>2, <3>3, Zenon
  <2> QED
    BY <2>1, <2>2, Zenon
<1> QED
  BY <1>1, <1>3, <1>4

\* A channel stays ordered when a record is appended after all earlier ones of its
\* partition.
LEMMA ChannelAppend ==
  ASSUME NEW c \in Seq(Deliveries), NEW x \in Deliveries, OrderedChannel(c),
         \A q \in 1 .. x[2] - 1 : \E k \in 1 .. Len(c) : c[k] = <<x[1], q>>
  PROVE  OrderedChannel(Append(c, x))
<1> DEFINE d == Append(c, x)
<1>1. /\ Len(c) \in Nat /\ Len(d) = Len(c) + 1 /\ d[Len(c) + 1] = x
      /\ \A k \in 1 .. Len(c) : d[k] = c[k]
  OBVIOUS
<1> HIDE DEF d
<1> SUFFICES ASSUME NEW n \in 1 .. Len(d), NEW q \in 1 .. d[n][2] - 1
             PROVE  \E k \in 1 .. n - 1 : d[k] = <<d[n][1], q>>
  BY Zenon DEF OrderedChannel, d
<1>2. CASE n \in 1 .. Len(c)
  <2>1. d[n] = c[n] /\ \A k \in 1 .. n - 1 : d[k] = c[k]
    BY <1>1, <1>2
  <2> QED
    BY <1>2, <2>1, Zenon DEF OrderedChannel
<1>3. CASE n = Len(c) + 1
  <2>1. d[n] = x
    BY <1>1, <1>3, Zenon
  <2>2. PICK k \in 1 .. Len(c) : c[k] = <<x[1], q>>
    BY <2>1, Zenon
  <2>3. k \in 1 .. n - 1 /\ d[k] = c[k]
    BY <1>1, <1>3
  <2> QED
    BY <2>1, <2>2, <2>3, Zenon
<1> QED
  BY <1>1, <1>2, <1>3

\* What is handled and received is the same, so nothing is newly missed.
LEMMA SteadyKept ==
  ASSUME SteadyMissNothing, UNCHANGED <<steady, handled, channel>>
  PROVE  SteadyMissNothing'
<1>1. \A i : Received(i)' = Received(i)
  BY Zenon DEF Received
<1> QED
  BY <1>1, Zenon DEF SteadyMissNothing

-----------------------------------------------------------------------------
\* At the start there is nothing.
LEMMA GroupInit == DeliveryInit => GroupInv
<1> SUFFICES ASSUME DeliveryInit PROVE GroupInv
  BY Zenon
<1>1. topic = [p \in Partitions |-> <<>>]
  BY Zenon DEF DeliveryInit, TopicInit
<1>2. GroupTypeInv
  BY <1>1, DeliveryAssumption DEF DeliveryInit, GroupTypeInv, DeliveryTypeOK, Claims, NoClaim
<1>3. ClaimInv /\ CommittedIsHandled
  BY DEF DeliveryInit, ClaimInv, CommittedIsHandled, NoClaim
<1>4. SteadyMissNothing /\ ChannelOrder /\ ChannelInTopic
  BY DEF DeliveryInit, SteadyMissNothing, ChannelOrder, OrderedChannel, ChannelInTopic
<1>5. TopicOrder
  BY <1>1 DEF TopicOrder, OrderedLog
<1> QED
  BY <1>2, <1>3, <1>4, <1>5, Zenon DEF GroupInv

\* A record that the relay appends comes after its predecessor, and changes nothing
\* else.
LEMMA ProduceStep ==
  ASSUME GroupInv, NEW e \in Records, Produce(e)
  PROVE  GroupInv'
<1> DEFINE P == PartitionOf[e[1]]
<1> USE DEF GroupInv
<1>1. P \in Partitions
  BY PartitionOfAssumption, Zenon DEF Records
<1>2. topic \in [Partitions -> Seq(Records)]
  BY Zenon DEF GroupTypeInv, DeliveryTypeOK, Records
<1>3. /\ Len(topic[P]) < MaxRecords
      /\ topic' = [topic EXCEPT ![P] = Append(topic[P], e)]
      /\ \A n \in 1 .. e[2] - 1 : \E k \in 1 .. Len(topic[P]) : topic[P][k] = <<e[1], n>>
      /\ UNCHANGED <<committed, owner, claim, env, handled, channel, failures>>
  BY <1>1, Zenon DEF Produce, end, AppendRecord, Has, Log
<1>4. OrderedLog(P, Append(topic[P], e))
  BY <1>1, <1>2, <1>3, LogAppend, Zenon DEF TopicOrder
<1>5. UNCHANGED <<committed, owner, claim, present, subscribed, steady, handled, channel, failures>>
  BY <1>3, Zenon DEF env
<1> HIDE DEF P
<1>6. topic' \in [Partitions -> Seq(Records)]
  BY <1>1, <1>2, <1>3
<1>7. \A p \in Partitions : p # P => topic'[p] = topic[p]
  BY <1>2, <1>3, Zenon
<1>8. topic'[P] = Append(topic[P], e)
  BY <1>1, <1>2, <1>3, Zenon
<1>9. \A p \in Partitions : /\ Len(topic[p]) \in Nat /\ Len(topic'[p]) \in Nat
                            /\ Len(topic[p]) <= Len(topic'[p])
  <2> SUFFICES ASSUME NEW p \in Partitions
               PROVE  /\ Len(topic[p]) \in Nat /\ Len(topic'[p]) \in Nat
                      /\ Len(topic[p]) <= Len(topic'[p])
    BY Zenon
  <2>1. CASE p # P
    BY <1>2, <1>7, <2>1
  <2>2. CASE p = P
    BY <1>1, <1>2, <1>8, <2>2
  <2> QED
    BY <2>1, <2>2, Zenon
<1>10. GroupTypeInv'
  <2>1. \A p \in Partitions : Len(topic'[p]) <= MaxRecords
    BY <1>1, <1>2, <1>3, <1>7, <1>8, DeliveryAssumption DEF GroupTypeInv
  <2> QED
    BY <1>5, <1>6, <2>1, Zenon DEF GroupTypeInv, DeliveryTypeOK, Records
<1>11. ClaimInv'
  <2>1. \A m \in Members, p \in Partitions : claim[m][p].next \in Nat
    BY Zenon DEF GroupTypeInv, DeliveryTypeOK, Claims
  <2> QED
    BY <1>5, <1>9, <2>1 DEF ClaimInv
<1>12. CommittedIsHandled' /\ SteadyMissNothing' /\ ChannelOrder'
  <2>1. CommittedIsHandled'
    BY <1>5, Zenon DEF CommittedIsHandled
  <2>2. SteadyMissNothing'
    BY <1>5, SteadyKept, Zenon
  <2>3. ChannelOrder'
    BY <1>5, Zenon DEF ChannelOrder
  <2> QED
    BY <2>1, <2>2, <2>3, Zenon
<1>13. ChannelInTopic'
  <2> SUFFICES ASSUME NEW i \in Instances, NEW n \in 1 .. Len(channel[i])
               PROVE  InTopic(channel[i][n])'
    BY <1>5, Zenon DEF ChannelInTopic
  <2> DEFINE x == channel[i][n]
  <2>1. x \in Deliveries /\ InTopic(x)
    BY DEF GroupTypeInv, DeliveryTypeOK, Deliveries, ChannelInTopic
  <2> HIDE DEF x
  <2>2. x[1] \in Partitions /\ x[2] \in 1 .. Len(topic[x[1]])
    BY <2>1, Zenon DEF Deliveries, InTopic
  <2>3. x[2] \in 1 .. Len(topic'[x[1]])
    BY <1>9, <2>2
  <2> QED
    BY <1>5, <2>3, Zenon DEF InTopic, x
<1>14. TopicOrder'
  BY <1>4, <1>7, <1>8, Zenon DEF TopicOrder
<1> QED
  BY <1>10, <1>11, <1>12, <1>13, <1>14, Zenon

\* What a publish on the channels of some instances adds to them.
LEMMA DeliverEffect ==
  ASSUME GroupTypeInv, NEW is, NEW x \in Deliveries, Deliver(is, x[1], x[2]),
         NEW i \in Instances
  PROVE  /\ channel'[i] \in Seq(Deliveries)
         /\ i \in is \cap subscribed => channel'[i] = Append(channel[i], x)
         /\ i \notin is \cap subscribed => channel'[i] = channel[i]
         /\ Received(i) \subseteq Received(i)'
         /\ i \in is \cap subscribed => x \in Received(i)'
         /\ Received(i)' \subseteq Received(i) \cup {x}
<1>1. x = <<x[1], x[2]>>
  BY DEF Deliveries
<1>2. channel[i] \in Seq(Deliveries)
  BY Zenon DEF GroupTypeInv, DeliveryTypeOK, Deliveries
<1>3. channel'[i] = IF i \in is \cap subscribed THEN Append(channel[i], x) ELSE channel[i]
  BY <1>1, Zenon DEF Deliver
<1>4. CASE i \in is \cap subscribed
  <2> DEFINE c == channel[i]
             d == channel'[i]
  <2>1. d = Append(c, x)
    BY <1>3, <1>4, Zenon
  <2>2. /\ d \in Seq(Deliveries) /\ DOMAIN c = 1 .. Len(c) /\ DOMAIN d = 1 .. Len(c) + 1
        /\ Len(c) \in Nat /\ d[Len(c) + 1] = x /\ \A k \in 1 .. Len(c) : d[k] = c[k]
    BY <1>2, <2>1
  <2> HIDE DEF c, d
  <2>3. {c[k] : k \in DOMAIN c} \subseteq {d[k] : k \in DOMAIN d}
    BY <2>2
  <2>4. x \in {d[k] : k \in DOMAIN d}
    BY <2>2
  <2>5. {d[k] : k \in DOMAIN d} \subseteq {c[k] : k \in DOMAIN c} \cup {x}
    BY <2>2
  <2> QED
    BY <1>4, <2>1, <2>2, <2>3, <2>4, <2>5, Zenon DEF Received, c, d
<1>5. CASE i \notin is \cap subscribed
  BY <1>2, <1>3, <1>5, Zenon DEF Received
<1> QED
  BY <1>4, <1>5, Zenon

\* A pipeline of a member, complete or not, keeps the channels in order: the record
\* in hand comes after all earlier ones, which steady instances have received.
LEMMA PipelineStep ==
  ASSUME GroupInv, NEW m \in Members, NEW p \in Partitions, claim[m][p].state = "publishing",
         NEW is \in SUBSET claim[m][p].dest, Deliver(is, p, claim[m][p].next),
         UNCHANGED <<topic, env>>
  PROVE  /\ channel' \in [Instances -> Seq(Deliveries)]
         /\ ChannelOrder' /\ ChannelInTopic' /\ TopicOrder'
         /\ claim[m][p].next \in 1 .. MaxRecords
         /\ \A i \in Instances : Received(i) \subseteq Received(i)'
         /\ \A i \in is \cap subscribed : <<p, claim[m][p].next>> \in Received(i)'
<1> USE DEF GroupInv
<1> DEFINE o == claim[m][p].next
           x == <<p, o>>
<1>1. claim[m][p] \in Claims
  BY DEF GroupTypeInv, DeliveryTypeOK
<1>2. /\ o \in 1 .. Len(topic[p]) /\ is \subseteq Instances
      /\ \A q \in 1 .. o - 1 : q \in handled[p]
  <2>1. claim[m][p].marked \in Nat /\ o = claim[m][p].marked + 1 /\ o <= Len(topic[p])
    BY <1>1, Zenon DEF Claims, ClaimInv
  <2>2. Len(topic[p]) \in Nat
    BY DEF GroupTypeInv, DeliveryTypeOK
  <2>3. \A q \in 1 .. claim[m][p].marked : q \in handled[p]
    BY Zenon DEF ClaimInv
  <2> QED
    BY <1>1, <2>1, <2>2, <2>3 DEF Claims
<1>3. o \in 1 .. MaxRecords
  <2>1. Len(topic[p]) \in Nat /\ Len(topic[p]) <= MaxRecords
    BY DEF GroupTypeInv, DeliveryTypeOK
  <2> QED
    BY <1>2, <2>1, DeliveryAssumption
<1>4. x \in Deliveries /\ x[1] = p /\ x[2] = o
  BY <1>3, Zenon DEF Deliveries
<1>5. Deliver(is, x[1], x[2])
  BY <1>4, Zenon
<1> HIDE DEF x
<1>6. \A i \in Instances :
        /\ channel'[i] \in Seq(Deliveries)
        /\ i \in is \cap subscribed => channel'[i] = Append(channel[i], x)
        /\ i \notin is \cap subscribed => channel'[i] = channel[i]
        /\ Received(i) \subseteq Received(i)'
        /\ i \in is \cap subscribed => x \in Received(i)'
        /\ Received(i)' \subseteq Received(i) \cup {x}
  BY <1>4, <1>5, DeliverEffect, Zenon
<1>7. channel' \in [Instances -> Seq(Deliveries)]
  <2>1. channel' = [i \in Instances |-> channel'[i]]
    BY Zenon DEF Deliver
  <2> QED
    BY <1>6, <2>1, Zenon
<1>8. UNCHANGED <<topic, present, subscribed, steady>>
  BY Zenon DEF env
<1>9. ChannelOrder'
  <2> SUFFICES ASSUME NEW i \in steady PROVE OrderedChannel(channel'[i])
    BY <1>8, Zenon DEF ChannelOrder
  <2>1. i \in Instances /\ channel[i] \in Seq(Deliveries) /\ OrderedChannel(channel[i])
    BY Zenon DEF GroupTypeInv, DeliveryTypeOK, ChannelOrder, Deliveries
  <2>2. CASE i \in is \cap subscribed
    <3>1. \A q \in 1 .. x[2] - 1 : \E k \in 1 .. Len(channel[i]) : channel[i][k] = <<x[1], q>>
      <4> SUFFICES ASSUME NEW q \in 1 .. o - 1
                   PROVE  \E k \in 1 .. Len(channel[i]) : channel[i][k] = <<p, q>>
        BY <1>4, Zenon
      <4>1. <<p, q>> \in Received(i)
        BY <1>2, Zenon DEF SteadyMissNothing
      <4> QED
        BY <2>1, <4>1 DEF Received
    <3>2. OrderedChannel(Append(channel[i], x))
      BY <1>4, <2>1, <3>1, ChannelAppend, Zenon
    <3> QED
      BY <1>6, <2>1, <2>2, <3>2, Zenon
  <2>3. CASE i \notin is \cap subscribed
    BY <1>6, <2>1, <2>3, Zenon
  <2> QED
    BY <2>2, <2>3, Zenon
<1>10. ChannelInTopic'
  <2> SUFFICES ASSUME NEW i \in Instances, NEW n \in 1 .. Len(channel'[i])
               PROVE  InTopic(channel'[i][n])
    BY <1>8, Zenon DEF ChannelInTopic, InTopic
  <2>1. channel'[i][n] \in Received(i)'
    BY <1>6 DEF Received
  <2>2. channel'[i][n] \in Received(i) \cup {x}
    BY <1>6, <2>1, Zenon
  <2>3. InTopic(x)
    BY <1>2, <1>4, Zenon DEF InTopic
  <2>4. \A y \in Received(i) : InTopic(y)
    <3>1. DOMAIN channel[i] = 1 .. Len(channel[i])
      BY DEF GroupTypeInv, DeliveryTypeOK
    <3> QED
      BY <3>1, Zenon DEF Received, ChannelInTopic
  <2> QED
    BY <2>2, <2>3, <2>4, Zenon
<1>11. TopicOrder'
  BY <1>8, Zenon DEF TopicOrder
<1>12. \A i \in is \cap subscribed : <<p, o>> \in Received(i)'
  BY <1>2, <1>6, Zenon DEF x
<1>13. \A i \in Instances : Received(i) \subseteq Received(i)'
  BY <1>6, Zenon
<1> QED
  BY <1>3, <1>7, <1>9, <1>10, <1>11, <1>12, <1>13, Zenon

\* The record is handled and marked.
LEMMA PublishStep ==
  ASSUME GroupInv, NEW m \in Members, NEW p \in Partitions, PublishMessage(m, p)
  PROVE  GroupInv'
<1> USE DEF GroupInv
<1> DEFINE c == claim[m][p]
           d == [state |-> "reading", next |-> c.next + 1, marked |-> c.next, dest |-> {}]
<1>1. /\ c.state = "publishing" /\ Deliver(c.dest, p, c.next)
      /\ handled' = [handled EXCEPT ![p] = @ \cup {c.next}]
      /\ claim' = [claim EXCEPT ![m][p] = d]
      /\ UNCHANGED <<group, env, failures>>
  BY Zenon DEF PublishMessage
<1>2. UNCHANGED <<topic, committed, owner, present, subscribed, steady, failures>>
  BY <1>1, Zenon DEF group, env
<1>3. /\ channel' \in [Instances -> Seq(Deliveries)]
      /\ ChannelOrder' /\ ChannelInTopic' /\ TopicOrder'
      /\ c.next \in 1 .. MaxRecords
      /\ \A i \in Instances : Received(i) \subseteq Received(i)'
      /\ \A i \in c.dest \cap subscribed : <<p, c.next>> \in Received(i)'
  <2>1. UNCHANGED <<topic, env>>
    BY <1>1, Zenon DEF group
  <2> QED
    BY <1>1, <2>1, PipelineStep, Zenon
<1>4. c \in Claims /\ c.next = c.marked + 1 /\ steady \subseteq c.dest
      /\ \A q \in 1 .. c.marked : q \in handled[p]
  BY <1>1, Zenon DEF GroupTypeInv, DeliveryTypeOK, ClaimInv
<1>5. d \in Claims /\ d.next = d.marked + 1 /\ d.marked = c.next /\ d.state = "reading"
  <2>1. c.next \in Nat /\ c.next + 1 \in Nat
    BY <1>3
  <2> QED
    BY <2>1, Zenon DEF Claims
<1>6. \A q \in 1 .. c.next : q \in handled'[p]
  <2>1. handled'[p] = handled[p] \cup {c.next}
    BY <1>1, Zenon DEF GroupTypeInv, DeliveryTypeOK
  <2> QED
    BY <1>4, <2>1 DEF Claims
<1>7. \A r \in Partitions : handled[r] \subseteq handled'[r]
  BY <1>1, Zenon DEF GroupTypeInv, DeliveryTypeOK
<1> HIDE DEF c, d
<1>8. /\ claim' \in [Members -> [Partitions -> Claims]]
      /\ claim'[m][p] = d
      /\ \A k \in Members, r \in Partitions : <<k, r>> # <<m, p>> => claim'[k][r] = claim[k][r]
  BY <1>1, <1>5, Zenon DEF GroupTypeInv, DeliveryTypeOK
<1>9. GroupTypeInv'
  <2>1. handled' \in [Partitions -> SUBSET (1 .. MaxRecords)]
    BY <1>1, <1>3, Zenon DEF GroupTypeInv, DeliveryTypeOK
  <2> QED
    BY <1>2, <1>3, <1>8, <2>1, Zenon DEF GroupTypeInv, DeliveryTypeOK, Deliveries
<1>10. ClaimInv'
  <2> SUFFICES ASSUME NEW k \in Members, NEW r \in Partitions, claim'[k][r].state # "off"
               PROVE  /\ claim'[k][r].next = claim'[k][r].marked + 1
                      /\ \A o \in 1 .. claim'[k][r].marked : o \in handled'[r]
                      /\ claim'[k][r].state = "publishing" =>
                           claim'[k][r].next <= Len(topic[r]) /\ steady \subseteq claim'[k][r].dest
    BY <1>2, Zenon DEF ClaimInv
  <2>1. CASE k = m /\ r = p
    BY <1>5, <1>6, <1>8, <2>1, Zenon
  <2>2. CASE <<k, r>> # <<m, p>>
    BY <1>7, <1>8, <2>2 DEF ClaimInv
  <2> QED
    BY <2>1, <2>2, Zenon
<1>11. CommittedIsHandled'
  BY <1>2, <1>7, Zenon DEF CommittedIsHandled
<1>12. SteadyMissNothing'
  <2> SUFFICES ASSUME NEW i \in steady, NEW r \in Partitions, NEW o \in handled'[r]
               PROVE  <<r, o>> \in Received(i)'
    BY <1>2, Zenon DEF SteadyMissNothing
  <2>1. i \in Instances /\ i \in c.dest \cap subscribed
    BY <1>4, Zenon DEF GroupTypeInv, DeliveryTypeOK
  <2>2. CASE o \in handled[r]
    BY <1>3, <2>1, <2>2, Zenon DEF SteadyMissNothing
  <2>3. CASE o \notin handled[r]
    <3>1. r = p /\ o = c.next
      BY <1>1, <2>3, Zenon DEF GroupTypeInv, DeliveryTypeOK
    <3> QED
      BY <1>3, <2>1, <3>1, Zenon
  <2> QED
    BY <2>2, <2>3, Zenon
<1> QED
  BY <1>3, <1>9, <1>10, <1>11, <1>12, Zenon

\* A session that ends, with a pipeline that failed or without, leaves the claims of
\* the member and the records it did not mark to others.
LEMMA EndStep ==
  ASSUME GroupInv, NEW m \in Members,
         SessionEnds(m) \/ \E p \in Partitions : PublishError(m, p)
  PROVE  GroupInv'
<1> USE DEF GroupInv
<1>1. EndSession(m) /\ Failure /\ UNCHANGED <<group, env, handled>>
  BY Zenon DEF SessionEnds, PublishError
<1>2. UNCHANGED <<topic, committed, owner, present, subscribed, steady, handled>>
  BY <1>1, Zenon DEF group, env
<1>3. /\ channel' \in [Instances -> Seq(Deliveries)]
      /\ ChannelOrder' /\ ChannelInTopic' /\ TopicOrder'
      /\ \A i \in Instances : Received(i) \subseteq Received(i)'
  <2>1. CASE SessionEnds(m)
    <3>1. UNCHANGED channel
      BY <2>1, Zenon DEF SessionEnds
    <3> QED
      BY <1>2, <3>1 DEF ChannelOrder, ChannelInTopic, InTopic, TopicOrder, Received, GroupTypeInv,
         DeliveryTypeOK, Deliveries
  <2>2. ASSUME NEW p \in Partitions, PublishError(m, p)
        PROVE  /\ channel' \in [Instances -> Seq(Deliveries)]
               /\ ChannelOrder' /\ ChannelInTopic' /\ TopicOrder'
               /\ \A i \in Instances : Received(i) \subseteq Received(i)'
    <3>1. PICK is \in SUBSET claim[m][p].dest : Deliver(is, p, claim[m][p].next)
      BY <2>2, Zenon DEF PublishError
    <3>2. claim[m][p].state = "publishing" /\ UNCHANGED <<topic, env>>
      BY <2>2, Zenon DEF PublishError, group
    <3> QED
      BY <3>1, <3>2, PipelineStep, Zenon
  <2> QED
    BY <2>1, <2>2, Zenon
<1>4. /\ claim' \in [Members -> [Partitions -> Claims]]
      /\ \A p \in Partitions : claim'[m][p].state = "off"
      /\ \A k \in Members \ {m} : claim'[k] = claim[k]
  BY <1>1, Zenon DEF EndSession, NoClaim, Claims, GroupTypeInv, DeliveryTypeOK
<1>5. GroupTypeInv'
  BY <1>1, <1>2, <1>3, <1>4, DeliveryAssumption DEF GroupTypeInv, DeliveryTypeOK, Failure, Deliveries
<1>6. ClaimInv'
  <2> SUFFICES ASSUME NEW k \in Members, NEW r \in Partitions, claim'[k][r].state # "off"
               PROVE  /\ claim'[k][r].next = claim'[k][r].marked + 1
                      /\ \A o \in 1 .. claim'[k][r].marked : o \in handled[r]
                      /\ claim'[k][r].state = "publishing" =>
                           claim'[k][r].next <= Len(topic[r]) /\ steady \subseteq claim'[k][r].dest
    BY <1>2, Zenon DEF ClaimInv
  <2>1. claim'[k][r] = claim[k][r]
    BY <1>4, Zenon
  <2> QED
    BY <2>1, Zenon DEF ClaimInv
<1>7. CommittedIsHandled'
  BY <1>2, Zenon DEF CommittedIsHandled
<1>8. SteadyMissNothing'
  <2>1. steady \subseteq Instances
    BY Zenon DEF GroupTypeInv, DeliveryTypeOK
  <2> QED
    BY <1>2, <1>3, <2>1, Zenon DEF SteadyMissNothing
<1> QED
  BY <1>3, <1>5, <1>6, <1>7, <1>8, Zenon

\* A member that starts, looks up or commits changes neither the topic nor what was
\* handled and received.
LEMMA MemberStep ==
  ASSUME GroupInv, NEW m \in Members, NEW p \in Partitions,
         Assign(m, p) \/ IsConnected(m, p) \/ Commit(m, p)
  PROVE  GroupInv'
<1> USE DEF GroupInv
<1>1. UNCHANGED <<topic, present, subscribed, steady, handled, channel>>
  BY Zenon DEF Assign, IsConnected, Commit, group, env
<1>2. SteadyMissNothing' /\ ChannelOrder' /\ ChannelInTopic' /\ TopicOrder'
  <2>1. SteadyMissNothing'
    BY <1>1, SteadyKept, Zenon
  <2>2. ChannelOrder' /\ TopicOrder'
    BY <1>1, Zenon DEF ChannelOrder, TopicOrder
  <2>3. ChannelInTopic'
    BY <1>1, Zenon DEF ChannelInTopic, InTopic
  <2> QED
    BY <2>1, <2>2, <2>3, Zenon
<1>3. claim[m][p] \in Claims /\ committed[p] \in 0 .. MaxRecords /\ Len(topic[p]) \in Nat
  BY DEF GroupTypeInv, DeliveryTypeOK
<1>4. CASE Assign(m, p)
  <2> DEFINE d == [state |-> "reading", next |-> committed[p] + 1, marked |-> committed[p],
                   dest |-> {}]
  <2>1. d \in Claims /\ d.state = "reading" /\ d.next = d.marked + 1 /\ d.marked = committed[p]
    BY <1>3, DeliveryAssumption DEF Claims
  <2>2. claim' = [claim EXCEPT ![m][p] = d]
    BY <1>4, Zenon DEF Assign, Start
  <2> HIDE DEF d
  <2>3. /\ claim' \in [Members -> [Partitions -> Claims]]
        /\ claim'[m][p] = d
        /\ \A k \in Members, r \in Partitions : <<k, r>> # <<m, p>> => claim'[k][r] = claim[k][r]
    BY <2>1, <2>2, Zenon DEF GroupTypeInv, DeliveryTypeOK
  <2>4. committed' = committed /\ CommittedIsHandled'
    BY <1>1, <1>4, Zenon DEF Assign, CommittedIsHandled
  <2>5. GroupTypeInv'
    BY <1>1, <1>4, <2>3, <2>4, DeliveryAssumption DEF Assign, Failure, GroupTypeInv, DeliveryTypeOK
  <2>6. ClaimInv'
    <3> SUFFICES ASSUME NEW k \in Members, NEW r \in Partitions, claim'[k][r].state # "off"
                 PROVE  /\ claim'[k][r].next = claim'[k][r].marked + 1
                        /\ \A o \in 1 .. claim'[k][r].marked : o \in handled[r]
                        /\ claim'[k][r].state = "publishing" =>
                             claim'[k][r].next <= Len(topic[r]) /\ steady \subseteq claim'[k][r].dest
      BY <1>1, Zenon DEF ClaimInv
    <3>1. CASE k = m /\ r = p
      BY <2>1, <2>3, <3>1, Zenon DEF CommittedIsHandled
    <3>2. CASE <<k, r>> # <<m, p>>
      <4>1. claim'[k][r] = claim[k][r]
        BY <2>3, <3>2, Zenon
      <4> QED
        BY <4>1, Zenon DEF ClaimInv
    <3> QED
      BY <3>1, <3>2, Zenon
  <2> QED
    BY <1>2, <2>4, <2>5, <2>6, Zenon
<1>5. CASE IsConnected(m, p)
  <2> DEFINE c == claim[m][p]
             d == [c EXCEPT !.state = "publishing", !.dest = present]
  <2>1. /\ d \in Claims /\ d.state = "publishing" /\ d.dest = present
        /\ d.next = c.next /\ d.marked = c.marked
    BY <1>3, Zenon DEF Claims, GroupTypeInv, DeliveryTypeOK
  <2>2. claim' = [claim EXCEPT ![m][p] = d] /\ c.state = "reading" /\ c.next <= Len(topic[p])
    BY <1>5, Zenon DEF IsConnected, end, GroupTypeInv, DeliveryTypeOK
  <2> HIDE DEF d
  <2>3. /\ claim' \in [Members -> [Partitions -> Claims]]
        /\ claim'[m][p] = d
        /\ \A k \in Members, r \in Partitions : <<k, r>> # <<m, p>> => claim'[k][r] = claim[k][r]
    BY <2>1, <2>2, Zenon DEF GroupTypeInv, DeliveryTypeOK
  <2>4. UNCHANGED <<committed, owner, failures>> /\ CommittedIsHandled'
    BY <1>1, <1>5, Zenon DEF IsConnected, group, CommittedIsHandled
  <2>5. GroupTypeInv'
    BY <1>1, <2>3, <2>4, Zenon DEF GroupTypeInv, DeliveryTypeOK
  <2>6. steady \subseteq present
    BY Zenon DEF GroupTypeInv, DeliveryTypeOK
  <2>7. ClaimInv'
    <3> SUFFICES ASSUME NEW k \in Members, NEW r \in Partitions, claim'[k][r].state # "off"
                 PROVE  /\ claim'[k][r].next = claim'[k][r].marked + 1
                        /\ \A o \in 1 .. claim'[k][r].marked : o \in handled[r]
                        /\ claim'[k][r].state = "publishing" =>
                             claim'[k][r].next <= Len(topic[r]) /\ steady \subseteq claim'[k][r].dest
      BY <1>1, Zenon DEF ClaimInv
    <3>1. CASE k = m /\ r = p
      <4>1. c.state # "off"
        BY <2>2
      <4>2. c.next = c.marked + 1 /\ \A o \in 1 .. c.marked : o \in handled[p]
        BY <4>1, Zenon DEF ClaimInv
      <4> QED
        BY <2>1, <2>2, <2>3, <2>6, <3>1, <4>2, Zenon
    <3>2. CASE <<k, r>> # <<m, p>>
      <4>1. claim'[k][r] = claim[k][r]
        BY <2>3, <3>2, Zenon
      <4> QED
        BY <4>1, Zenon DEF ClaimInv
    <3> QED
      BY <3>1, <3>2, Zenon
  <2> QED
    BY <1>2, <2>4, <2>5, <2>7, Zenon
<1>6. CASE Commit(m, p)
  <2>1. /\ UNCHANGED <<owner, claim, failures>>
        /\ committed' = [committed EXCEPT ![p] = claim[m][p].marked]
    BY <1>6, Zenon DEF Commit
  <2>2. ClaimInv' /\ \A o \in 1 .. claim[m][p].marked : o \in handled[p]
    <3>1. claim[m][p].state # "off"
      BY <1>6, Zenon DEF Commit
    <3>2. \A o \in 1 .. claim[m][p].marked : o \in handled[p]
      BY <3>1, Zenon DEF ClaimInv
    <3>3. ClaimInv'
      BY <1>1, <2>1, Zenon DEF ClaimInv
    <3> QED
      BY <3>2, <3>3, Zenon
  <2>3. claim[m][p].marked \in 0 .. MaxRecords
    <3>1. claim[m][p].marked \in Nat /\ handled[p] \subseteq 1 .. MaxRecords
      BY <1>3, Zenon DEF Claims, GroupTypeInv, DeliveryTypeOK
    <3>2. claim[m][p].marked = 0 \/ claim[m][p].marked \in 1 .. claim[m][p].marked
      BY <3>1
    <3>3. 0 \in 0 .. MaxRecords /\ 1 .. MaxRecords \subseteq 0 .. MaxRecords
      BY DeliveryAssumption
    <3> QED
      BY <2>2, <3>1, <3>2, <3>3, Zenon
  <2>4. CommittedIsHandled'
    BY <1>1, <2>1, <2>2, Zenon DEF CommittedIsHandled, GroupTypeInv, DeliveryTypeOK
  <2>5. GroupTypeInv'
    BY <1>1, <2>1, <2>3, Zenon DEF GroupTypeInv, DeliveryTypeOK
  <2> QED
    BY <1>2, <2>2, <2>4, <2>5, Zenon
<1> QED
  BY <1>4, <1>5, <1>6, Zenon

\* Instances that come and go: fewer are steady than before.
LEMMA InstanceStep ==
  ASSUME GroupInv, NEW i \in Instances, Appears(i) \/ Lost(i)
  PROVE  GroupInv'
<1> USE DEF GroupInv
<1>1. UNCHANGED <<topic, committed, owner, claim, handled, channel>> /\ steady' \subseteq steady
  BY Zenon DEF Appears, Lost, group
<1>2. GroupTypeInv'
  <2>1. present' \subseteq Instances /\ subscribed' \subseteq Instances
    BY Zenon DEF Appears, Lost, GroupTypeInv, DeliveryTypeOK
  <2>2. steady' \subseteq present' \cap subscribed'
    BY Zenon DEF Appears, Lost, GroupTypeInv, DeliveryTypeOK
  <2>3. failures' \in 0 .. MaxFailures
    BY DeliveryAssumption DEF Appears, Lost, Failure, GroupTypeInv, DeliveryTypeOK
  <2> QED
    BY <1>1, <2>1, <2>2, <2>3, Zenon DEF GroupTypeInv, DeliveryTypeOK
<1>3. ClaimInv' /\ CommittedIsHandled' /\ TopicOrder'
  BY <1>1, Zenon DEF ClaimInv, CommittedIsHandled, TopicOrder
<1>4. SteadyMissNothing' /\ ChannelOrder' /\ ChannelInTopic'
  <2>1. SteadyMissNothing'
    <3>1. \A j \in steady' : j \in steady /\ Received(j)' = Received(j)
      BY <1>1, Zenon DEF Received
    <3> QED
      BY <1>1, <3>1, Zenon DEF SteadyMissNothing
  <2>2. ChannelOrder'
    BY <1>1, Zenon DEF ChannelOrder
  <2>3. ChannelInTopic'
    BY <1>1, Zenon DEF ChannelInTopic, InTopic
  <2> QED
    BY <2>1, <2>2, <2>3, Zenon
<1> QED
  BY <1>2, <1>3, <1>4, Zenon

\* The invariant is inductive.
LEMMA GroupInvStep == GroupInv /\ [DeliveryNext]_(deliveryVars) => GroupInv'
<1> SUFFICES ASSUME GroupInv, [DeliveryNext]_(deliveryVars) PROVE GroupInv'
  BY Zenon
<1>1. CASE UNCHANGED deliveryVars
  <2>1. UNCHANGED <<topic, committed, owner, claim, present, subscribed, steady, handled, channel,
                    failures>>
    BY <1>1, Zenon DEF deliveryVars, group, env
  <2> USE DEF GroupInv
  <2>2. GroupTypeInv'
    BY <2>1, Zenon DEF GroupTypeInv, DeliveryTypeOK
  <2>3. ClaimInv' /\ CommittedIsHandled'
    BY <2>1, Zenon DEF ClaimInv, CommittedIsHandled
  <2>4. SteadyMissNothing'
    BY <2>1, SteadyKept, Zenon
  <2>5. ChannelOrder' /\ TopicOrder'
    BY <2>1, Zenon DEF ChannelOrder, TopicOrder
  <2>6. ChannelInTopic'
    BY <2>1, Zenon DEF ChannelInTopic, InTopic
  <2> QED
    BY <2>2, <2>3, <2>4, <2>5, <2>6, Zenon
<1>2. CASE \E e \in Rooms \X Seqs : Produce(e)
  BY <1>2, ProduceStep, Zenon DEF Records
<1>3. CASE \E i \in Instances : Appears(i) \/ Lost(i)
  BY <1>3, InstanceStep, Zenon
<1>4. ASSUME NEW m \in Members,
             \/ SessionEnds(m)
             \/ \E p \in Partitions : \/ Assign(m, p) \/ IsConnected(m, p) \/ Commit(m, p)
                                      \/ PublishMessage(m, p) \/ PublishError(m, p)
      PROVE  GroupInv'
  BY <1>4, EndStep, MemberStep, PublishStep, Zenon
<1> QED
  BY <1>1, <1>2, <1>3, <1>4, Zenon DEF DeliveryNext, Consume

\* The invariant holds in every reachable state.
LEMMA GroupAlways == DeliverySpec => []GroupInv
BY GroupInit, GroupInvStep, PTL DEF DeliverySpec

\* The offsets committed and handled are ones of the topic, and an instance is steady
\* only while presence names it and it is subscribed.
THEOREM DeliveryTypes == DeliverySpec => []DeliveryTypeOK
<1>1. GroupInv => DeliveryTypeOK
  BY Zenon DEF GroupInv, GroupTypeInv
<1> QED
  BY <1>1, GroupAlways, PTL

-----------------------------------------------------------------------------
\* Nothing is skipped: what is committed was handled to the end, however many members
\* read a partition and whatever sessions end (MarkMessage after Handle).
THEOREM NothingSkipped == DeliverySpec => []CommittedIsHandled
BY GroupAlways, PTL DEF GroupInv

\* An instance that presence names and that is subscribed all along receives every
\* record that was handled (PublishMessage publishes to all instances or fails).
THEOREM SteadyComplete == DeliverySpec => []SteadyMissNothing
BY GroupAlways, PTL DEF GroupInv

\* Such an instance gets the messages of every room in order and without a gap,
\* repeats aside: from a topic that keeps RoomTopic, which OutboxRelay is proved to
\* implement.
THEOREM RoomsArriveInOrder == DeliverySpec => []RoomsInOrder
<1>1. GroupInv => RoomsInOrder
  <2> SUFFICES ASSUME GroupInv, NEW i \in steady, NEW n \in DOMAIN channel[i],
                      Event(channel[i][n])[2] > 1
               PROVE  \E k \in 1 .. n - 1 : Event(channel[i][k]) =
                        <<Event(channel[i][n])[1], Event(channel[i][n])[2] - 1>>
    BY Zenon DEF RoomsInOrder
  <2> DEFINE x == channel[i][n]
             e == Event(x)
  <2>1. n \in 1 .. Len(channel[i]) /\ x \in Deliveries /\ InTopic(x)
    <3>1. i \in Instances /\ channel[i] \in Seq(Deliveries)
      BY Zenon DEF GroupInv, GroupTypeInv, DeliveryTypeOK, Deliveries
    <3>2. n \in 1 .. Len(channel[i]) /\ x \in Deliveries
      BY <3>1
    <3> QED
      BY <3>1, <3>2, Zenon DEF GroupInv, ChannelInTopic
  <2>2. x[1] \in Partitions /\ x[2] \in 1 .. Len(topic[x[1]]) /\ e = topic[x[1]][x[2]]
    BY <2>1, Zenon DEF Deliveries, InTopic, Event
  <2>3. OrderedLog(x[1], topic[x[1]]) /\ OrderedChannel(channel[i])
    BY <2>2, Zenon DEF GroupInv, TopicOrder, ChannelOrder
  <2>4. PICK q \in 1 .. x[2] - 1 : topic[x[1]][q] = <<e[1], e[2] - 1>>
    BY <2>2, <2>3, Zenon DEF OrderedLog
  <2>5. PICK k \in 1 .. n - 1 : channel[i][k] = <<x[1], q>>
    BY <2>1, <2>3, <2>4, Zenon DEF OrderedChannel
  <2>6. Event(channel[i][k]) = <<e[1], e[2] - 1>>
    <3>1. Event(<<x[1], q>>) = topic[x[1]][q]
      BY Zenon DEF Event
    <3> QED
      BY <2>4, <2>5, <3>1, Zenon
  <2> QED
    BY <2>5, <2>6, Zenon
<1> QED
  BY <1>1, GroupAlways, PTL

-----------------------------------------------------------------------------
\* What is in the topic is a stored row, and all rows before it in its room are marked
\* as published: the broker gets nothing else, and neither a row nor its mark is undone.
TopicStored ==
  \A p \in Partitions : \A o \in 1 .. Len(topic[p]) :
    topic[p][o] \in Stored /\ Follows(topic[p][o])

LEMMA AppendStored ==
  ASSUME TypeOK, TopicStored, NEW e \in Entries, e \in Stored, Follows(e), Append1(e),
         Stored \subseteq Stored', published \subseteq published'
  PROVE  TopicStored'
<1> DEFINE P == PartitionOf[e[1]]
<1>1. P \in Partitions
  BY PartitionOfAssumption, Zenon DEF Entries
<1>2. topic \in [Partitions -> Seq(Entries)]
  BY Zenon DEF TypeOK
<1> DEFINE Fine(f) == f \in Stored' /\ \A n \in 1 .. f[2] - 1 : <<f[1], n>> \in published'
<1>3. \A f : f \in Stored /\ Follows(f) => Fine(f)
  BY Zenon DEF Follows
<1> SUFFICES ASSUME NEW p \in Partitions, NEW o \in 1 .. Len(topic'[p])
             PROVE  Fine(topic'[p][o])
  BY Zenon DEF TopicStored, Follows
<1> HIDE DEF Fine
<1>4. CASE p # P
  <2>1. topic'[p] = topic[p]
    BY <1>1, <1>2, <1>4, Zenon DEF Append1
  <2>2. topic[p][o] \in Stored /\ Follows(topic[p][o])
    BY <2>1, Zenon DEF TopicStored
  <2> QED
    BY <1>3, <2>1, <2>2, Zenon
<1>5. CASE p = P
  <2>1. topic'[P] = Append(topic[P], e) /\ topic[P] \in Seq(Entries)
    BY <1>1, <1>2, Zenon DEF Append1
  <2>2. \/ o \in 1 .. Len(topic[P]) /\ topic'[P][o] = topic[P][o]
        \/ topic'[P][o] = e
    <3>1. ASSUME NEW s \in Seq(Entries), NEW i \in 1 .. Len(Append(s, e))
          PROVE  \/ i \in 1 .. Len(s) /\ Append(s, e)[i] = s[i]
                 \/ Append(s, e)[i] = e
      OBVIOUS
    <3> QED
      BY <1>5, <2>1, <3>1, Zenon
  <2>3. o \in 1 .. Len(topic[P]) => topic[P][o] \in Stored /\ Follows(topic[P][o])
    BY <1>1, Zenon DEF TopicStored
  <2> QED
    BY <1>3, <1>5, <2>2, <2>3, Zenon
<1> QED
  BY <1>4, <1>5, Zenon

LEMMA TopicStoredAlways == Spec => []TopicStored
<1>1. Init => TopicStored
  <2> SUFFICES ASSUME Init, NEW p \in Partitions PROVE 1 .. Len(topic[p]) = {}
    BY Zenon DEF TopicStored
  <2>1. topic[p] = <<>>
    BY Zenon DEF Init, TopicInit
  <2> QED
    BY <2>1
<1>2. ASSUME RelayInv, TopicStored, [Next]_vars PROVE TopicStored'
  <2> USE <1>2 DEF RelayInv
  <2>1. CASE Next
    <3>1. Stored \subseteq Stored' /\ published \subseteq published'
      BY <2>1, Grows, Zenon
    <3>2. ASSUME NEW e \in inflight, LateAppend(e) PROVE TopicStored'
      <4>1. e \in Entries /\ e \in Stored /\ Follows(e) /\ Append1(e)
        BY <3>2, Zenon DEF TypeOK, WorkInv, LateAppend
      <4> QED
        BY <3>1, <4>1, AppendStored, Zenon
    <3>3. ASSUME NEW k \in Relays, Publish(k) PROVE TopicStored'
      <4>1. pc[k] # "poll" /\ Append1(Head(batch[k]))
        BY <3>3 DEF Publish
      <4>2. /\ Head(batch[k]) \in Entries /\ Head(batch[k]) \in Stored /\ Follows(Head(batch[k]))
        BY <4>1, CurrentEntry, Zenon
      <4> QED
        BY <3>1, <4>1, <4>2, AppendStored, Zenon
    <3>4. ASSUME UNCHANGED topic PROVE TopicStored'
      BY <3>1, <3>4, Zenon DEF TopicStored, Follows
    <3>5. (\E r \in Rooms : Accepted(r)) => UNCHANGED topic
      BY Zenon DEF Accepted
    <3>6. (\E k \in Relays : Poll(k) \/ PublishRefused(k) \/ Mark(k) \/ PublishFails(k)
                             \/ MarkFails(k) \/ Crash(k)) => UNCHANGED topic
      BY Zenon DEF Poll, PublishRefused, Mark, PublishFails, MarkFails, Crash
    <3> QED
      BY <2>1, <3>2, <3>3, <3>4, <3>5, <3>6, StepKinds, Zenon
  <2>2. CASE UNCHANGED vars
    <3>1. UNCHANGED <<rows, published, topic>>
      BY <2>2, Zenon DEF vars
    <3> QED
      BY <3>1, Zenon DEF TopicStored, Follows, Stored
  <2> QED
    BY <2>1, <2>2, Zenon
<1> QED
  BY <1>1, <1>2, Inductive, PTL DEF Spec

-----------------------------------------------------------------------------
\* In the history a key has one place, and an acknowledgement names it.
KeysApart ==
  \A r, s \in Rooms : \A i \in 1 .. Len(log[r]), j \in 1 .. Len(log[s]) :
    log[r][i] = log[s][j] => r = s /\ i = j
AckedInLog ==
  \A a \in acked : /\ a.room \in Rooms /\ a.seq \in 1 .. Len(log[a.room])
                   /\ log[a.room][a.seq] = a.key
LogInv == log \in [Rooms -> Seq(Keys)] /\ KeysApart /\ AckedInLog

\* A new key is added at the end of a log.
LEMMA LogAccept ==
  ASSUME LogInv, NEW r \in Rooms, NEW k \in Keys, Store!Accept(k, r)
  PROVE  LogInv'
<1> USE DEF LogInv
<1>1. ~Store!Accepted(k) /\ log' = [log EXCEPT ![r] = Append(log[r], k)]
  BY Zenon DEF Store!Accept
<1>2. /\ log[r] \in Seq(Keys) /\ log'[r] = Append(log[r], k)
      /\ \A s \in Rooms \ {r} : log'[s] = log[s]
  BY <1>1, Zenon
<1>3. /\ Len(log[r]) \in Nat /\ Len(log'[r]) = Len(log[r]) + 1 /\ log'[r][Len(log[r]) + 1] = k
      /\ \A i \in 1 .. Len(log[r]) : i \in 1 .. Len(log'[r]) /\ log'[r][i] = log[r][i]
      /\ \A i \in 1 .. Len(log'[r]) : i \in 1 .. Len(log[r]) \/ i = Len(log[r]) + 1
      /\ Len(log[r]) + 1 \in 1 .. Len(log'[r])
  BY <1>2
<1>4. log' \in [Rooms -> Seq(Keys)]
  <2>1. Append(log[r], k) \in Seq(Keys)
    BY <1>2
  <2> QED
    BY <1>1, <2>1, Zenon
<1>5. \A s \in Rooms : \A i \in 1 .. Len(log[s]) : i \in 1 .. Len(log'[s]) /\ log'[s][i] = log[s][i]
  BY <1>2, <1>3, Zenon
<1>6. \A s \in Rooms : \A i \in 1 .. Len(log'[s]) :
        i \in 1 .. Len(log[s]) \/ (s = r /\ i = Len(log[r]) + 1 /\ log'[s][i] = k)
  BY <1>2, <1>3, Zenon
<1>7. \A s \in Rooms : \A i \in 1 .. Len(log[s]) : log[s][i] # k
  BY <1>1, Zenon DEF Store!Accepted
<1>8. KeysApart'
  <2> SUFFICES ASSUME NEW s \in Rooms, NEW t \in Rooms, NEW i \in 1 .. Len(log'[s]),
                      NEW j \in 1 .. Len(log'[t]), log'[s][i] = log'[t][j]
               PROVE  s = t /\ i = j
    BY Zenon DEF KeysApart
  <2>1. CASE i \in 1 .. Len(log[s]) /\ j \in 1 .. Len(log[t])
    <3>1. log[s][i] = log[t][j]
      BY <1>5, <2>1, Zenon
    <3> QED
      BY <2>1, <3>1 DEF KeysApart
  <2>2. CASE i \notin 1 .. Len(log[s])
    <3>1. s = r /\ i = Len(log[r]) + 1 /\ log'[t][j] = k
      BY <1>6, <2>2, Zenon
    <3>2. j \notin 1 .. Len(log[t])
      BY <1>5, <1>7, <3>1, Zenon
    <3> QED
      BY <1>6, <3>1, <3>2, Zenon
  <2>3. CASE j \notin 1 .. Len(log[t])
    <3>1. t = r /\ j = Len(log[r]) + 1 /\ log'[s][i] = k
      BY <1>6, <2>3, Zenon
    <3>2. i \notin 1 .. Len(log[s])
      BY <1>5, <1>7, <3>1, Zenon
    <3> QED
      BY <1>6, <3>1, <3>2, Zenon
  <2> QED
    BY <2>1, <2>2, <2>3, Zenon
<1>9. AckedInLog'
  <2> SUFFICES ASSUME NEW a \in acked'
               PROVE  /\ a.room \in Rooms /\ a.seq \in 1 .. Len(log'[a.room])
                      /\ log'[a.room][a.seq] = a.key
    BY Zenon DEF AckedInLog
  <2>1. CASE a \in acked
    BY <1>5, <2>1, Zenon DEF AckedInLog
  <2>2. CASE a = Store!Place(k, r, Len(log[r]) + 1)
    <3>1. a.room = r /\ a.seq = Len(log[r]) + 1 /\ a.key = k
      BY <2>2, Zenon DEF Store!Place
    <3> QED
      BY <1>3, <3>1, Zenon
  <2> QED
    BY <2>1, <2>2, Zenon DEF Store!Accept
<1> QED
  BY <1>4, <1>8, <1>9, Zenon

LEMMA LogAlways == Store!Spec => []LogInv
<1>1. Store!Init => LogInv
  <2> SUFFICES ASSUME Store!Init PROVE LogInv
    BY Zenon
  <2>1. log = [r \in Rooms |-> <<>>] /\ acked = {}
    BY Zenon DEF Store!Init
  <2>2. <<>> \in Seq(Keys) /\ 1 .. Len(<<>>) = {}
    OBVIOUS
  <2> QED
    BY <2>1, <2>2, Zenon DEF LogInv, KeysApart, AckedInLog
<1>2. LogInv /\ [Store!Next]_<<log, acked>> => LogInv'
  <2> SUFFICES ASSUME LogInv, [Store!Next]_<<log, acked>> PROVE LogInv'
    OBVIOUS
  <2>1. CASE \E r \in Rooms, k \in Keys : Store!Accept(k, r)
    BY <2>1, LogAccept, Zenon
  <2>2. ASSUME NEW r \in Rooms, NEW i \in 1 .. Len(log[r]), Store!Acknowledge(r, i) PROVE LogInv'
    <3> DEFINE b == Store!Place(log[r][i], r, i)
    <3>1. log' = log /\ acked' = acked \cup {b} /\ b.room = r /\ b.seq = i /\ b.key = log[r][i]
      BY <2>2, Zenon DEF Store!Acknowledge, Store!Place
    <3> HIDE DEF b
    <3>2. KeysApart' /\ log' \in [Rooms -> Seq(Keys)]
      BY <3>1 DEF LogInv, KeysApart
    <3>3. AckedInLog'
      BY <3>1, Zenon DEF LogInv, AckedInLog
    <3> QED
      BY <3>2, <3>3, Zenon DEF LogInv
  <2>3. CASE UNCHANGED <<log, acked>>
    BY <2>3 DEF LogInv, KeysApart, AckedInLog
  <2> QED
    BY <2>1, <2>2, <2>3, Zenon DEF Store!Next
<1> QED
  BY <1>1, <1>2, PTL DEF Store!Spec

-----------------------------------------------------------------------------
\* Each part of the path behaves as it does alone.  The history is that of Accept.
THEOREM PathStore == PathSpec => Store!Spec
<1>1. PathInit => Store!Init
  BY DEF PathInit
<1>2. [PathNext]_pathVars => [Store!Next]_<<log, acked>>
  <2>1. AcceptStep => Store!Next
    BY Zenon DEF AcceptStep, Store!Next
  <2>2. RelayStep \/ ConsumerStep \/ UNCHANGED pathVars => UNCHANGED <<log, acked>>
    BY Zenon DEF RelayStep, ConsumerStep, pathVars, storeVars
  <2> QED
    BY <2>1, <2>2, Zenon DEF PathNext
<1> QED
  BY <1>1, <1>2, PTL DEF PathSpec, Store!Spec

\* The relays see rows that appear in the order of room_seq, and nothing else of the
\* other parts.
THEOREM PathRelay == PathSpec => Spec
<1>1. PathInit => Init
  BY DEF PathInit
<1>2. [PathNext]_pathVars => [Next]_vars
  <2>1. AcceptStep => Next \/ UNCHANGED vars
    BY Zenon DEF AcceptStep, Next
  <2>2. RelayStep => Next
    BY Zenon DEF RelayStep, Next
  <2>3. ConsumerStep => UNCHANGED topic
    <3>1. \A i \in Instances : Appears(i) \/ Lost(i) => UNCHANGED topic
      BY Zenon DEF Appears, Lost, group
    <3>2. \A m \in Members : SessionEnds(m) => UNCHANGED topic
      BY Zenon DEF SessionEnds, group
    <3>3. ASSUME NEW m \in Members, NEW p \in Partitions,
                 Assign(m, p) \/ IsConnected(m, p) \/ Commit(m, p)
          PROVE  UNCHANGED topic
      <4>1. CASE Assign(m, p)
        BY <4>1, Zenon DEF Assign, group
      <4>2. CASE IsConnected(m, p)
        BY <4>2, Zenon DEF IsConnected, group
      <4>3. CASE Commit(m, p)
        BY <4>3, Zenon DEF Commit, group
      <4> QED
        BY <3>3, <4>1, <4>2, <4>3, Zenon
    <3>4. \A m \in Members, p \in Partitions :
            PublishMessage(m, p) \/ PublishError(m, p) => UNCHANGED topic
      BY Zenon DEF PublishMessage, PublishError, group
    <3> QED
      BY <3>1, <3>2, <3>3, <3>4, Zenon DEF ConsumerStep, Consume
  <2>4. ConsumerStep \/ UNCHANGED pathVars => UNCHANGED vars
    BY <2>3, Zenon DEF ConsumerStep, pathVars, vars
  <2> QED
    BY <2>1, <2>2, <2>4, Zenon DEF PathNext
<1> QED
  BY <1>1, <1>2, PTL DEF PathSpec, Spec

\* The topic the consumers read is the one the relays write: what Delivery takes for
\* granted of it is what OutboxRelay does.
THEOREM PathDelivery == PathSpec => DeliverySpec
<1>1. PathInit => DeliveryInit
  BY DEF PathInit
<1>2. ASSUME RelayInv, RowsBounded, [PathNext]_pathVars
      PROVE  [DeliveryNext]_(deliveryVars)
  <2>1. ASSUME UNCHANGED topic, UNCHANGED groupVars PROVE UNCHANGED deliveryVars
    BY <2>1, Zenon DEF groupVars, deliveryVars, group, env
  <2>2. AcceptStep => UNCHANGED topic /\ UNCHANGED groupVars
    BY Zenon DEF AcceptStep, Accepted, vars
  <2>3. UNCHANGED pathVars => UNCHANGED topic /\ UNCHANGED groupVars
    BY Zenon DEF pathVars, vars
  <2>4. ConsumerStep => DeliveryNext
    BY Zenon DEF ConsumerStep, DeliveryNext
  <2>5. ASSUME RelayStep PROVE [DeliveryNext]_(deliveryVars)
    <3>1. Next /\ UNCHANGED groupVars /\ \A p \in Partitions : Len(topic'[p]) <= MaxRecords
      BY <2>5, Zenon DEF RelayStep, Next
    <3>2. [TopicNext]_topic
      BY <1>2, <3>1, TopicStep, Zenon
    <3>3. CASE UNCHANGED topic
      BY <2>1, <3>1, <3>3, Zenon
    <3>4. CASE TopicNext
      <4>1. PICK e \in Rooms \X Seqs : AppendRecord(e)
        BY <3>4, Zenon DEF TopicNext
      <4> DEFINE P == PartitionOf[e[1]]
      <4>2. P \in Partitions /\ topic[P] \in Seq(Entries)
        BY <1>2, PartitionOfAssumption, Zenon DEF RelayInv, TypeOK
      <4>3. topic'[P] = Append(topic[P], e) /\ Len(topic'[P]) <= MaxRecords
        BY <1>2, <3>1, <4>1, <4>2, Zenon DEF RelayInv, TypeOK, AppendRecord
      <4> HIDE DEF P
      <4>4. Len(topic[P]) < MaxRecords
        BY <4>2, <4>3, DeliveryAssumption
      <4>5. end[P] < MaxRecords
        BY <4>2, <4>4, Zenon DEF end
      <4>6. AppendRecord(e)
        BY <4>1, Zenon DEF AppendRecord, Has, AppendRecord, Has
      <4>7. Produce(e)
        BY <3>1, <4>5, <4>6, Zenon DEF Produce, P, groupVars, env
      <4> QED
        BY <4>7, Zenon DEF DeliveryNext
    <3> QED
      BY <3>2, <3>3, <3>4, Zenon
  <2> QED
    BY <1>2, <2>1, <2>2, <2>3, <2>4, <2>5, Zenon DEF PathNext
<1> QED
  BY <1>1, <1>2, PathRelay, Inductive, RowsBoundedAlways, PTL DEF PathSpec, DeliverySpec

-----------------------------------------------------------------------------
\* The outbox has a row for every message of the history, and no other.
RowsAreHistory == \A r \in Rooms : Len(rows[r]) = Len(log[r])

LEMMA RowsStep ==
  ASSUME TypeOK, LogInv, RowsAreHistory, [PathNext]_pathVars
  PROVE  RowsAreHistory'
<1>1. ASSUME NEW r \in Rooms, NEW k \in Keys, Store!Accept(k, r), Accepted(r)
      PROVE  RowsAreHistory'
  <2>1. PICK row \in Row : rows' = [rows EXCEPT ![r] = Append(rows[r], row)]
    BY <1>1, Zenon DEF Accepted
  <2>2. log' = [log EXCEPT ![r] = Append(log[r], k)]
    BY <1>1, Zenon DEF Store!Accept
  <2>3. rows \in [Rooms -> Seq(Row)] /\ log \in [Rooms -> Seq(Keys)]
    BY Zenon DEF TypeOK, LogInv
  <2>4. rows'[r] = Append(rows[r], row) /\ log'[r] = Append(log[r], k)
    BY <2>1, <2>2, <2>3, Zenon
  <2>5. rows[r] \in Seq(Row) /\ log[r] \in Seq(Keys) /\ Len(rows[r]) = Len(log[r])
    BY <2>3, Zenon DEF RowsAreHistory
  <2>6. Len(rows'[r]) = Len(log'[r])
    BY <2>4, <2>5
  <2>7. \A s \in Rooms \ {r} : rows'[s] = rows[s] /\ log'[s] = log[s]
    BY <2>1, <2>2, <2>3, Zenon
  <2> QED
    BY <2>6, <2>7, Zenon DEF RowsAreHistory
<1>2. ASSUME UNCHANGED rows, UNCHANGED log PROVE RowsAreHistory'
  BY <1>2, Zenon DEF RowsAreHistory
<1>3. ASSUME NEW r \in Rooms, NEW i \in 1 .. Len(log[r]), Store!Acknowledge(r, i), UNCHANGED vars
      PROVE  RowsAreHistory'
  BY <1>2, <1>3, Zenon DEF Store!Acknowledge, vars
<1>4. ASSUME RelayStep PROVE UNCHANGED rows /\ UNCHANGED log
  <2>1. Work => UNCHANGED rows
    BY Zenon DEF Work, Step, Poll, Publish, PublishRefused, Mark, PublishFails, MarkFails, Crash,
                 LateAppend
  <2> QED
    BY <1>4, <2>1, Zenon DEF RelayStep, storeVars
<1>5. ConsumerStep \/ UNCHANGED pathVars => UNCHANGED rows /\ UNCHANGED log
  BY Zenon DEF ConsumerStep, pathVars, vars, storeVars
<1> QED
  BY <1>1, <1>2, <1>3, <1>4, <1>5, Zenon DEF PathNext, AcceptStep

LEMMA RowsAlways == PathSpec => []RowsAreHistory
<1>1. PathInit => RowsAreHistory
  BY Zenon DEF PathInit, Init, Store!Init, RowsAreHistory
<1>2. RelayInv /\ LogInv /\ RowsAreHistory /\ [PathNext]_pathVars => RowsAreHistory'
  BY RowsStep, Zenon DEF RelayInv
<1> QED
  BY <1>1, <1>2, PathRelay, Inductive, PathStore, LogAlways, PTL DEF PathSpec

\* What the proofs below use of the parts.
PathInv == /\ RelayInv /\ TopicStored /\ LogInv /\ GroupInv /\ RowsAreHistory

LEMMA PathAlways == PathSpec => []PathInv
BY PathRelay, Inductive, TopicStoredAlways, PathStore, LogAlways, PathDelivery, GroupAlways,
   RowsAlways, PTL DEF PathInv

\* What an instance received is a record of the topic, which is in the history.
LEMMA ReceivedFacts ==
  ASSUME PathInv, NEW i \in Instances, NEW x \in Received(i)
  PROVE  /\ x[1] \in Partitions /\ x[2] \in 1 .. Len(topic[x[1]])
         /\ Event(x) \in Entries /\ InHistory(Event(x)) /\ Follows(Event(x))
<1>1. PICK n \in DOMAIN channel[i] : x = channel[i][n]
  BY Zenon DEF Received
<1>2. channel[i] \in Seq(Partitions \X (1 .. MaxRecords))
  BY Zenon DEF PathInv, GroupInv, GroupTypeInv, DeliveryTypeOK
<1>3. n \in 1 .. Len(channel[i]) /\ x[1] \in Partitions
  BY <1>1, <1>2
<1>4. x[2] \in 1 .. Len(topic[x[1]])
  BY <1>1, <1>3, Zenon DEF PathInv, GroupInv, ChannelInTopic, InTopic
<1> DEFINE e == Event(x)
<1>5. e \in Stored /\ Follows(e)
  BY <1>3, <1>4, Zenon DEF PathInv, TopicStored, Event
<1> HIDE DEF e
<1>6. rows \in [Rooms -> Seq(Row)] /\ e \in Entries
  BY <1>5, StoredFacts, Zenon DEF PathInv, RelayInv, TypeOK
<1>7. e[1] \in Rooms /\ e[2] \in Nat /\ e = <<e[1], e[2]>>
  BY <1>6 DEF Entries
<1>8. e[2] \in 1 .. Len(rows[e[1]])
  BY <1>5, <1>6, <1>7, StoredFacts, Zenon
<1>9. InHistory(e)
  BY <1>7, <1>8, Zenon DEF InHistory, PathInv, RowsAreHistory
<1> QED
  BY <1>3, <1>4, <1>5, <1>6, <1>9, Zenon DEF e

\* Nothing but accepted messages reaches an instance, each with all earlier messages of
\* its room marked as published (Accept, NextPending, Handle).
THEOREM OnlyAcceptedArrive == PathSpec => []OnlyAccepted
<1>1. PathInv => OnlyAccepted
  BY ReceivedFacts, Zenon DEF OnlyAccepted
<1> QED
  BY <1>1, PathAlways, PTL

\* However often a client sends a message, the relays publish it and the consumers
\* deliver it, the instances see one message at one place (the idempotency key of
\* Accept, carried through the outbox and the topic).
THEOREM OnePlaceArrives == PathSpec => []OnePlacePerKey
<1>1. ASSUME PathInv PROVE OnePlacePerKey
  <2> SUFFICES ASSUME NEW i \in Instances, NEW j \in Instances, NEW x \in Received(i),
                      NEW y \in Received(j), KeyOf(Event(x)) = KeyOf(Event(y))
               PROVE  Event(x) = Event(y)
    BY Zenon DEF OnePlacePerKey
  <2> DEFINE e == Event(x)
             f == Event(y)
  <2>1. e \in Entries /\ InHistory(e) /\ f \in Entries /\ InHistory(f)
    BY <1>1, ReceivedFacts, Zenon
  <2>2. KeyOf(e) = KeyOf(f)
    BY Zenon
  <2> HIDE DEF e, f
  <2>3. /\ e[1] \in Rooms /\ e[2] \in 1 .. Len(log[e[1]]) /\ f[1] \in Rooms
        /\ f[2] \in 1 .. Len(log[f[1]]) /\ log[e[1]][e[2]] = log[f[1]][f[2]]
    BY <2>1, <2>2, Zenon DEF InHistory, KeyOf
  <2>4. e[1] = f[1] /\ e[2] = f[2]
    BY <1>1, <2>3 DEF PathInv, LogInv, KeysApart
  <2>5. e = <<e[1], e[2]>> /\ f = <<f[1], f[2]>>
    BY <2>1 DEF Entries
  <2>6. e = f
    BY <2>4, <2>5, Zenon
  <2> QED
    BY <2>6, Zenon DEF e, f
<1> QED
  BY <1>1, PathAlways, PTL

\* An acknowledged message that is marked as published cannot be lost on its way to the
\* instances that are connected all along (Accept, MarkPublished after Publish,
\* MarkMessage after Handle).
THEOREM AckedNeverLost == PathSpec => []AckedArrives
<1>1. ASSUME PathInv PROVE AckedArrives
  <2> USE <1>1 DEF PathInv
  <2> SUFFICES ASSUME NEW a \in acked
               PROVE  LET e == <<a.room, a.seq>>
                          p == PartitionOf[a.room]
                      IN  /\ InHistory(e) /\ KeyOf(e) = a.key
                          /\ e \in published =>
                               \E o \in 1 .. Len(topic[p]) :
                                 /\ topic[p][o] = e
                                 /\ committed[p] >= o =>
                                      \A i \in steady : <<p, o>> \in Received(i)
    BY Zenon DEF AckedArrives
  <2> DEFINE e == <<a.room, a.seq>>
             p == PartitionOf[a.room]
  <2>1. a.room \in Rooms /\ a.seq \in 1 .. Len(log[a.room]) /\ log[a.room][a.seq] = a.key
    BY Zenon DEF LogInv, AckedInLog
  <2>2. e[1] = a.room /\ e[2] = a.seq /\ p \in Partitions
    BY <2>1, PartitionOfAssumption
  <2>3. InHistory(e) /\ KeyOf(e) = a.key
    BY <2>1, <2>2, Zenon DEF InHistory, KeyOf
  <2>4. ASSUME e \in published
        PROVE  \E o \in 1 .. Len(topic[p]) :
                 /\ topic[p][o] = e
                 /\ committed[p] >= o => \A i \in steady : <<p, o>> \in Received(i)
    <3>1. PICK o \in 1 .. Len(topic[p]) : topic[p][o] = e
      <4>1. Log(e[1]) = topic[p]
        BY <2>2, Zenon DEF Log
      <4>2. \E j \in 1 .. Len(Log(e[1])) : Log(e[1])[j] = e
        BY <2>4, Zenon DEF RelayInv, PublishedInKafka, Has
      <4> QED
        BY <4>1, <4>2, Zenon
    <3>2. ASSUME committed[p] >= o PROVE \A i \in steady : <<p, o>> \in Received(i)
      <4>1. committed[p] \in Nat
        BY <2>2, DeliveryAssumption DEF GroupInv, GroupTypeInv, DeliveryTypeOK
      <4>2. o \in 1 .. committed[p]
        BY <3>2, <4>1
      <4>3. o \in handled[p]
        BY <2>2, <4>2, Zenon DEF GroupInv, CommittedIsHandled
      <4> QED
        BY <2>2, <4>3, Zenon DEF GroupInv, SteadyMissNothing
    <3> QED
      BY <3>1, <3>2, Zenon
  <2> QED
    BY <2>3, <2>4, Zenon
<1> QED
  BY <1>1, PathAlways, PTL

\* From Accept to the instance: an instance that is connected all along gets the
\* history of every room in its order and without a gap, repeats aside, though clients,
\* relays and consumers all repeat what they are not sure of.
THEOREM HistoryArrivesInOrder == PathSpec => []HistoryInOrder
<1>1. ASSUME PathInv PROVE HistoryInOrder
  <2> USE <1>1 DEF PathInv
  <2> SUFFICES ASSUME NEW i \in steady, NEW n \in DOMAIN channel[i],
                      NEW s \in 1 .. Event(channel[i][n])[2] - 1
               PROVE  \E k \in 1 .. n - 1 :
                        Event(channel[i][k]) = <<Event(channel[i][n])[1], s>>
    BY Zenon DEF HistoryInOrder
  <2> DEFINE x == channel[i][n]
             e == Event(x)
             p == x[1]
             o == x[2]
  <2>1. i \in Instances /\ channel[i] \in Seq(Partitions \X (1 .. MaxRecords))
    BY Zenon DEF GroupInv, GroupTypeInv, DeliveryTypeOK
  <2>2. n \in 1 .. Len(channel[i])
    BY <2>1
  <2>3. x \in Received(i)
    BY Zenon DEF Received
  <2>4. /\ p \in Partitions /\ o \in 1 .. Len(topic[p]) /\ e = topic[p][o] /\ e[1] \in Rooms
    BY <2>1, <2>3, ReceivedFacts, Zenon DEF Event, InHistory
  <2>5. PartitionOf[e[1]] = p
    <3>1. OrderedLog(p, topic[p])
      BY <2>4, Zenon DEF GroupInv, TopicOrder
    <3> QED
      BY <2>4, <3>1, Zenon DEF OrderedLog
  <2>6. Log(e[1]) = topic[p]
    BY <2>5, Zenon DEF Log
  <2>7. s \in 1 .. e[2] - 1
    BY Zenon
  <2> HIDE DEF x, e, p, o
  <2>8. PICK j \in 1 .. o - 1 : topic[p][j] = <<e[1], s>>
    <3>1. \A q \in 1 .. Len(Log(e[1])) : Log(e[1])[q][1] = e[1] =>
            \A m \in 1 .. Log(e[1])[q][2] - 1 : \E j \in 1 .. q - 1 : Log(e[1])[j] = <<e[1], m>>
      BY <2>4, Zenon DEF RelayInv, FirstCopiesInOrder
    <3>2. \A q \in 1 .. Len(topic[p]) : topic[p][q][1] = e[1] =>
            \A m \in 1 .. topic[p][q][2] - 1 : \E j \in 1 .. q - 1 : topic[p][j] = <<e[1], m>>
      BY <2>6, <3>1, Zenon
    <3>3. \A m \in 1 .. e[2] - 1 : \E j \in 1 .. o - 1 : topic[p][j] = <<e[1], m>>
      BY <2>4, <3>2, Zenon
    <3> QED
      BY <2>7, <3>3, Zenon
  <2>9. PICK k \in 1 .. n - 1 : channel[i][k] = <<p, j>>
    <3>1. OrderedChannel(channel[i])
      BY Zenon DEF GroupInv, ChannelOrder
    <3> QED
      BY <2>2, <2>8, <3>1, Zenon DEF OrderedChannel, x, p, o
  <2>10. Event(<<p, j>>) = topic[p][j]
    BY DEF Event
  <2>11. Event(channel[i][k]) = <<e[1], s>>
    BY <2>8, <2>9, <2>10, Zenon
  <2> QED
    BY <2>11, Zenon DEF e, x
<1> QED
  BY <1>1, PathAlways, PTL
=============================================================================
